---------------------------- MODULE AuctionProofs ----------------------------
(***************************************************************************)
(* Proofs about Auction, for every set of clients, counts and costs: the   *)
(* request lists stay lists of requests, sorted strictly by cost, with no  *)
(* empty group; they hold what the players have asked for, once each; and  *)
(* a company has the productions it offers until the auction sells them.   *)
(* The auctions implement what they promise, FairAuction, for raws and for *)
(* productions.                                                            *)
(***************************************************************************)
EXTENDS Auction, ListProofs

Req == [client : Client, count : 0 .. Word - 1]
Group == [cost : Nat, reqs : Seq(Req)]

\* A list of requests as the searches and get_request() expect it.
Tidy(kind, groups) == groups \in Seq(Group) /\ Ordered(kind, groups)

\* The inductive invariant.
BookInv == book \in [Kind -> Seq(Group)] /\ BooksOrdered

LEMMA AheadIsStrict ==
  ASSUME NEW kind \in Kind, NEW a \in Nat, NEW b \in Nat, NEW c \in Nat
  PROVE  /\ Ahead(kind, a, b) /\ Ahead(kind, b, c) => Ahead(kind, a, c)
         /\ ~Ahead(kind, a, b) /\ a # b => Ahead(kind, b, a)
BY DEF Ahead

LEMMA EmptyTidy == ASSUME NEW kind \in Kind PROVE Tidy(kind, <<>>)
BY DEF Tidy, Ordered

-----------------------------------------------------------------------------
(* A request comes *)

\* Where the search stops: everything before is ahead of the cost.
LEMMA SearchStops ==
  ASSUME NEW kind \in Kind, NEW groups, Tidy(kind, groups), NEW cost \in Nat
  PROVE  LET i == SearchGroup(kind, groups, cost)
         IN  /\ i \in {0} \cup DOMAIN groups
             /\ i = 0 => \A j \in DOMAIN groups : Ahead(kind, groups[j].cost, cost)
             /\ i # 0 => /\ ~Ahead(kind, groups[i].cost, cost)
                         /\ \A j \in 1 .. i - 1 : Ahead(kind, groups[j].cost, cost)
<1> DEFINE I == {i \in 1 .. Len(groups) : ~Ahead(kind, groups[i].cost, cost)}
           i == SearchGroup(kind, groups, cost)
<1>1. DOMAIN groups = 1 .. Len(groups) /\ Len(groups) \in Nat
  BY LenProperties DEF Tidy
<1>2. i = IF I # {} THEN Min(I) ELSE 0
  BY DEF SearchGroup, SelectInSeq
<1>3. I \in SUBSET Nat
  BY <1>1
<1>4. CASE I = {}
  BY <1>1, <1>2, <1>4
<1>5. CASE I # {}
  <2>1. i \in I /\ \A k \in I : i <= k
    BY <1>2, <1>3, <1>5, FirstPlace
  <2>2. i # 0 /\ i \in DOMAIN groups /\ i \in 1 .. Len(groups)
    BY <1>1, <2>1
  <2>3. ASSUME NEW j \in 1 .. i - 1 PROVE Ahead(kind, groups[j].cost, cost)
    <3>1. j \in 1 .. Len(groups) /\ ~(i <= j)
      BY <1>1, <2>2
    <3> QED
      BY <2>1, <3>1
  <2> QED
    BY <2>1, <2>2, <2>3
<1> QED
  BY <1>4, <1>5

LEMMA CostOf ==
  ASSUME NEW groups \in Seq(Group), NEW i \in DOMAIN groups
  PROVE  groups[i] \in Group /\ groups[i].cost \in Nat /\ groups[i].reqs \in Seq(Req)
<1>1. groups[i] \in Group
  BY ElementOfSeq, LenProperties
<1> QED
  BY <1>1 DEF Group

\* add_buy_raw_request() and add_sell_prod_request()
LEMMA AddTidy ==
  ASSUME NEW kind \in Kind, NEW groups, Tidy(kind, groups), NEW cost \in Nat,
         NEW req \in Req
  PROVE  Tidy(kind, AddRequest(kind, groups, cost, req))
<1> DEFINE i == SearchGroup(kind, groups, cost)
           group == [cost |-> cost, reqs |-> <<req>>]
           n == Len(groups)
           t == AddRequest(kind, groups, cost, req)
<1>1. groups \in Seq(Group) /\ DOMAIN groups = 1 .. n /\ n \in Nat
  BY LenProperties DEF Tidy
<1>2. group \in Group /\ group.reqs # <<>> /\ group.cost = cost
  BY DEF Group
<1>3. /\ \A j \in 1 .. n : groups[j].reqs # <<>> /\ groups[j].cost \in Nat
      /\ \A j, k \in 1 .. n : j < k => Ahead(kind, groups[j].cost, groups[k].cost)
  BY <1>1, CostOf DEF Tidy, Ordered
<1>4. /\ i \in {0} \cup 1 .. n
      /\ i = 0 => \A j \in 1 .. n : Ahead(kind, groups[j].cost, cost)
      /\ i # 0 => /\ ~Ahead(kind, groups[i].cost, cost)
                  /\ \A j \in 1 .. i - 1 : Ahead(kind, groups[j].cost, cost)
  BY <1>1, SearchStops
<1>5. t = IF i = 0 THEN Append(groups, group)
          ELSE IF groups[i].cost = cost
               THEN [groups EXCEPT ![i].reqs = <<req>> \o @]
               ELSE InsertAt(groups, i, group)
  BY DEF AddRequest
<1> HIDE DEF i, group, n, t
<1>6. CASE i = 0
  <2>1. t = Append(groups, group)
    BY <1>5, <1>6
  <2>2. /\ t \in Seq(Group) /\ DOMAIN t = 1 .. n + 1 /\ t[n + 1] = group
        /\ \A j \in 1 .. n : t[j] = groups[j]
    BY <1>1, <1>2, <2>1, AppendProperties, LenProperties DEF n
  <2>3. \A j \in 1 .. n + 1 : t[j].reqs # <<>>
    BY <1>1, <1>2, <1>3, <2>2
  <2>4. ASSUME NEW j \in 1 .. n + 1, NEW k \in 1 .. n + 1, j < k
        PROVE  Ahead(kind, t[j].cost, t[k].cost)
    <3>1. j \in 1 .. n
      BY <1>1, <2>4
    <3>2. CASE k = n + 1
      BY <1>2, <1>4, <1>6, <2>2, <3>1, <3>2
    <3>3. CASE k \in 1 .. n
      BY <1>3, <2>2, <2>4, <3>1, <3>3
    <3> QED
      BY <1>1, <3>2, <3>3
  <2> QED
    BY <2>2, <2>3, <2>4 DEF Tidy, Ordered, t
<1>7. CASE i # 0 /\ groups[i].cost = cost
  <2>1. t = [groups EXCEPT ![i].reqs = <<req>> \o @]
    BY <1>5, <1>7
  <2>2. i \in 1 .. n /\ groups[i] \in Group /\ groups[i].reqs \in Seq(Req)
    BY <1>1, <1>4, <1>7, CostOf
  <2> DEFINE r == <<req>> \o groups[i].reqs
  <2>3. r \in Seq(Req) /\ r # <<>>
    <3>1. <<req>> \in Seq(Req) /\ Len(<<req>>) = 1
      OBVIOUS
    <3>2. r \in Seq(Req) /\ Len(r) = 1 + Len(groups[i].reqs)
      BY <2>2, <3>1, ConcatProperties
    <3>3. Len(groups[i].reqs) \in Nat
      BY <2>2, LenProperties
    <3> QED
      BY <3>2, <3>3, EmptySeq
  <2>4. /\ t = [groups EXCEPT ![i].reqs = r]
        /\ DOMAIN t = 1 .. n
        /\ t[i] = [groups[i] EXCEPT !.reqs = r]
        /\ \A j \in 1 .. n : j # i => t[j] = groups[j]
    BY <1>1, <2>1, <2>2
  <2> HIDE DEF r
  <2>5. t[i] \in Group /\ t[i].cost = cost /\ t[i].reqs = r
    BY <1>7, <2>2, <2>3, <2>4 DEF Group
  <2>6. \A j \in 1 .. n : t[j] \in Group /\ t[j].cost = groups[j].cost /\ t[j].reqs # <<>>
    BY <1>1, <1>3, <1>7, <2>3, <2>4, <2>5, CostOf
  <2>7. t \in Seq(Group)
    <3>1. t = [j \in 1 .. n |-> t[j]]
      BY <1>1, <2>4
    <3>2. t \in [1 .. n -> Group]
      BY <2>6, <3>1
    <3> QED
      BY <1>1, <3>2, SeqDef
  <2> QED
    BY <1>3, <2>4, <2>6, <2>7 DEF Tidy, Ordered, t
<1>8. CASE i # 0 /\ groups[i].cost # cost
  <2>1. t = InsertAt(groups, i, group) /\ i \in 1 .. n
    BY <1>4, <1>5, <1>8
  <2>2. /\ t \in Seq(Group) /\ DOMAIN t = 1 .. n + 1 /\ t[i] = group
        /\ \A j \in 1 .. i - 1 : t[j] = groups[j]
        /\ \A j \in i .. n : t[j + 1] = groups[j]
    <3>1. i \in DOMAIN groups
      BY <1>1, <2>1
    <3>2. /\ t \in Seq(Group) /\ DOMAIN t = 1 .. Len(groups) + 1 /\ t[i] = group
          /\ \A j \in 1 .. i - 1 : t[j] = groups[j]
          /\ \A j \in i .. Len(groups) : t[j + 1] = groups[j]
      <4>1. groups \in Seq(Group) /\ group \in Group
        BY <1>1, <1>2
      <4> HIDE DEF Group
      <4>2. LET u == InsertAt(groups, i, group)
                m == Len(groups)
            IN  /\ u \in Seq(Group) /\ m \in Nat /\ i \in 1 .. m
                /\ DOMAIN groups = 1 .. m /\ DOMAIN u = 1 .. m + 1
                /\ u[i] = group
                /\ \A j \in 1 .. i - 1 : u[j] = groups[j]
                /\ \A j \in i .. m : u[j + 1] = groups[j]
        BY <3>1, <4>1, InsertAtShape
      <4> QED
        BY <2>1, <4>2
    <3> QED
      BY <3>2 DEF n
  <2>3. Ahead(kind, cost, groups[i].cost) /\ groups[i].cost \in Nat
    BY <1>3, <1>4, <1>8, <2>1, AheadIsStrict
  <2>4. ASSUME NEW j \in i .. n PROVE Ahead(kind, cost, groups[j].cost)
    <3>1. j \in 1 .. n /\ groups[j].cost \in Nat
      BY <1>1, <1>3, <2>1
    <3>2. CASE j = i
      BY <2>3, <3>2
    <3>3. CASE j # i
      <4>1. Ahead(kind, groups[i].cost, groups[j].cost)
        BY <1>1, <1>3, <2>1, <3>1, <3>3
      <4> QED
        BY <2>3, <3>1, <4>1, AheadIsStrict
    <3> QED
      BY <3>2, <3>3
  <2>5. \A j \in 1 .. n + 1 :
          \/ j \in 1 .. i - 1 /\ t[j] = groups[j]
          \/ j = i /\ t[j] = group
          \/ j - 1 \in i .. n /\ t[j] = groups[j - 1]
    <3> SUFFICES ASSUME NEW j \in 1 .. n + 1, ~(j \in 1 .. i - 1), j # i
                 PROVE  j - 1 \in i .. n /\ t[j] = groups[j - 1]
      BY <2>2
    <3>1. j - 1 \in i .. n /\ (j - 1) + 1 = j
      BY <1>1, <2>1
    <3> QED
      BY <2>2, <3>1
  <2>6. \A j \in 1 .. n + 1 : t[j].reqs # <<>>
    <3>1. \A j \in 1 .. i - 1 : j \in 1 .. n
      BY <1>1, <2>1
    <3>2. \A j \in i .. n : j \in 1 .. n
      BY <1>1, <2>1
    <3> QED
      BY <1>2, <1>3, <2>5, <3>1, <3>2
  <2>7. ASSUME NEW j \in 1 .. n + 1, NEW k \in 1 .. n + 1, j < k
        PROVE  Ahead(kind, t[j].cost, t[k].cost)
    <3>1. CASE j \in 1 .. i - 1 /\ t[j] = groups[j]
      <4>1. j \in 1 .. n
        BY <1>1, <2>1, <3>1
      <4>2. CASE k \in 1 .. i - 1 /\ t[k] = groups[k]
        <5>1. k \in 1 .. n
          BY <1>1, <2>1, <4>2
        <5> QED
          BY <1>3, <2>7, <3>1, <4>1, <4>2, <5>1
      <4>3. CASE k = i /\ t[k] = group
        BY <1>2, <1>4, <1>8, <3>1, <4>3
      <4>4. CASE k - 1 \in i .. n /\ t[k] = groups[k - 1]
        <5>1. k - 1 \in 1 .. n /\ j < k - 1
          BY <1>1, <2>1, <3>1, <4>4
        <5> QED
          BY <1>3, <3>1, <4>1, <4>4, <5>1
      <4> QED
        BY <2>5, <4>2, <4>3, <4>4
    <3>2. CASE j = i /\ t[j] = group
      <4>1. k - 1 \in i .. n /\ t[k] = groups[k - 1]
        BY <1>1, <2>1, <2>5, <2>7, <3>2
      <4> QED
        BY <1>2, <2>4, <3>2, <4>1
    <3>3. CASE j - 1 \in i .. n /\ t[j] = groups[j - 1]
      <4>1. /\ k - 1 \in i .. n /\ t[k] = groups[k - 1]
            /\ j - 1 \in 1 .. n /\ k - 1 \in 1 .. n /\ j - 1 < k - 1
        BY <1>1, <2>1, <2>5, <2>7, <3>3
      <4> QED
        BY <1>3, <3>3, <4>1
    <3> QED
      BY <2>5, <3>1, <3>2, <3>3
  <2> QED
    BY <2>2, <2>6, <2>7 DEF Tidy, Ordered, t
<1> QED
  BY <1>6, <1>7, <1>8 DEF t

-----------------------------------------------------------------------------
(* A request goes *)

\* A request leaves its group, and an empty group the list.
LEMMA DropTidy ==
  ASSUME NEW kind \in Kind, NEW groups, Tidy(kind, groups),
         NEW i \in DOMAIN groups, NEW p \in DOMAIN groups[i].reqs
  PROVE  Tidy(kind, DropRequest(groups, i, p))
<1> DEFINE n == Len(groups)
           reqs == groups[i].reqs
           t == DropRequest(groups, i, p)
<1>1. groups \in Seq(Group) /\ DOMAIN groups = 1 .. n /\ n \in Nat /\ i \in 1 .. n
  BY LenProperties DEF Tidy
<1>2. /\ \A j \in 1 .. n : groups[j].reqs # <<>> /\ groups[j] \in Group
      /\ \A j, k \in 1 .. n : j < k => Ahead(kind, groups[j].cost, groups[k].cost)
  BY <1>1, CostOf DEF Tidy, Ordered
<1>3. t = IF Len(reqs) = 1 THEN RemoveAt(groups, i)
          ELSE [groups EXCEPT ![i].reqs = RemoveAt(@, p)]
  BY DEF DropRequest
<1>4. reqs \in Seq(Req) /\ groups[i] \in Group
  BY <1>1, CostOf
<1> HIDE DEF n, t
<1>5. CASE Len(reqs) = 1
  <2>1. t = RemoveAt(groups, i)
    BY <1>3, <1>5
  <2>2. /\ t \in Seq(Group) /\ DOMAIN t = 1 .. n - 1
        /\ \A j \in 1 .. i - 1 : t[j] = groups[j]
        /\ \A j \in i .. n - 1 : t[j] = groups[j + 1]
    BY <1>1, <2>1, RemoveAtShape DEF n
  <2>3. \A j \in 1 .. n - 1 :
          \E q \in 1 .. n : t[j] = groups[q] /\ q = IF j < i THEN j ELSE j + 1
    BY <1>1, <2>2
  <2>4. \A j \in 1 .. n - 1 : t[j].reqs # <<>>
    BY <1>2, <2>3
  <2>5. ASSUME NEW j \in 1 .. n - 1, NEW k \in 1 .. n - 1, j < k
        PROVE  Ahead(kind, t[j].cost, t[k].cost)
    <3>1. PICK q \in 1 .. n : t[j] = groups[q] /\ q = IF j < i THEN j ELSE j + 1
      BY <2>3
    <3>2. PICK r \in 1 .. n : t[k] = groups[r] /\ r = IF k < i THEN k ELSE k + 1
      BY <2>3
    <3>3. q < r
      BY <1>1, <2>5, <3>1, <3>2
    <3> QED
      BY <1>2, <3>1, <3>2, <3>3
  <2> QED
    BY <2>2, <2>4, <2>5 DEF Tidy, Ordered, t
<1>6. CASE Len(reqs) # 1
  <2> DEFINE r == RemoveAt(reqs, p)
  <2>1. t = [groups EXCEPT ![i].reqs = r]
    BY <1>3, <1>6
  <2>2. r \in Seq(Req) /\ r # <<>>
    <3>1. r \in Seq(Req) /\ Len(r) = Len(reqs) - 1 /\ Len(reqs) \in Nat /\ p \in 1 .. Len(reqs)
      BY <1>4, RemoveAtShape
    <3>2. Len(r) # 0
      BY <1>6, <3>1
    <3> QED
      BY <3>1, <3>2, EmptySeq
  <2> HIDE DEF r
  <2>3. /\ DOMAIN t = 1 .. n
        /\ t[i] = [groups[i] EXCEPT !.reqs = r]
        /\ \A j \in 1 .. n : j # i => t[j] = groups[j]
    BY <1>1, <2>1
  <2>4. t[i] \in Group /\ t[i].cost = groups[i].cost /\ t[i].reqs = r
    BY <1>4, <2>2, <2>3 DEF Group
  <2>5. \A j \in 1 .. n : t[j] \in Group /\ t[j].cost = groups[j].cost /\ t[j].reqs # <<>>
    BY <1>2, <2>2, <2>3, <2>4
  <2>6. t \in Seq(Group)
    BY <1>1, <2>1, <2>3, <2>5
  <2> QED
    BY <1>2, <2>3, <2>5, <2>6 DEF Tidy, Ordered, t
<1> QED
  BY <1>5, <1>6 DEF t

\* free_request_by_client()
LEMMA FreeTidy ==
  ASSUME NEW kind \in Kind, NEW groups, Tidy(kind, groups), NEW c
  PROVE  Tidy(kind, FreeRequest(groups, c))
<1> DEFINE I == {i \in 1 .. Len(groups) :
                   \E j \in DOMAIN groups[i].reqs : groups[i].reqs[j].client = c}
           J(i) == {j \in 1 .. Len(groups[i].reqs) : groups[i].reqs[j].client = c}
           i == IF I # {} THEN Min(I) ELSE 0
           p == IF J(i) # {} THEN Min(J(i)) ELSE 0
<1>1. groups \in Seq(Group) /\ DOMAIN groups = 1 .. Len(groups) /\ Len(groups) \in Nat
  BY LenProperties DEF Tidy
<1>2. FreeRequest(groups, c) = IF i = 0 THEN groups ELSE DropRequest(groups, i, p)
  BY DEF FreeRequest, SelectInSeq
<1>3. CASE I = {}
  BY <1>2, <1>3
<1>4. CASE I # {}
  <2>1. i \in I /\ i # 0
    <3>1. I \in SUBSET Nat
      BY <1>1
    <3>2. i \in I
      BY <1>4, <3>1, FirstPlace
    <3>3. 0 \notin I
      BY <1>1
    <3> QED
      BY <3>2, <3>3
  <2>2. i \in DOMAIN groups
    BY <1>1, <2>1
  <2> HIDE DEF i
  <2>3. groups[i].reqs \in Seq(Req)
    BY <1>1, <2>2, CostOf
  <2>4. DOMAIN groups[i].reqs = 1 .. Len(groups[i].reqs) /\ Len(groups[i].reqs) \in Nat
    BY <2>3, LenProperties
  <2>5. J(i) # {} /\ J(i) \in SUBSET Nat
    BY <2>1, <2>4
  <2>6. p \in J(i)
    BY <2>5, FirstPlace
  <2>7. p \in DOMAIN groups[i].reqs
    BY <2>4, <2>6
  <2> HIDE DEF p
  <2> QED
    BY <1>2, <2>1, <2>2, <2>7, DropTidy
<1> QED
  BY <1>3, <1>4

\* get_request() serves a request of the first group, which is there.
LEMMA ServableTidy ==
  ASSUME NEW kind \in Kind, NEW groups, Tidy(kind, groups), groups # <<>>,
         NEW p \in Servable(groups)
  PROVE  /\ Tidy(kind, DropRequest(groups, 1, p))
         /\ groups[1].reqs[p] \in Req
<1>1. groups \in Seq(Group) /\ 1 \in DOMAIN groups
  BY LenProperties, EmptySeq DEF Tidy
<1>2. groups[1].reqs \in Seq(Req) /\ groups[1].reqs # <<>>
  BY <1>1, CostOf DEF Tidy, Ordered
<1> DEFINE n == Len(groups[1].reqs)
<1>3. n \in Nat /\ n # 0 /\ DOMAIN groups[1].reqs = 1 .. n
  BY <1>2, LenProperties, EmptySeq
<1>4. PICK k \in Draws(n - 1) : p = k + 1
  BY DEF Servable
<1> HIDE DEF n
<1>5. p \in 1 .. n
  BY <1>3, <1>4 DEF Draws
<1>6. p \in DOMAIN groups[1].reqs
  BY <1>3, <1>5
<1>7. groups[1].reqs[p] \in Req
  BY <1>2, <1>6, ElementOfSeq, LenProperties
<1> QED
  BY <1>1, <1>6, <1>7, DropTidy

-----------------------------------------------------------------------------
(* The steps *)

\* One list is replaced by a tidy one.
LEMMA OneBook ==
  ASSUME BookInv, NEW kind \in Kind, NEW groups, Tidy(kind, groups),
         book' = [book EXCEPT ![kind] = groups]
  PROVE  BookInv'
<1>1. book' \in [Kind -> Seq(Group)]
  BY DEF BookInv, Tidy
<1>2. \A k \in Kind : Ordered(k, book'[k])
  BY DEF BookInv, BooksOrdered, Tidy
<1>3. BooksOrdered'
  BY <1>2 DEF BooksOrdered, Ordered, Ahead
<1> QED
  BY <1>1, <1>3 DEF BookInv, Group, Req

LEMMA NoBooks ==
  ASSUME book' = [kind \in Kind |-> <<>>]
  PROVE  BookInv'
<1>1. book' \in [Kind -> Seq(Group)]
  OBVIOUS
<1>2. \A k \in Kind : Ordered(k, book'[k])
  BY DEF Ordered
<1>3. BooksOrdered'
  BY <1>2 DEF BooksOrdered, Ordered, Ahead
<1> QED
  BY <1>1, <1>3 DEF BookInv, Group, Req

LEMMA SameBooks ==
  ASSUME BookInv, UNCHANGED book
  PROVE  BookInv'
BY DEF BookInv, BooksOrdered, Ordered, Ahead, Group, Req

LEMMA BookTidy ==
  ASSUME BookInv, NEW kind \in Kind
  PROVE  Tidy(kind, book[kind])
BY DEF BookInv, BooksOrdered, Tidy

LEMMA StepRequest ==
  ASSUME BookInv, NEW kind \in Kind, NEW c \in Client, NEW count \in 0 .. Word - 1,
         NEW cost \in Nat, Request(kind, c, count, cost)
  PROVE  BookInv'
<1> DEFINE rest == IF asked[kind][c].count > 0
                   THEN FreeRequest(book[kind], c) ELSE book[kind]
           req == [client |-> c, count |-> count]
           list == IF count = 0 THEN rest ELSE AddRequest(kind, rest, cost, req)
<1>1. Tidy(kind, rest)
  BY BookTidy, FreeTidy
<1>2. req \in Req
  BY DEF Req
<1> HIDE DEF rest, req
<1>3. Tidy(kind, list)
  BY <1>1, <1>2, AddTidy
<1>4. book' = [book EXCEPT ![kind] = list]
  BY DEF Request, rest, req
<1> HIDE DEF list
<1> QED
  BY <1>3, <1>4, OneBook

LEMMA StepServe ==
  ASSUME BookInv, NEW kind \in Kind, Serve(kind)
  PROVE  BookInv'
<1>1. Tidy(kind, book[kind]) /\ book[kind] # <<>>
  BY BookTidy DEF Serve
<1>2. PICK p \in Servable(book[kind]) :
        book' = [book EXCEPT ![kind] = DropRequest(@, 1, p)]
  BY DEF Serve
<1>3. Tidy(kind, DropRequest(book[kind], 1, p))
  BY <1>1, ServableTidy
<1>4. book' = [book EXCEPT ![kind] = DropRequest(book[kind], 1, p)]
  BY <1>2
<1> QED
  BY <1>3, <1>4, OneBook

LEMMA BookStep == BookInv /\ [Next]_vars => BookInv'
<1> SUFFICES ASSUME BookInv, [Next]_vars
             PROVE  BookInv'
  OBVIOUS
<1>1. CASE UNCHANGED vars
  BY <1>1, SameBooks DEF vars
<1>2. CASE BeginRound
  BY <1>2, NoBooks DEF BeginRound
<1>3. ASSUME NEW c \in Client, Connect(c) \/ Join(c) \/ Leave(c)
      PROVE  BookInv'
  BY <1>3, SameBooks DEF Connect, Join, Leave, books
<1>4. ASSUME NEW c \in Client, NEW count \in RequestCount, NEW cost \in BidCost,
             Buy(c, count, cost)
      PROVE  BookInv'
  <2>1. "raw" \in Kind /\ count \in 0 .. Word - 1 /\ cost \in Nat
    BY AuctionAssumption DEF Kind
  <2> QED
    BY <1>4, <2>1, StepRequest DEF Buy
<1>5. ASSUME NEW c \in Client, NEW count \in RequestCount, NEW cost \in OfferCost,
             Sell(c, count, cost)
      PROVE  BookInv'
  <2>1. "prod" \in Kind /\ count \in 0 .. Word - 1 /\ cost \in Nat
    BY AuctionAssumption DEF Kind
  <2> QED
    BY <1>5, <2>1, StepRequest DEF Sell
<1>6. CASE CloseMonth
  BY <1>6, SameBooks DEF CloseMonth
<1>7. ASSUME NEW kind \in Kind, Serve(kind)
      PROVE  BookInv'
  BY <1>7, StepServe
<1>8. ASSUME NEW kind \in Kind, EndAuction(kind)
      PROVE  BookInv'
  BY <1>8, EmptyTidy, OneBook DEF EndAuction
<1>9. ASSUME NEW made, NEW bankrupt, EndMonth(made, bankrupt)
      PROVE  BookInv'
  BY <1>9, SameBooks DEF EndMonth
<1> QED
  BY <1>1, <1>2, <1>3, <1>4, <1>5, <1>6, <1>7, <1>8, <1>9
     DEF Next, Lobby, Command, NextStep

LEMMA BookInit == Init => BookInv
<1> SUFFICES ASSUME Init PROVE BookInv
  OBVIOUS
<1>1. book = [kind \in Kind |-> <<>>]
  BY DEF Init
<1> QED
  BY <1>1 DEF BookInv, BooksOrdered, Ordered

\* However many clients ask, change and take back requests at whatever costs,
\* and however the auctions serve them and rounds are cut short, the lists of
\* auctions.c stay strictly sorted and without an empty group, which the
\* searches and get_request() rely on.
THEOREM BooksStayOrdered == Spec => []BooksOrdered
<1>1. BookInv => BooksOrdered
  BY DEF BookInv
<1> QED
  BY <1>1, BookInit, BookStep, PTL DEF Spec

-----------------------------------------------------------------------------
(* Types *)

TypeInv == TypeOK /\ BookInv

LEMMA OfferType ==
  ASSUME NEW groups \in Seq(Group), NEW c
  PROVE  OfferOf(groups, c) \in Offer
<1> DEFINE p == CHOOSE p \in PlacesOf(groups, c) : TRUE
<1>1. CASE PlacesOf(groups, c) = {}
  BY <1>1, AuctionAssumption DEF OfferOf, NoOffer, Offer
<1>2. CASE PlacesOf(groups, c) # {}
  <2>1. p \in PlacesOf(groups, c)
    BY <1>2
  <2> HIDE DEF p
  <2>2. PICK i \in DOMAIN groups : p \in {i} \X DOMAIN groups[i].reqs
    BY <2>1 DEF PlacesOf
  <2>3. p[1] = i /\ p[2] \in DOMAIN groups[i].reqs
    BY <2>2
  <2>4. groups[i].cost \in Nat /\ groups[i].reqs \in Seq(Req)
    BY CostOf
  <2>5. groups[i].reqs[p[2]] \in Req
    BY <2>3, <2>4, ElementOfSeq, LenProperties
  <2>6. OfferOf(groups, c) = [count |-> groups[i].reqs[p[2]].count, cost |-> groups[i].cost]
    BY <1>2, <2>3 DEF OfferOf, p
  <2> QED
    BY <2>4, <2>5, <2>6 DEF Offer, Req
<1> QED
  BY <1>1, <1>2

LEMMA MarketType ==
  ASSUME TypeOK, NEW kind \in Kind
  PROVE  Market(kind) \in Nat
<1>1. PICK k \in Nat : PerPlayer[kind][level + 1] = k
  BY DEF TypeOK, Kind, PerPlayer
<1>2. players_count \in Nat
  BY DEF TypeOK
<1>3. k * players_count \in Nat
  BY <1>2
<1> QED
  BY <1>1, <1>3 DEF Market

LEMMA NoOfferType == NoOffer \in Offer /\ 2 \in 0 .. Word - 1
BY AuctionAssumption DEF NoOffer, Offer

LEMMA NewStockType ==
  ASSUME TypeOK, NEW cs
  PROVE  /\ NewStock(cs) \in [Client -> 0 .. Word - 1]
         /\ FlushAsked(cs) \in [Kind -> [Client -> Offer]]
BY NoOfferType DEF TypeOK, NewStock, FlushAsked

LEMMA LobbyTypes ==
  ASSUME TypeOK, Lobby
  PROVE  TypeOK'
<1>1. CASE BeginRound
  BY <1>1, NewStockType DEF TypeOK, BeginRound, Status
<1>2. ASSUME NEW c \in Client, Connect(c)
      PROVE  TypeOK'
  BY <1>2, NewStockType DEF TypeOK, Connect, Status
<1>3. ASSUME NEW c \in Client, Join(c)
      PROVE  TypeOK'
  BY <1>3 DEF TypeOK, Join, Status, books
<1>4. ASSUME NEW c \in Client, Leave(c)
      PROVE  TypeOK'
  <2>1. status' \in [Client -> Status]
    BY <1>4 DEF TypeOK, Leave, EndRound, Status
  <2>2. players_count' \in Nat
    BY <1>4 DEF TypeOK, Leave
  <2>3. phase' \in {"lobby", "trade", "raw", "prod", "books"}
    BY <1>4 DEF TypeOK, Leave
  <2> QED
    BY <1>4, <2>1, <2>2, <2>3, NewStockType DEF TypeOK, Leave
<1> QED
  BY <1>1, <1>2, <1>3, <1>4 DEF Lobby

LEMMA RequestTypes ==
  ASSUME TypeOK, NEW kind \in Kind, NEW c \in Client, NEW count \in 0 .. Word - 1,
         NEW cost \in Nat, Request(kind, c, count, cost)
  PROVE  TypeOK'
<1> DEFINE o == IF count = 0 THEN NoOffer ELSE [count |-> count, cost |-> cost]
<1>1. o \in Offer
  BY NoOfferType DEF Offer
<1>2. asked' = [asked EXCEPT ![kind][c] = o]
  BY DEF Request
<1> HIDE DEF o
<1>3. asked' \in [Kind -> [Client -> Offer]]
  BY <1>1, <1>2 DEF TypeOK
<1>4. DOMAIN book' = Kind
  BY DEF TypeOK, Request
<1> QED
  BY <1>3, <1>4 DEF TypeOK, Request

LEMMA CloseMonthTypes ==
  ASSUME TypeInv, CloseMonth
  PROVE  TypeOK'
<1>1. left' \in [Kind -> Nat]
  BY MarketType DEF TypeInv, CloseMonth
<1>2. \A kind \in Kind : book[kind] \in Seq(Group)
  BY DEF TypeInv, BookInv
<1>3. [kind \in Kind |-> [c \in Client |-> OfferOf(book[kind], c)]]
        \in [Kind -> [Client -> Offer]]
  BY <1>2, OfferType
<1>4. [kind \in Kind |-> Nothing] \in [Kind -> [Client -> Nat]]
  BY DEF Nothing
<1>5. deal' \in [market : [Kind -> Nat], offered : [Kind -> [Client -> Offer]],
                traded : [Kind -> [Client -> Nat]]]
  BY <1>1, <1>3, <1>4 DEF CloseMonth
<1> QED
  BY <1>1, <1>5 DEF TypeInv, TypeOK, CloseMonth

LEMMA ServeTypes ==
  ASSUME TypeInv, NEW kind \in Kind, Serve(kind)
  PROVE  TypeOK'
<1>1. PICK p \in Servable(book[kind]) :
        LET r == book[kind][1].reqs[p]
            n == Granted(kind, r.count)
        IN  /\ book' = [book EXCEPT ![kind] = DropRequest(@, 1, p)]
            /\ left' = [left EXCEPT ![kind] = @ - n]
            /\ stock' = IF kind = "prod"
                        THEN [stock EXCEPT ![r.client] = (@ - n) % Word] ELSE stock
            /\ deal' = [deal EXCEPT !.traded[kind][r.client] = @ + n]
  BY DEF Serve
<1> DEFINE r == book[kind][1].reqs[p]
           n == Granted(kind, r.count)
<1>2. r \in Req
  BY BookTidy, ServableTidy DEF TypeInv, Serve
<1> HIDE DEF r
<1>3. r.client \in Client /\ r.count \in Nat /\ left[kind] \in Nat
  BY <1>2 DEF Req, TypeInv, TypeOK
<1>4. n \in Nat /\ n <= left[kind]
  BY <1>3 DEF Granted
<1> HIDE DEF n
<1>5. left' \in [Kind -> Nat]
  <2>1. left' = [left EXCEPT ![kind] = @ - n]
    BY <1>1 DEF r, n
  <2>2. left[kind] - n \in Nat
    BY <1>3, <1>4
  <2> QED
    BY <2>1, <2>2 DEF TypeInv, TypeOK
<1>6. stock' \in [Client -> 0 .. Word - 1]
  <2>1. stock' = IF kind = "prod"
                 THEN [stock EXCEPT ![r.client] = (@ - n) % Word] ELSE stock
    BY <1>1 DEF r, n
  <2>2. (stock[r.client] - n) % Word \in 0 .. Word - 1
    BY <1>3, <1>4, AuctionAssumption DEF TypeInv, TypeOK
  <2> QED
    BY <2>1, <2>2 DEF TypeInv, TypeOK
<1>7. deal' \in [market : [Kind -> Nat], offered : [Kind -> [Client -> Offer]],
                traded : [Kind -> [Client -> Nat]]]
  <2>1. deal' = [deal EXCEPT !.traded[kind][r.client] = @ + n]
    BY <1>1 DEF r, n
  <2>2. deal.traded[kind][r.client] + n \in Nat
    BY <1>3, <1>4 DEF TypeInv, TypeOK
  <2> QED
    BY <1>3, <2>1, <2>2 DEF TypeInv, TypeOK
<1>8. DOMAIN book' = Kind
  BY <1>1 DEF TypeInv, TypeOK
<1> QED
  BY <1>5, <1>6, <1>7, <1>8 DEF TypeInv, TypeOK, Serve

LEMMA EndMonthTypes ==
  ASSUME TypeOK, NEW made \in [Players -> Production], NEW bankrupt \in SUBSET Players,
         EndMonth(made, bankrupt)
  PROVE  TypeOK'
<1>1. stock' \in [Client -> 0 .. Word - 1]
  <2>1. ASSUME NEW c \in Client PROVE stock'[c] \in 0 .. Word - 1
    <3>1. CASE c \in Players
      <4>1. made[c] \in Nat /\ stock[c] \in 0 .. Word - 1
        BY <3>1, AuctionAssumption DEF TypeOK
      <4>2. stock'[c] = stock[c] + made[c] /\ stock'[c] <= MaxStock
        BY <3>1 DEF EndMonth
      <4> QED
        BY <4>1, <4>2, AuctionAssumption
    <3>2. CASE c \notin Players
      <4>1. stock[c] \in 0 .. Word - 1
        BY DEF TypeOK
      <4>2. stock'[c] = stock[c] + 0
        BY <3>2 DEF EndMonth
      <4> QED
        BY <4>1, <4>2, AuctionAssumption
    <3> QED
      BY <3>1, <3>2
  <2> QED
    BY <2>1 DEF EndMonth
<1>2. asked' \in [Kind -> [Client -> Offer]]
  BY NewStockType DEF EndMonth
<1>3. level' \in 0 .. 4
  BY DEF TypeOK, EndMonth, NextLevels
<1>4. players_count' \in Nat
  <2>1. Cardinality(bankrupt) \in Nat
    BY AuctionAssumption, FS_Subset, FS_CardinalityType DEF Players
  <2> QED
    BY <2>1 DEF TypeOK, EndMonth
<1>5. status' \in [Client -> Status]
  BY DEF TypeOK, EndMonth, EndRound, Status
<1>6. left' \in [Kind -> Nat]
  BY DEF EndMonth, NotCounting
<1>7. deal' \in [market : [Kind -> Nat], offered : [Kind -> [Client -> Offer]],
                traded : [Kind -> [Client -> Nat]]]
  BY NoOfferType DEF EndMonth, NoDeal, NotCounting, NoOffers, Nothing
<1> QED
  BY <1>1, <1>2, <1>3, <1>4, <1>5, <1>6, <1>7 DEF TypeOK, EndMonth

LEMMA TypeStep == TypeInv /\ [Next]_vars => TypeOK'
<1> SUFFICES ASSUME TypeInv, [Next]_vars
             PROVE  TypeOK'
  OBVIOUS
<1>1. TypeOK
  BY DEF TypeInv
<1>2. CASE UNCHANGED vars
  BY <1>1, <1>2 DEF vars, TypeOK
<1>3. CASE Lobby
  BY <1>1, <1>3, LobbyTypes
<1>4. CASE Command
  <2>1. "raw" \in Kind /\ "prod" \in Kind
    BY DEF Kind
  <2> QED
    BY <1>1, <1>4, <2>1, RequestTypes, AuctionAssumption DEF Command, Buy, Sell
<1>5. CASE CloseMonth
  BY <1>5, CloseMonthTypes
<1>6. ASSUME NEW kind \in Kind, Serve(kind)
      PROVE  TypeOK'
  BY <1>6, ServeTypes
<1>7. ASSUME NEW kind \in Kind, EndAuction(kind)
      PROVE  TypeOK'
  BY <1>1, <1>7 DEF TypeOK, EndAuction
<1>8. ASSUME NEW made \in [Players -> Production], NEW bankrupt \in SUBSET Players,
             EndMonth(made, bankrupt)
      PROVE  TypeOK'
  BY <1>1, <1>8, EndMonthTypes
<1> QED
  BY <1>2, <1>3, <1>4, <1>5, <1>6, <1>7, <1>8 DEF Next, NextStep

LEMMA TypeInit == Init => TypeOK
<1> SUFFICES ASSUME Init PROVE TypeOK
  OBVIOUS
<1>1. /\ asked \in [Kind -> [Client -> Offer]]
      /\ stock \in [Client -> 0 .. Word - 1]
  BY NoOfferType DEF Init, NoOffers
<1>2. left \in [Kind -> Nat]
  BY DEF Init, NotCounting
<1>3. deal \in [market : [Kind -> Nat], offered : [Kind -> [Client -> Offer]],
               traded : [Kind -> [Client -> Nat]]]
  BY NoOfferType DEF Init, NoDeal, NotCounting, NoOffers, Nothing
<1> QED
  BY <1>1, <1>2, <1>3 DEF Init, TypeOK, Status

\* Every field of the auctions keeps its type; in particular the market never
\* sells or buys more than its limit, which would make market_count negative.
THEOREM AuctionTypes == Spec => []TypeOK
<1>1. Init => TypeInv
  BY TypeInit, BookInit DEF TypeInv
<1>2. TypeInv /\ [Next]_vars => TypeInv'
  BY TypeStep, BookStep DEF TypeInv
<1>3. TypeInv => TypeOK
  BY DEF TypeInv
<1> QED
  BY <1>1, <1>2, <1>3, PTL DEF Spec

-----------------------------------------------------------------------------
(* What a list holds.  A place is a pair of a group and a request of it,   *)
(* and a bid what is asked for there.                                      *)

Places(groups) == UNION {{i} \X DOMAIN groups[i].reqs : i \in DOMAIN groups}

BidAt(groups, p) ==
  [client |-> groups[p[1]].reqs[p[2]].client,
   count |-> groups[p[1]].reqs[p[2]].count,
   cost |-> groups[p[1]].cost]

Bids(groups) == {BidAt(groups, p) : p \in Places(groups)}

\* No client has two requests in the list.
Single(groups) ==
  \A p, q \in Places(groups) :
    BidAt(groups, p).client = BidAt(groups, q).client => p = q

Bid == [client : Client, count : 0 .. Word - 1, cost : Nat]

LEMMA PlaceIn ==
  ASSUME NEW groups, NEW p \in Places(groups)
  PROVE  /\ p = <<p[1], p[2]>>
         /\ p[1] \in DOMAIN groups /\ p[2] \in DOMAIN groups[p[1]].reqs
BY DEF Places

LEMMA InPlace ==
  ASSUME NEW groups, NEW i \in DOMAIN groups, NEW j \in DOMAIN groups[i].reqs
  PROVE  /\ <<i, j>> \in Places(groups)
         /\ BidAt(groups, <<i, j>>) =
              [client |-> groups[i].reqs[j].client, count |-> groups[i].reqs[j].count,
               cost |-> groups[i].cost]
BY DEF Places, BidAt

\* A group that is elsewhere in another list.
LEMMA SameGroup ==
  ASSUME NEW groups, NEW t, NEW p \in Places(groups),
         NEW k \in DOMAIN t, t[k] = groups[p[1]]
  PROVE  /\ <<k, p[2]>> \in Places(t)
         /\ BidAt(t, <<k, p[2]>>) = BidAt(groups, p)
<1>1. p[2] \in DOMAIN t[k].reqs
  BY PlaceIn
<1>2. BidAt(groups, p) = [client |-> t[k].reqs[p[2]].client,
                          count |-> t[k].reqs[p[2]].count, cost |-> t[k].cost]
  BY DEF BidAt
<1> QED
  BY <1>1, <1>2, InPlace

LEMMA BidType ==
  ASSUME NEW groups \in Seq(Group)
  PROVE  Bids(groups) \subseteq Bid
<1> SUFFICES ASSUME NEW p \in Places(groups) PROVE BidAt(groups, p) \in Bid
  BY DEF Bids
<1>1. p[1] \in DOMAIN groups /\ p[2] \in DOMAIN groups[p[1]].reqs
  BY PlaceIn
<1>2. groups[p[1]].cost \in Nat /\ groups[p[1]].reqs \in Seq(Req)
  BY <1>1, CostOf
<1>3. groups[p[1]].reqs[p[2]] \in Req
  BY <1>1, <1>2, ElementOfSeq, LenProperties
<1> QED
  BY <1>2, <1>3 DEF BidAt, Bid, Req

\* What "status" reads of a list: the only bid of the client, or none.
LEMMA OfferOfBid ==
  ASSUME NEW groups, Single(groups), NEW c
  PROVE  /\ (\A b \in Bids(groups) : b.client # c) => OfferOf(groups, c) = NoOffer
         /\ \A b \in Bids(groups) :
              b.client = c => OfferOf(groups, c) = [count |-> b.count, cost |-> b.cost]
<1>1. PlacesOf(groups, c) = {p \in Places(groups) : BidAt(groups, p).client = c}
  BY DEF PlacesOf, Places, BidAt
<1>2. CASE PlacesOf(groups, c) = {}
  BY <1>1, <1>2 DEF OfferOf, Bids
<1>3. CASE PlacesOf(groups, c) # {}
  <2> DEFINE p == CHOOSE p \in PlacesOf(groups, c) : TRUE
  <2>1. p \in PlacesOf(groups, c)
    BY <1>3
  <2>2. OfferOf(groups, c) = [count |-> BidAt(groups, p).count, cost |-> BidAt(groups, p).cost]
    BY <1>3 DEF OfferOf, BidAt
  <2> HIDE DEF p
  <2>3. p \in Places(groups) /\ BidAt(groups, p).client = c
    BY <1>1, <2>1
  <2>4. BidAt(groups, p) \in Bids(groups)
    BY <2>3 DEF Bids
  <2>5. ASSUME NEW b \in Bids(groups), b.client = c PROVE b = BidAt(groups, p)
    <3>1. PICK q \in Places(groups) : b = BidAt(groups, q)
      BY DEF Bids
    <3>2. q = p
      BY <2>3, <2>5, <3>1 DEF Single
    <3> QED
      BY <3>1, <3>2
  <2> QED
    BY <2>2, <2>3, <2>4, <2>5
<1> QED
  BY <1>2, <1>3

LEMMA OnePlace ==
  ASSUME NEW groups, Single(groups), NEW c
  PROVE  Cardinality(PlacesOf(groups, c)) <= 1
<1>1. PlacesOf(groups, c) = {p \in Places(groups) : BidAt(groups, p).client = c}
  BY DEF PlacesOf, Places, BidAt
<1>2. CASE PlacesOf(groups, c) = {}
  BY <1>2, FS_EmptySet
<1>3. CASE PlacesOf(groups, c) # {}
  <2>1. PICK p : p \in PlacesOf(groups, c)
    BY <1>3
  <2>2. PlacesOf(groups, c) = {p}
    BY <1>1, <2>1 DEF Single
  <2>3. Cardinality({p}) = 1
    BY FS_Singleton
  <2> QED
    BY <2>2, <2>3
<1> QED
  BY <1>2, <1>3

LEMMA NothingListed == Places(<<>>) = {} /\ Bids(<<>>) = {} /\ Single(<<>>)
<1>1. Places(<<>>) = {}
  BY DEF Places
<1> QED
  BY <1>1 DEF Bids, Single

\* The requests of P are in t, those of p at the place f[p].
Carries(groups, P, t, f) ==
  /\ f \in [P -> Places(t)]
  /\ \A p \in P : BidAt(t, f[p]) = BidAt(groups, p)

\* ... and nothing else is.
Moves(groups, P, t, f) ==
  Carries(groups, P, t, f) /\ \A u \in Places(t) : \E p \in P : u = f[p]

\* A request comes: whatever was listed still is, at a place of its own.
LEMMA AddCarries ==
  ASSUME NEW kind \in Kind, NEW groups, Tidy(kind, groups), NEW cost \in Nat,
         NEW req \in Req, NEW t, t = AddRequest(kind, groups, cost, req)
  PROVE  \E f : \E q \in Places(t) :
           /\ BidAt(t, q) = [client |-> req.client, count |-> req.count, cost |-> cost]
           /\ Carries(groups, Places(groups), t, f)
           /\ \A u \in Places(t) : u = q \/ \E p \in Places(groups) : u = f[p]
<1> DEFINE i == SearchGroup(kind, groups, cost)
           group == [cost |-> cost, reqs |-> <<req>>]
           n == Len(groups)
           new == [client |-> req.client, count |-> req.count, cost |-> cost]
<1>1. groups \in Seq(Group) /\ DOMAIN groups = 1 .. n /\ n \in Nat
  BY LenProperties DEF Tidy
<1>2. group \in Group /\ group.reqs = <<req>> /\ group.cost = cost
      /\ DOMAIN group.reqs = {1} /\ group.reqs[1] = req
  BY DEF Group
<1>3. i \in {0} \cup 1 .. n
  BY <1>1, SearchStops
<1>4. t = IF i = 0 THEN Append(groups, group)
          ELSE IF groups[i].cost = cost
               THEN [groups EXCEPT ![i].reqs = <<req>> \o @]
               ELSE InsertAt(groups, i, group)
  BY DEF AddRequest
<1> HIDE DEF i, group, n
<1>5. CASE i = 0
  <2>1. /\ DOMAIN t = 1 .. n + 1 /\ t[n + 1] = group
        /\ \A j \in 1 .. n : t[j] = groups[j]
    <3>1. t = Append(groups, group)
      BY <1>4, <1>5
    <3>2. t \in Seq(Group)
      BY <1>1, <1>2, <3>1, AppendProperties
    <3> QED
      BY <1>1, <1>2, <3>1, <3>2, AppendProperties, LenProperties DEF n
  <2> DEFINE f == [p \in Places(groups) |-> p]
             q == <<n + 1, 1>>
  <2>2. q \in Places(t) /\ BidAt(t, q) = new
    <3>1. n + 1 \in DOMAIN t /\ 1 \in DOMAIN t[n + 1].reqs
      BY <1>1, <1>2, <2>1
    <3> QED
      BY <1>2, <2>1, <3>1, InPlace
  <2>3. ASSUME NEW p \in Places(groups)
        PROVE  p \in Places(t) /\ BidAt(t, p) = BidAt(groups, p)
    <3>1. p = <<p[1], p[2]>> /\ p[1] \in DOMAIN t /\ t[p[1]] = groups[p[1]]
      BY <1>1, <2>1, PlaceIn
    <3> QED
      BY <3>1, SameGroup
  <2>4. ASSUME NEW p \in Places(t), p # q PROVE p \in Places(groups)
    <3>1. p = <<p[1], p[2]>> /\ p[1] \in 1 .. n + 1 /\ p[2] \in DOMAIN t[p[1]].reqs
      BY <2>1, PlaceIn
    <3>2. p[1] \in DOMAIN groups /\ groups[p[1]] = t[p[1]]
      BY <1>1, <1>2, <2>1, <2>4, <3>1
    <3> QED
      BY <3>1, <3>2, SameGroup
  <2>5. Carries(groups, Places(groups), t, f)
    BY <2>3 DEF Carries
  <2>6. \A u \in Places(t) : u = q \/ \E p \in Places(groups) : u = f[p]
    BY <2>4
  <2> HIDE DEF f, q
  <2> QED
    BY <2>2, <2>5, <2>6
<1>6. CASE i # 0 /\ groups[i].cost = cost
  <2> DEFINE r == <<req>> \o groups[i].reqs
             m == Len(groups[i].reqs)
  <2>1. i \in 1 .. n /\ groups[i] \in Group /\ groups[i].reqs \in Seq(Req)
    BY <1>1, <1>3, <1>6, CostOf
  <2>2. /\ m \in Nat /\ DOMAIN groups[i].reqs = 1 .. m
        /\ DOMAIN r = 1 .. m + 1 /\ r[1] = req
        /\ \A j \in 1 .. m : r[j + 1] = groups[i].reqs[j]
    BY <2>1, PrependShape
  <2>3. t = [groups EXCEPT ![i].reqs = r]
    BY <1>4, <1>6
  <2> HIDE DEF r, m
  <2>4. /\ DOMAIN t = 1 .. n
        /\ t[i].cost = cost /\ t[i].reqs = r
        /\ \A j \in 1 .. n : j # i => t[j] = groups[j]
    BY <1>1, <1>6, <2>1, <2>3 DEF Group
  <2> DEFINE f == [p \in Places(groups) |-> <<p[1], IF p[1] = i THEN p[2] + 1 ELSE p[2]>>]
             q == <<i, 1>>
  <2>5. q \in Places(t) /\ BidAt(t, q) = new
    <3>1. i \in DOMAIN t /\ 1 \in DOMAIN t[i].reqs
      BY <2>1, <2>2, <2>4
    <3>2. q \in Places(t)
          /\ BidAt(t, q) = [client |-> t[i].reqs[1].client, count |-> t[i].reqs[1].count,
                            cost |-> t[i].cost]
      BY <3>1, InPlace
    <3> QED
      BY <2>2, <2>4, <3>2
  <2>6. ASSUME NEW p \in Places(groups)
        PROVE  f[p] \in Places(t) /\ BidAt(t, f[p]) = BidAt(groups, p)
    <3>1. p[1] \in 1 .. n /\ p[2] \in DOMAIN groups[p[1]].reqs
      BY <1>1, PlaceIn
    <3>2. CASE p[1] = i
      <4>1. p[2] \in 1 .. m /\ p[2] + 1 \in 1 .. m + 1 /\ f[p] = <<i, p[2] + 1>>
        BY <2>2, <3>1, <3>2
      <4>2. i \in DOMAIN t /\ p[2] + 1 \in DOMAIN t[i].reqs
            /\ t[i].reqs[p[2] + 1] = groups[i].reqs[p[2]]
        BY <2>1, <2>2, <2>4, <4>1
      <4> QED
        BY <1>6, <2>4, <3>2, <4>1, <4>2, InPlace DEF BidAt
    <3>3. CASE p[1] # i
      <4>1. f[p] = <<p[1], p[2]>> /\ p[1] \in DOMAIN t /\ t[p[1]] = groups[p[1]]
        BY <2>4, <3>1, <3>3
      <4> QED
        BY <4>1, SameGroup
    <3> QED
      BY <3>2, <3>3
  <2>7. ASSUME NEW p \in Places(t), p # q PROVE \E o \in Places(groups) : p = f[o]
    <3>1. p = <<p[1], p[2]>> /\ p[1] \in 1 .. n /\ p[2] \in DOMAIN t[p[1]].reqs
      BY <2>4, PlaceIn
    <3>2. CASE p[1] = i
      <4>1. p[2] - 1 \in 1 .. m /\ (p[2] - 1) + 1 = p[2]
        BY <2>2, <2>4, <2>7, <3>1, <3>2
      <4>2. <<i, p[2] - 1>> \in Places(groups)
        BY <1>1, <2>1, <2>2, <4>1, InPlace
      <4>3. f[<<i, p[2] - 1>>] = p
        BY <3>1, <3>2, <4>1, <4>2
      <4> QED
        BY <4>2, <4>3
    <3>3. CASE p[1] # i
      <4>1. p \in Places(groups)
        <5>1. p[1] \in DOMAIN groups /\ groups[p[1]] = t[p[1]]
          BY <1>1, <2>4, <3>1, <3>3
        <5> QED
          BY <3>1, <5>1, SameGroup
      <4>2. f[p] = <<p[1], p[2]>>
        BY <3>3, <4>1
      <4> QED
        BY <3>1, <4>1, <4>2
    <3> QED
      BY <3>2, <3>3
  <2>8. Carries(groups, Places(groups), t, f)
    <3>1. f \in [Places(groups) -> Places(t)]
      BY <2>6
    <3> HIDE DEF f, q
    <3> QED
      BY <2>6, <3>1 DEF Carries
  <2> HIDE DEF f, q
  <2> QED
    BY <2>5, <2>7, <2>8
<1>7. CASE i # 0 /\ groups[i].cost # cost
  <2>1. t = InsertAt(groups, i, group) /\ i \in 1 .. n
    BY <1>3, <1>4, <1>7
  <2>2. /\ DOMAIN t = 1 .. n + 1 /\ t[i] = group
        /\ \A j \in 1 .. i - 1 : t[j] = groups[j]
        /\ \A j \in i .. n : t[j + 1] = groups[j]
    <3>1. i \in DOMAIN groups /\ groups \in Seq(Group) /\ group \in Group
      BY <1>1, <1>2, <2>1
    <3> HIDE DEF Group
    <3>2. LET u == InsertAt(groups, i, group)
              m == Len(groups)
          IN  /\ u \in Seq(Group) /\ m \in Nat /\ i \in 1 .. m
              /\ DOMAIN groups = 1 .. m /\ DOMAIN u = 1 .. m + 1
              /\ u[i] = group
              /\ \A j \in 1 .. i - 1 : u[j] = groups[j]
              /\ \A j \in i .. m : u[j + 1] = groups[j]
      BY ONLY <3>1, InsertAtShape
    <3> QED
      BY <2>1, <3>2 DEF n
  <2> DEFINE f == [p \in Places(groups) |-> <<IF p[1] >= i THEN p[1] + 1 ELSE p[1], p[2]>>]
             q == <<i, 1>>
  <2>3. q \in Places(t) /\ BidAt(t, q) = new
    <3>1. i \in DOMAIN t /\ 1 \in DOMAIN t[i].reqs
      BY <1>1, <1>2, <2>1, <2>2
    <3>2. q \in Places(t)
          /\ BidAt(t, q) = [client |-> t[i].reqs[1].client, count |-> t[i].reqs[1].count,
                            cost |-> t[i].cost]
      BY <3>1, InPlace
    <3> QED
      BY <1>2, <2>2, <3>2
  <2>4. ASSUME NEW p \in Places(groups)
        PROVE  f[p] \in Places(t) /\ BidAt(t, f[p]) = BidAt(groups, p)
    <3>1. PICK k \in DOMAIN t : f[p] = <<k, p[2]>> /\ t[k] = groups[p[1]]
      <4>1. p[1] \in 1 .. n
        BY <1>1, PlaceIn
      <4>2. CASE p[1] >= i
        BY <1>1, <2>1, <2>2, <4>1, <4>2
      <4>3. CASE ~(p[1] >= i)
        BY <1>1, <2>1, <2>2, <4>1, <4>3
      <4> QED
        BY <4>2, <4>3
    <3> QED
      BY <3>1, SameGroup
  <2>5. ASSUME NEW p \in Places(t), p # q PROVE \E o \in Places(groups) : p = f[o]
    <3>1. p = <<p[1], p[2]>> /\ p[1] \in 1 .. n + 1 /\ p[2] \in DOMAIN t[p[1]].reqs
      BY <2>2, PlaceIn
    <3>2. p[1] # i
      BY <1>2, <2>2, <2>5, <3>1
    <3>3. PICK k \in 1 .. n :
            groups[k] = t[p[1]] /\ p[1] = IF k >= i THEN k + 1 ELSE k
      <4>1. CASE p[1] > i
        <5>1. p[1] - 1 \in i .. n /\ (p[1] - 1) + 1 = p[1] /\ p[1] - 1 \in 1 .. n
          BY <1>1, <2>1, <3>1, <4>1
        <5> QED
          BY <2>1, <2>2, <5>1
      <4>2. CASE p[1] < i
        <5>1. p[1] \in 1 .. i - 1 /\ p[1] \in 1 .. n
          BY <1>1, <2>1, <3>1, <4>2
        <5> QED
          BY <2>1, <2>2, <4>2, <5>1
      <4> QED
        BY <2>1, <3>1, <3>2, <4>1, <4>2
    <3>4. <<k, p[2]>> \in Places(groups)
      BY <1>1, <3>3, SameGroup
    <3>5. f[<<k, p[2]>>] = p
      BY <3>1, <3>3, <3>4
    <3> QED
      BY <3>4, <3>5
  <2>6. Carries(groups, Places(groups), t, f)
    <3>1. f \in [Places(groups) -> Places(t)]
      BY <2>4
    <3> HIDE DEF f, q
    <3> QED
      BY <2>4, <3>1 DEF Carries
  <2> HIDE DEF f, q
  <2> QED
    BY <2>3, <2>5, <2>6
<1> QED
  BY <1>3, <1>5, <1>6, <1>7

\* A request goes: whatever else was listed still is.
LEMMA DropCarries ==
  ASSUME NEW groups \in Seq(Group), NEW i \in DOMAIN groups,
         NEW j \in DOMAIN groups[i].reqs, NEW t, t = DropRequest(groups, i, j),
         NEW o, o = <<i, j>>, NEW P, P = Places(groups) \ {o}
  PROVE  \E f : Moves(groups, P, t, f)
<1> DEFINE n == Len(groups)
           reqs == groups[i].reqs
           m == Len(reqs)
<1>1. DOMAIN groups = 1 .. n /\ n \in Nat /\ i \in 1 .. n
  BY LenProperties
<1>2. groups[i] \in Group /\ reqs \in Seq(Req)
  BY CostOf
<1>3. DOMAIN reqs = 1 .. m /\ m \in Nat /\ j \in 1 .. m
  BY <1>2, LenProperties
<1>4. t = IF m = 1 THEN RemoveAt(groups, i)
          ELSE [groups EXCEPT ![i].reqs = RemoveAt(@, j)]
  BY DEF DropRequest
<1>5. \A p \in P : /\ p \in Places(groups) /\ p = <<p[1], p[2]>>
                    /\ p[1] \in 1 .. n /\ p[2] \in DOMAIN groups[p[1]].reqs
  BY <1>1, PlaceIn
<1> HIDE DEF n, m
<1>6. CASE m = 1
  <2>1. /\ DOMAIN t = 1 .. n - 1
        /\ \A k \in 1 .. i - 1 : t[k] = groups[k]
        /\ \A k \in i .. n - 1 : t[k] = groups[k + 1]
    BY SMTT(30), <1>1, <1>4, <1>6, RemoveAtShape DEF n
  <2> DEFINE f == [p \in P |-> <<IF p[1] > i THEN p[1] - 1 ELSE p[1], p[2]>>]
  <2>2. ASSUME NEW p \in P
        PROVE  f[p] \in Places(t) /\ BidAt(t, f[p]) = BidAt(groups, p)
    <3>1. p[1] # i
      <4>1. p[1] = i => p[2] = j
        BY <1>3, <1>5, <1>6
      <4> QED
        BY <1>5, <4>1
    <3>2. PICK k \in DOMAIN t : f[p] = <<k, p[2]>> /\ t[k] = groups[p[1]]
      <4>1. CASE p[1] > i
        <5>1. p[1] - 1 \in i .. n - 1 /\ p[1] - 1 \in 1 .. n - 1 /\ (p[1] - 1) + 1 = p[1]
          BY <1>1, <1>5, <4>1
        <5> QED
          BY <2>1, <4>1, <5>1
      <4>2. CASE p[1] < i
        <5>1. p[1] \in 1 .. i - 1 /\ p[1] \in 1 .. n - 1 /\ ~(p[1] > i)
          BY <1>1, <1>5, <4>2
        <5> QED
          BY <2>1, <5>1
      <4> QED
        BY <1>1, <1>5, <3>1, <4>1, <4>2
    <3>3. p \in Places(groups)
      BY <1>5
    <3> QED
      BY <3>2, <3>3, SameGroup
  <2>3. ASSUME NEW p \in Places(t) PROVE \E q \in P : p = f[q]
    <3>1. p = <<p[1], p[2]>> /\ p[1] \in 1 .. n - 1 /\ p[2] \in DOMAIN t[p[1]].reqs
      BY <2>1, PlaceIn
    <3>2. PICK k \in 1 .. n :
            groups[k] = t[p[1]] /\ k # i /\ p[1] = IF k > i THEN k - 1 ELSE k
      <4>1. CASE p[1] >= i
        <5>1. p[1] \in i .. n - 1 /\ p[1] + 1 \in 1 .. n /\ (p[1] + 1) - 1 = p[1] /\ p[1] + 1 > i
          BY <1>1, <3>1, <4>1
        <5> QED
          BY <1>1, <2>1, <5>1
      <4>2. CASE p[1] < i
        <5>1. p[1] \in 1 .. i - 1 /\ p[1] \in 1 .. n /\ ~(p[1] > i)
          BY <1>1, <3>1, <4>2
        <5> QED
          BY <2>1, <4>2, <5>1
      <4> QED
        BY <1>1, <3>1, <4>1, <4>2
    <3>3. <<k, p[2]>> \in Places(groups)
      BY <1>1, <3>2, SameGroup
    <3>4. <<k, p[2]>> \in P
      BY <3>2, <3>3
    <3>5. f[<<k, p[2]>>] = p
      BY <3>1, <3>2, <3>4
    <3> QED
      BY <3>4, <3>5
  <2>4. Carries(groups, P, t, f)
    <3>1. f \in [P -> Places(t)]
      BY <2>2
    <3> HIDE DEF f
    <3> QED
      BY <2>2, <3>1 DEF Carries
  <2> HIDE DEF f
  <2> QED
    BY <2>3, <2>4 DEF Moves
<1>7. CASE m # 1
  <2> DEFINE r == RemoveAt(reqs, j)
  <2>1. /\ DOMAIN r = 1 .. m - 1
        /\ \A k \in 1 .. j - 1 : r[k] = reqs[k]
        /\ \A k \in j .. m - 1 : r[k] = reqs[k + 1]
    BY <1>2, <1>3, RemoveAtShape DEF m
  <2>2. t = [groups EXCEPT ![i].reqs = r]
    BY <1>4, <1>7
  <2> HIDE DEF r
  <2>3. /\ DOMAIN t = 1 .. n
        /\ t[i].cost = groups[i].cost /\ t[i].reqs = r
        /\ \A k \in 1 .. n : k # i => t[k] = groups[k]
    BY <1>1, <1>2, <2>2 DEF Group
  <2> DEFINE f == [p \in P |->
                    <<p[1], IF p[1] = i /\ p[2] > j THEN p[2] - 1 ELSE p[2]>>]
  <2>4. ASSUME NEW p \in P
        PROVE  f[p] \in Places(t) /\ BidAt(t, f[p]) = BidAt(groups, p)
    <3>1. CASE p[1] = i
      <4>1. p[2] \in 1 .. m /\ p[2] # j
        BY <1>3, <1>5, <3>1
      <4>2. PICK k \in 1 .. m - 1 : f[p] = <<i, k>> /\ r[k] = reqs[p[2]]
        <5>1. CASE p[2] > j
          <6>1. p[2] - 1 \in j .. m - 1 /\ p[2] - 1 \in 1 .. m - 1 /\ (p[2] - 1) + 1 = p[2]
            BY <1>3, <4>1, <5>1
          <6> QED
            BY <2>1, <3>1, <5>1, <6>1
        <5>2. CASE p[2] < j
          <6>1. p[2] \in 1 .. j - 1 /\ p[2] \in 1 .. m - 1 /\ ~(p[2] > j)
            BY <1>3, <4>1, <5>2
          <6> QED
            BY <2>1, <3>1, <6>1
        <5> QED
          BY <1>3, <4>1, <5>1, <5>2
      <4>3. i \in DOMAIN t /\ k \in DOMAIN t[i].reqs
        BY <1>1, <2>1, <2>3, <4>2
      <4>4. <<i, k>> \in Places(t)
            /\ BidAt(t, <<i, k>>) = [client |-> t[i].reqs[k].client, count |-> t[i].reqs[k].count,
                                     cost |-> t[i].cost]
        BY <4>3, InPlace
      <4> QED
        BY <2>3, <3>1, <4>2, <4>4 DEF BidAt
    <3>2. CASE p[1] # i
      <4>1. f[p] = <<p[1], p[2]>> /\ p[1] \in DOMAIN t /\ t[p[1]] = groups[p[1]]
        BY <1>5, <2>3, <3>2
      <4>2. p \in Places(groups)
        BY <1>5
      <4> QED
        BY <4>1, <4>2, SameGroup
    <3> QED
      BY <3>1, <3>2
  <2>5. ASSUME NEW p \in Places(t) PROVE \E q \in P : p = f[q]
    <3>1. p = <<p[1], p[2]>> /\ p[1] \in 1 .. n /\ p[2] \in DOMAIN t[p[1]].reqs
      BY <2>3, PlaceIn
    <3>2. CASE p[1] = i
      <4>1. p[2] \in 1 .. m - 1
        BY <2>1, <2>3, <3>1, <3>2
      <4>2. PICK k \in 1 .. m : k # j /\ p[2] = IF k > j THEN k - 1 ELSE k
        <5>1. CASE p[2] >= j
          <6>1. p[2] + 1 \in 1 .. m /\ p[2] + 1 > j /\ (p[2] + 1) - 1 = p[2] /\ p[2] + 1 # j
            BY <1>3, <4>1, <5>1
          <6> QED
            BY <6>1
        <5>2. CASE p[2] < j
          <6>1. p[2] \in 1 .. m /\ ~(p[2] > j) /\ p[2] # j
            BY <1>3, <4>1, <5>2
          <6> QED
            BY <6>1
        <5>3. p[2] >= j \/ p[2] < j
          BY <1>3, <4>1
        <5> QED
          BY <5>1, <5>2, <5>3
      <4>3. <<i, k>> \in Places(groups)
        BY <1>1, <1>3, <4>2, InPlace
      <4>4. <<i, k>> \in P
        BY <4>2, <4>3
      <4>5. f[<<i, k>>] = p
        BY <3>1, <3>2, <4>2, <4>4
      <4> QED
        BY <4>4, <4>5
    <3>3. CASE p[1] # i
      <4>1. p \in Places(groups)
        <5>1. p[1] \in DOMAIN groups /\ groups[p[1]] = t[p[1]]
          BY <1>1, <2>3, <3>1, <3>3
        <5> QED
          BY <3>1, <5>1, SameGroup
      <4>2. p \in P
        BY <3>3, <4>1
      <4>3. f[p] = <<p[1], p[2]>>
        BY <3>3, <4>2
      <4> QED
        BY <3>1, <4>2, <4>3
    <3> QED
      BY <3>2, <3>3
  <2>6. Carries(groups, P, t, f)
    <3>1. f \in [P -> Places(t)]
      BY <2>4
    <3> HIDE DEF f
    <3> QED
      BY <2>4, <3>1 DEF Carries
  <2> HIDE DEF f
  <2> QED
    BY <2>5, <2>6 DEF Moves
<1> QED
  BY <1>6, <1>7

-----------------------------------------------------------------------------
(* What the operations do to the bids *)

\* free_request_by_client() takes a request of the client out, if there is one.
LEMMA FreeFinds ==
  ASSUME NEW kind \in Kind, NEW groups, Tidy(kind, groups), NEW c,
         NEW t, t = FreeRequest(groups, c)
  PROVE  \/ /\ t = groups
            /\ \A i \in DOMAIN groups : \A j \in DOMAIN groups[i].reqs :
                 groups[i].reqs[j].client # c
         \/ \E i \in DOMAIN groups : \E j \in DOMAIN groups[i].reqs :
              groups[i].reqs[j].client = c /\ t = DropRequest(groups, i, j)
<1> DEFINE I == {i \in 1 .. Len(groups) :
                   \E j \in DOMAIN groups[i].reqs : groups[i].reqs[j].client = c}
           J(i) == {j \in 1 .. Len(groups[i].reqs) : groups[i].reqs[j].client = c}
           i == IF I # {} THEN Min(I) ELSE 0
           p == IF J(i) # {} THEN Min(J(i)) ELSE 0
<1>1. groups \in Seq(Group) /\ DOMAIN groups = 1 .. Len(groups) /\ Len(groups) \in Nat
  BY LenProperties DEF Tidy
<1>2. t = IF i = 0 THEN groups ELSE DropRequest(groups, i, p)
  BY DEF FreeRequest, SelectInSeq
<1>3. CASE I = {}
  BY <1>1, <1>2, <1>3
<1>4. CASE I # {}
  <2>1. i \in I /\ i # 0
    <3>1. I \in SUBSET Nat
      BY <1>1
    <3>2. i \in I
      BY <1>4, <3>1, FirstPlace
    <3>3. 0 \notin I
      BY <1>1
    <3> QED
      BY <3>2, <3>3
  <2>2. i \in DOMAIN groups
    BY <1>1, <2>1
  <2> HIDE DEF i
  <2>3. groups[i].reqs \in Seq(Req)
    BY <1>1, <2>2, CostOf
  <2>4. DOMAIN groups[i].reqs = 1 .. Len(groups[i].reqs) /\ Len(groups[i].reqs) \in Nat
    BY <2>3, LenProperties
  <2>5. J(i) # {} /\ J(i) \in SUBSET Nat
    BY <2>1, <2>4
  <2>6. p \in J(i)
    BY <2>5, FirstPlace
  <2>7. p \in DOMAIN groups[i].reqs /\ groups[i].reqs[p].client = c
    BY <2>4, <2>6
  <2> HIDE DEF p
  <2> QED
    BY <1>2, <2>1, <2>2, <2>7
<1> QED
  BY <1>3, <1>4

\* get_request() serves a request of the first group, which is there.
LEMMA ServableIn ==
  ASSUME NEW kind \in Kind, NEW groups, Tidy(kind, groups), groups # <<>>,
         NEW p \in Servable(groups)
  PROVE  1 \in DOMAIN groups /\ p \in DOMAIN groups[1].reqs /\ groups[1].reqs[p] \in Req
<1>1. groups \in Seq(Group) /\ 1 \in DOMAIN groups
  BY LenProperties, EmptySeq DEF Tidy
<1>2. groups[1].reqs \in Seq(Req) /\ groups[1].reqs # <<>>
  BY <1>1, CostOf DEF Tidy, Ordered
<1> DEFINE n == Len(groups[1].reqs)
<1>3. n \in Nat /\ n # 0 /\ DOMAIN groups[1].reqs = 1 .. n
  BY <1>2, LenProperties, EmptySeq
<1>4. PICK k \in Draws(n - 1) : p = k + 1
  BY DEF Servable
<1> HIDE DEF n
<1>5. p \in 1 .. n
  BY <1>3, <1>4 DEF Draws
<1>6. p \in DOMAIN groups[1].reqs
  BY <1>3, <1>5
<1>7. groups[1].reqs[p] \in Req
  BY <1>2, <1>6, ElementOfSeq, LenProperties
<1> QED
  BY <1>1, <1>6, <1>7

\* add_buy_raw_request() and add_sell_prod_request(), of a client that has no
\* request in the list
LEMMA AddBids ==
  ASSUME NEW kind \in Kind, NEW groups, Tidy(kind, groups), Single(groups),
         NEW cost \in Nat, NEW req \in Req,
         \A b \in Bids(groups) : b.client # req.client,
         NEW t, t = AddRequest(kind, groups, cost, req)
  PROVE  /\ Single(t)
         /\ Bids(t) = Bids(groups) \cup
                        {[client |-> req.client, count |-> req.count, cost |-> cost]}
<1>0. PICK new : new = [client |-> req.client, count |-> req.count, cost |-> cost]
  OBVIOUS
<1>1. PICK f : \E q \in Places(t) :
        /\ BidAt(t, q) = new
        /\ Carries(groups, Places(groups), t, f)
        /\ \A u \in Places(t) : u = q \/ \E p \in Places(groups) : u = f[p]
  BY <1>0, AddCarries
<1>2. PICK q \in Places(t) :
        /\ BidAt(t, q) = new
        /\ Carries(groups, Places(groups), t, f)
        /\ \A u \in Places(t) : u = q \/ \E p \in Places(groups) : u = f[p]
  BY <1>1
<1>3. \A p \in Places(groups) : f[p] \in Places(t) /\ BidAt(t, f[p]) = BidAt(groups, p)
  BY <1>2 DEF Carries
<1>4. \A p \in Places(groups) : BidAt(groups, p).client # req.client
  BY DEF Bids
<1>5. new.client = req.client
  BY <1>0
<1>6. Single(t)
  <2> SUFFICES ASSUME NEW u \in Places(t), NEW v \in Places(t),
                      BidAt(t, u).client = BidAt(t, v).client
               PROVE  u = v
    BY DEF Single
  <2>1. CASE u = q
    <3>1. ~ \E p \in Places(groups) : v = f[p]
      BY <1>2, <1>3, <1>4, <1>5, <2>1
    <3> QED
      BY <1>2, <2>1, <3>1
  <2>2. CASE v = q
    <3>1. ~ \E p \in Places(groups) : u = f[p]
      BY <1>2, <1>3, <1>4, <1>5, <2>2
    <3> QED
      BY <1>2, <2>2, <3>1
  <2>3. CASE u # q /\ v # q
    <3>1. PICK p \in Places(groups), o \in Places(groups) : u = f[p] /\ v = f[o]
      BY <1>2, <2>3
    <3>2. p = o
      BY <1>3, <3>1 DEF Single
    <3> QED
      BY <3>1, <3>2
  <2> QED
    BY <2>1, <2>2, <2>3
<1>7. Bids(t) = Bids(groups) \cup {new}
  <2>1. ASSUME NEW p \in Places(groups) PROVE BidAt(groups, p) \in Bids(t)
    <3>1. f[p] \in Places(t) /\ BidAt(groups, p) = BidAt(t, f[p])
      BY <1>3
    <3> QED
      BY <3>1 DEF Bids
  <2>2. ASSUME NEW u \in Places(t) PROVE BidAt(t, u) \in Bids(groups) \cup {new}
    BY <1>2, <1>3 DEF Bids
  <2> QED
    BY <1>2, <2>1, <2>2 DEF Bids
<1> QED
  BY <1>0, <1>6, <1>7

\* The tails of free_request_in_group_by_client() and of get_request()
LEMMA DropBids ==
  ASSUME NEW groups \in Seq(Group), Single(groups), NEW i \in DOMAIN groups,
         NEW j \in DOMAIN groups[i].reqs, NEW t, t = DropRequest(groups, i, j)
  PROVE  /\ Single(t)
         /\ Bids(t) = {b \in Bids(groups) : b.client # groups[i].reqs[j].client}
<1>0. PICK o, P : o = <<i, j>> /\ P = Places(groups) \ {o}
  OBVIOUS
<1>1. PICK f : Moves(groups, P, t, f)
  BY <1>0, DropCarries
<1>2. o \in Places(groups) /\ BidAt(groups, o).client = groups[i].reqs[j].client
  BY <1>0, InPlace DEF BidAt
<1>3. /\ \A p \in P : f[p] \in Places(t) /\ BidAt(t, f[p]) = BidAt(groups, p)
      /\ \A u \in Places(t) : \E p \in P : u = f[p]
  BY <1>1 DEF Moves, Carries
<1>4. Single(t)
  <2> SUFFICES ASSUME NEW u \in Places(t), NEW v \in Places(t),
                      BidAt(t, u).client = BidAt(t, v).client
               PROVE  u = v
    BY DEF Single
  <2>1. PICK p \in P, q \in P : u = f[p] /\ v = f[q]
    BY <1>3
  <2>2. p = q
    BY <1>0, <1>3, <2>1 DEF Single
  <2> QED
    BY <2>1, <2>2
<1>5. \A p \in Places(groups) : p \in P <=> BidAt(groups, p).client # groups[i].reqs[j].client
  BY <1>0, <1>2 DEF Single
<1>6. ASSUME NEW u \in Places(t)
      PROVE  BidAt(t, u) \in {b \in Bids(groups) : b.client # groups[i].reqs[j].client}
  BY <1>0, <1>3, <1>5 DEF Bids
<1>7. ASSUME NEW p \in Places(groups), BidAt(groups, p).client # groups[i].reqs[j].client
      PROVE  BidAt(groups, p) \in Bids(t)
  <2>1. f[p] \in Places(t) /\ BidAt(groups, p) = BidAt(t, f[p])
    BY <1>3, <1>5, <1>7
  <2> QED
    BY <2>1 DEF Bids
<1> QED
  BY <1>4, <1>6, <1>7 DEF Bids

\* free_request_by_client()
LEMMA FreeBids ==
  ASSUME NEW kind \in Kind, NEW groups, Tidy(kind, groups), Single(groups), NEW c,
         NEW t, t = FreeRequest(groups, c)
  PROVE  Single(t) /\ Bids(t) = {b \in Bids(groups) : b.client # c}
<1>1. CASE t = groups /\ \A i \in DOMAIN groups : \A j \in DOMAIN groups[i].reqs :
                            groups[i].reqs[j].client # c
  <2>1. \A p \in Places(groups) : BidAt(groups, p).client # c
    BY <1>1, PlaceIn DEF BidAt
  <2> QED
    BY <1>1, <2>1 DEF Bids
<1>2. CASE \E i \in DOMAIN groups : \E j \in DOMAIN groups[i].reqs :
             groups[i].reqs[j].client = c /\ t = DropRequest(groups, i, j)
  <2>1. groups \in Seq(Group)
    BY DEF Tidy
  <2> QED
    BY <1>2, <2>1, DropBids
<1> QED
  BY <1>1, <1>2, FreeFinds

\* get_request(): nobody is ahead of the request that is served.
LEMMA ServeBids ==
  ASSUME NEW kind \in Kind, NEW groups, Tidy(kind, groups), Single(groups), groups # <<>>,
         NEW p \in Servable(groups), NEW t, t = DropRequest(groups, 1, p),
         NEW r, r = groups[1].reqs[p]
  PROVE  /\ [client |-> r.client, count |-> r.count, cost |-> groups[1].cost] \in Bids(groups)
         /\ \A b \in Bids(groups) : ~Ahead(kind, b.cost, groups[1].cost)
         /\ Single(t)
         /\ Bids(t) = {b \in Bids(groups) : b.client # r.client}
<1>1. groups \in Seq(Group) /\ 1 \in DOMAIN groups /\ p \in DOMAIN groups[1].reqs
  BY ServableIn DEF Tidy
<1>2. [client |-> r.client, count |-> r.count, cost |-> groups[1].cost] \in Bids(groups)
  BY <1>1, InPlace DEF Bids
<1>3. \A b \in Bids(groups) : ~Ahead(kind, b.cost, groups[1].cost)
  <2> SUFFICES ASSUME NEW q \in Places(groups)
               PROVE  ~Ahead(kind, BidAt(groups, q).cost, groups[1].cost)
    BY DEF Bids
  <2>1. q[1] \in DOMAIN groups /\ BidAt(groups, q).cost = groups[q[1]].cost
    BY PlaceIn DEF BidAt
  <2>2. groups[q[1]].cost \in Nat /\ groups[1].cost \in Nat
    BY <1>1, <2>1, CostOf
  <2>3. q[1] = 1 \/ Ahead(kind, groups[1].cost, groups[q[1]].cost)
    <3>1. DOMAIN groups = 1 .. Len(groups) /\ Len(groups) \in Nat
      BY <1>1, LenProperties
    <3>2. q[1] = 1 \/ 1 < q[1]
      BY <2>1, <3>1
    <3> QED
      BY <1>1, <2>1, <3>2 DEF Tidy, Ordered
  <2> QED
    BY <2>1, <2>2, <2>3 DEF Ahead
<1> QED
  BY <1>1, <1>2, <1>3, DropBids

-----------------------------------------------------------------------------
(* What the players have asked for, and what they have                     *)

\* No block has two requests in a list, and no request is for nothing.
ListsInv ==
  \A kind \in Kind :
    Single(book[kind]) /\ \A b \in Bids(book[kind]) : b.count > 0

\* The lists hold what the players asked for, until the auctions empty them,
\* and nobody plays between two rounds.
MonthInv ==
  /\ phase = "lobby" => Players = {}
  /\ phase = "trade" =>
       \A kind \in Kind, c \in Players : OfferOf(book[kind], c) = asked[kind][c]
  /\ phase = "raw" => \A c \in Players : OfferOf(book["prod"], c) = asked["prod"][c]
  /\ phase \in {"prod", "books"} => book["raw"] = <<>>
  /\ phase = "books" => book["prod"] = <<>>

\* Every company has the productions it offers, and less than Word.
StockInv == OffersCovered /\ \A c \in Players : stock[c] <= MaxStock

\* A client sees the same of two lists that hold the same bids of it.
LEMMA SameOffer ==
  ASSUME NEW groups, Single(groups), NEW t, Single(t), NEW c,
         \A b : b.client = c => (b \in Bids(groups) <=> b \in Bids(t))
  PROVE  OfferOf(t, c) = OfferOf(groups, c)
<1>1. CASE \A b \in Bids(groups) : b.client # c
  <2>1. \A b \in Bids(t) : b.client # c
    BY <1>1
  <2> QED
    BY <1>1, <2>1, OfferOfBid
<1>2. CASE \E b \in Bids(groups) : b.client = c
  <2>1. PICK b \in Bids(groups) : b.client = c
    BY <1>2
  <2>2. b \in Bids(t)
    BY <2>1
  <2> QED
    BY <2>1, <2>2, OfferOfBid
<1> QED
  BY <1>1, <1>2

\* The common end of do_cmd_buy() and do_cmd_sell(): the client sees what it
\* has asked for, the others what they saw before.
LEMMA RequestLists ==
  ASSUME TypeInv, ListsInv, NEW kind \in Kind, NEW c \in Client,
         OfferOf(book[kind], c) = asked[kind][c],
         NEW count \in 0 .. Word - 1, NEW cost \in Nat, Request(kind, c, count, cost)
  PROVE  /\ Single(book'[kind]) /\ \A b \in Bids(book'[kind]) : b.count > 0
         /\ OfferOf(book'[kind], c) = asked'[kind][c]
         /\ \A d : d # c => OfferOf(book'[kind], d) = OfferOf(book[kind], d)
<1>0. PICK list, rest, req :
        /\ list = book[kind]
        /\ rest = IF asked[kind][c].count > 0 THEN FreeRequest(list, c) ELSE list
        /\ req = [client |-> c, count |-> count]
  OBVIOUS
<1>1. Tidy(kind, list) /\ Single(list) /\ \A b \in Bids(list) : b.count > 0
  BY <1>0, BookTidy DEF TypeInv, ListsInv
<1>2. Bids(list) \subseteq Bid
  BY <1>1, BidType DEF Tidy
<1>3. Tidy(kind, rest) /\ Single(rest) /\ Bids(rest) = {b \in Bids(list) : b.client # c}
  <2>1. CASE asked[kind][c].count > 0
    BY <1>0, <1>1, <2>1, FreeTidy, FreeBids
  <2>2. CASE ~(asked[kind][c].count > 0)
    <3>1. \A b \in Bids(list) : b.client # c
      <4> SUFFICES ASSUME NEW b \in Bids(list), b.client = c PROVE FALSE
        OBVIOUS
      <4>1. OfferOf(list, c) = [count |-> b.count, cost |-> b.cost]
        BY <1>1, OfferOfBid
      <4>2. b.count > 0 /\ asked[kind][c].count = b.count
        BY <1>0, <1>1, <4>1
      <4> QED
        BY <2>2, <4>2
    <3> QED
      BY <1>0, <1>1, <2>2, <3>1
  <2> QED
    BY <2>1, <2>2
<1>4. /\ book' = [book EXCEPT ![kind] =
                    IF count = 0 THEN rest ELSE AddRequest(kind, rest, cost, req)]
      /\ asked' = [asked EXCEPT ![kind][c] =
                     IF count = 0 THEN NoOffer ELSE [count |-> count, cost |-> cost]]
  BY <1>0 DEF Request
<1>5. /\ book'[kind] = IF count = 0 THEN rest ELSE AddRequest(kind, rest, cost, req)
      /\ asked'[kind][c] = IF count = 0 THEN NoOffer ELSE [count |-> count, cost |-> cost]
  BY <1>4 DEF TypeInv, TypeOK
<1>6. CASE count = 0
  <2>1. book'[kind] = rest /\ asked'[kind][c] = NoOffer
    BY <1>5, <1>6
  <2>2. OfferOf(rest, c) = NoOffer
    BY <1>3, OfferOfBid
  <2>3. ASSUME NEW d, d # c PROVE OfferOf(rest, d) = OfferOf(list, d)
    BY <1>1, <1>3, <2>3, SameOffer
  <2> QED
    BY <1>0, <1>1, <1>3, <2>1, <2>2, <2>3
<1>7. CASE count # 0
  <2>1. PICK t, new :
          /\ t = AddRequest(kind, rest, cost, req)
          /\ new = [client |-> c, count |-> count, cost |-> cost]
    OBVIOUS
  <2>2. book'[kind] = t /\ asked'[kind][c] = [count |-> count, cost |-> cost]
    BY <1>5, <1>7, <2>1
  <2>3. new.client = c /\ new.count = count /\ new.cost = cost /\ count > 0
    BY <1>7, <2>1
  <2>4. req \in Req /\ req.client = c /\ req.count = count
    BY <1>0 DEF Req
  <2>5. Single(t) /\ Bids(t) = Bids(rest) \cup {new}
    <3>1. \A b \in Bids(rest) : b.client # req.client
      BY <1>3, <2>4
    <3>2. Single(t) /\ Bids(t) = Bids(rest) \cup
                        {[client |-> req.client, count |-> req.count, cost |-> cost]}
      BY <1>3, <2>1, <2>4, <3>1, AddBids
    <3> QED
      BY <2>1, <2>4, <3>2
  <2>6. OfferOf(t, c) = [count |-> count, cost |-> cost]
    <3>1. new \in Bids(t)
      BY <2>5
    <3> QED
      BY <2>3, <2>5, <3>1, OfferOfBid
  <2>7. ASSUME NEW d, d # c PROVE OfferOf(t, d) = OfferOf(list, d)
    <3>1. \A b : b.client = d => (b \in Bids(list) <=> b \in Bids(t))
      BY <1>3, <2>3, <2>5, <2>7
    <3> QED
      BY <1>1, <2>5, <3>1, SameOffer
  <2>8. \A b \in Bids(t) : b.count > 0
    BY <1>1, <1>3, <2>3, <2>5
  <2> QED
    BY <1>0, <2>2, <2>5, <2>6, <2>7, <2>8
<1> QED
  BY <1>6, <1>7

\* One iteration of make_auction(): the client whose request is served has
\* none any more, the others see what they saw before.
LEMMA ServeLists ==
  ASSUME TypeInv, ListsInv, NEW kind \in Kind, Serve(kind)
  PROVE  \E r \in Req :
           /\ OfferOf(book[kind], r.client) =
                [count |-> r.count, cost |-> book[kind][1].cost]
           /\ stock' = IF kind = "prod"
                       THEN [stock EXCEPT ![r.client] = (@ - Granted(kind, r.count)) % Word]
                       ELSE stock
           /\ Single(book'[kind]) /\ \A b \in Bids(book'[kind]) : b.count > 0
           /\ OfferOf(book'[kind], r.client) = NoOffer
           /\ \A d : d # r.client => OfferOf(book'[kind], d) = OfferOf(book[kind], d)
           /\ r.count > 0
           /\ \A d : OfferOf(book[kind], d).count > 0 =>
                    ~Ahead(kind, OfferOf(book[kind], d).cost, book[kind][1].cost)
           /\ left' = [left EXCEPT ![kind] = @ - Granted(kind, r.count)]
           /\ deal' = [deal EXCEPT !.traded[kind][r.client] = @ + Granted(kind, r.count)]
<1>1. PICK p \in Servable(book[kind]) :
        LET r == book[kind][1].reqs[p]
            n == Granted(kind, r.count)
        IN  /\ book' = [book EXCEPT ![kind] = DropRequest(@, 1, p)]
            /\ left' = [left EXCEPT ![kind] = @ - n]
            /\ stock' = IF kind = "prod"
                        THEN [stock EXCEPT ![r.client] = (@ - n) % Word] ELSE stock
            /\ deal' = [deal EXCEPT !.traded[kind][r.client] = @ + n]
  BY DEF Serve
<1>2. PICK list, t, r : list = book[kind] /\ t = DropRequest(list, 1, p) /\ r = list[1].reqs[p]
  OBVIOUS
<1>3. /\ Tidy(kind, list) /\ Single(list) /\ list # <<>> /\ p \in Servable(list)
      /\ \A b \in Bids(list) : b.count > 0
  BY <1>2, BookTidy DEF TypeInv, ListsInv, Serve
<1>4. r \in Req
  BY <1>2, <1>3, ServableIn
<1>5. /\ [client |-> r.client, count |-> r.count, cost |-> list[1].cost] \in Bids(list)
      /\ \A b \in Bids(list) : ~Ahead(kind, b.cost, list[1].cost)
      /\ Single(t) /\ Bids(t) = {b \in Bids(list) : b.client # r.client}
  BY <1>2, <1>3, ServeBids
<1>6. book'[kind] = t
  BY <1>1, <1>2 DEF TypeInv, TypeOK
<1>7. OfferOf(list, r.client) = [count |-> r.count, cost |-> list[1].cost]
  BY <1>3, <1>5, OfferOfBid
<1>8. OfferOf(t, r.client) = NoOffer
  BY <1>5, OfferOfBid
<1>9. ASSUME NEW d, d # r.client PROVE OfferOf(t, d) = OfferOf(list, d)
  BY <1>3, <1>5, <1>9, SameOffer
<1>10. stock' = IF kind = "prod"
                THEN [stock EXCEPT ![r.client] = (@ - Granted(kind, r.count)) % Word]
                ELSE stock
  BY <1>1, <1>2
<1>11. \A b \in Bids(t) : b.count > 0
  BY <1>3, <1>5
<1>12. /\ left' = [left EXCEPT ![kind] = @ - Granted(kind, r.count)]
       /\ deal' = [deal EXCEPT !.traded[kind][r.client] = @ + Granted(kind, r.count)]
  BY <1>1, <1>2
<1>13. r.count > 0
  BY <1>3, <1>5
<1>14. ASSUME NEW d, OfferOf(list, d).count > 0
       PROVE  ~Ahead(kind, OfferOf(list, d).cost, list[1].cost)
  BY <1>3, <1>5, <1>14, OfferOfBid DEF NoOffer
<1> QED
  BY <1>2, <1>4, <1>5, <1>6, <1>7, <1>8, <1>9, <1>10, <1>11, <1>12, <1>13, <1>14

-----------------------------------------------------------------------------
(* The steps *)

TradeInv == TypeInv /\ ListsInv /\ MonthInv /\ StockInv

LEMMA NoOfferUnlisted == \A c : OfferOf(<<>>, c) = NoOffer
BY NothingListed, OfferOfBid

\* The invariant depends on these fields only.
LEMMA SameLists ==
  ASSUME ListsInv, UNCHANGED book
  PROVE  ListsInv'
BY DEF ListsInv

LEMMA EmptyLists ==
  ASSUME book' = [kind \in Kind |-> <<>>]
  PROVE  ListsInv'
<1>1. \A kind \in Kind : book'[kind] = <<>>
  BY DEF Kind
<1> QED
  BY <1>1, NothingListed DEF ListsInv

\* A block that is taken or freed is no player's afterwards.
LEMMA TradeConnect ==
  ASSUME TradeInv, NEW c \in Client, Connect(c) \/ Join(c)
  PROVE  ListsInv' /\ MonthInv' /\ StockInv'
<1>1. UNCHANGED <<book, phase>>
  BY DEF Connect, Join, books
<1>2. Players' = Players /\ c \notin Players
  BY DEF TradeInv, TypeInv, TypeOK, Connect, Join, Players
<1>3. \A d \in Players : stock'[d] = stock[d] /\ \A kind \in Kind : asked'[kind][d] = asked[kind][d]
  BY <1>2 DEF Connect, Join, books, NewStock, FlushAsked, Players
<1>4. ListsInv'
  BY <1>1, SameLists DEF TradeInv
<1>5. MonthInv'
  BY <1>1, <1>2, <1>3 DEF TradeInv, MonthInv, Kind
<1>6. StockInv'
  BY <1>1, <1>2, <1>3 DEF TradeInv, StockInv, OffersCovered, Kind
<1> QED
  BY <1>4, <1>5, <1>6

LEMMA TradeLeave ==
  ASSUME TradeInv, NEW c \in Client, Leave(c)
  PROVE  ListsInv' /\ MonthInv' /\ StockInv'
<1> DEFINE ends == status[c] = "player" /\ players_count - 1 <= 1
<1>1. UNCHANGED book /\ phase' = IF ends THEN "lobby" ELSE phase
  BY DEF Leave
<1>2. phase \in {"lobby", "trade"}
  BY DEF Leave, Idle
<1>3. Players' = IF ends THEN {} ELSE Players \ {c}
  BY DEF TradeInv, TypeInv, TypeOK, Leave, Players, EndRound
<1>4. \A d \in Players' : /\ d \in Players /\ stock'[d] = stock[d]
                          /\ \A kind \in Kind : asked'[kind][d] = asked[kind][d]
  BY <1>3 DEF Leave, NewStock, FlushAsked, Players
<1> HIDE DEF ends
<1>5. ListsInv'
  BY <1>1, SameLists DEF TradeInv
<1>6. MonthInv'
  BY <1>1, <1>2, <1>3, <1>4 DEF TradeInv, MonthInv, Kind
<1>7. StockInv'
  BY <1>1, <1>2, <1>3, <1>4 DEF TradeInv, StockInv, OffersCovered, Kind
<1> QED
  BY <1>5, <1>6, <1>7

\* new_game_data() empties the lists, new_client_game_data() the requests.
LEMMA TradeBeginRound ==
  ASSUME TradeInv, BeginRound
  PROVE  ListsInv' /\ MonthInv' /\ StockInv'
<1>1. book' = [kind \in Kind |-> <<>>] /\ phase' = "trade" /\ Players = {}
  BY DEF BeginRound, TradeInv, MonthInv
<1>2. \A c \in Players' : status[c] = "requester" /\ c \in Client
  BY <1>1 DEF TradeInv, TypeInv, TypeOK, BeginRound, Players
<1>3. \A c \in Players' : stock'[c] = 2 /\ \A kind \in Kind : asked'[kind][c] = NoOffer
  BY <1>2 DEF BeginRound, NewStock, FlushAsked
<1>4. ListsInv'
  BY <1>1, EmptyLists
<1>5. MonthInv'
  <2>1. \A kind \in Kind, c \in Players' : OfferOf(book'[kind], c) = asked'[kind][c]
    BY <1>1, <1>3, NoOfferUnlisted
  <2> QED
    BY <1>1, <2>1 DEF MonthInv
<1>6. StockInv'
  <2>1. "prod" \in Kind /\ NoOffer.count = 0 /\ 2 <= MaxStock
    BY AuctionAssumption DEF Kind, NoOffer
  <2> QED
    BY <1>1, <1>3, <2>1 DEF StockInv, OffersCovered
<1> QED
  BY <1>4, <1>5, <1>6

\* do_cmd_buy() and do_cmd_sell(): an offer is looked at when it is made, and
\* the productions only grow until it is served.
LEMMA TradeRequest ==
  ASSUME TradeInv, NEW kind \in Kind, NEW c \in Client, NEW count \in 0 .. Word - 1,
         NEW cost \in Nat, phase = "trade", c \in Players,
         kind = "prod" => count <= stock[c], Request(kind, c, count, cost)
  PROVE  ListsInv' /\ MonthInv' /\ StockInv'
<1>1. UNCHANGED <<status, stock, phase>> /\ Players' = Players
  BY DEF Request, Players
<1>2. OfferOf(book[kind], c) = asked[kind][c]
  BY DEF TradeInv, MonthInv
<1>3. /\ Single(book'[kind]) /\ \A b \in Bids(book'[kind]) : b.count > 0
      /\ OfferOf(book'[kind], c) = asked'[kind][c]
      /\ \A d : d # c => OfferOf(book'[kind], d) = OfferOf(book[kind], d)
  BY <1>2, RequestLists DEF TradeInv
<1>4. \A k \in Kind : k # kind => book'[k] = book[k] /\ asked'[k] = asked[k]
  BY DEF Request, TradeInv, TypeInv, TypeOK
<1>5. asked'[kind][c].count = count /\ \A d \in Client : d # c => asked'[kind][d] = asked[kind][d]
  <2> DEFINE o == IF count = 0 THEN NoOffer ELSE [count |-> count, cost |-> cost]
  <2>1. o.count = count
    BY DEF NoOffer
  <2>2. asked' = [asked EXCEPT ![kind][c] = o]
    BY DEF Request
  <2> HIDE DEF o
  <2> QED
    BY <2>1, <2>2 DEF TradeInv, TypeInv, TypeOK
<1>6. ListsInv'
  BY <1>3, <1>4 DEF TradeInv, ListsInv
<1>7. MonthInv'
  <2>1. ASSUME NEW k \in Kind, NEW d \in Players
        PROVE  OfferOf(book'[k], d) = asked'[k][d]
    <3>1. OfferOf(book[k], d) = asked[k][d] /\ d \in Client
      BY DEF TradeInv, MonthInv, Players
    <3> QED
      BY <1>3, <1>4, <1>5, <3>1
  <2> QED
    BY <1>1, <2>1 DEF MonthInv
<1>8. StockInv'
  <2>1. ASSUME NEW d \in Players PROVE asked'["prod"][d].count <= stock[d]
    <3>1. asked["prod"][d].count <= stock[d] /\ d \in Client /\ "prod" \in Kind
      BY DEF TradeInv, StockInv, OffersCovered, Players, Kind
    <3> QED
      BY <1>4, <1>5, <3>1
  <2> QED
    BY <1>1, <2>1 DEF TradeInv, StockInv, OffersCovered
<1> QED
  BY <1>6, <1>7, <1>8

\* The auction of raws leaves the offers alone; the one of productions takes
\* no more from a company than it has offered.
LEMMA TradeServe ==
  ASSUME TradeInv, NEW kind \in Kind, Serve(kind)
  PROVE  ListsInv' /\ MonthInv' /\ StockInv'
<1>1. UNCHANGED <<status, asked, phase>> /\ Players' = Players /\ phase = kind
  BY DEF Serve, Players
<1>2. PICK r \in Req :
        /\ OfferOf(book[kind], r.client) =
             [count |-> r.count, cost |-> book[kind][1].cost]
        /\ stock' = IF kind = "prod"
                    THEN [stock EXCEPT ![r.client] = (@ - Granted(kind, r.count)) % Word]
                    ELSE stock
        /\ Single(book'[kind]) /\ \A b \in Bids(book'[kind]) : b.count > 0
        /\ OfferOf(book'[kind], r.client) = NoOffer
        /\ \A d : d # r.client => OfferOf(book'[kind], d) = OfferOf(book[kind], d)
  BY ServeLists DEF TradeInv
<1>3. \A k \in Kind : k # kind => book'[k] = book[k]
  BY DEF Serve, TradeInv, TypeInv, TypeOK
<1>4. "raw" \in Kind /\ "prod" \in Kind /\ (kind = "raw" \/ kind = "prod")
  BY DEF Kind
<1>5. ListsInv'
  BY <1>2, <1>3 DEF TradeInv, ListsInv
<1>6. MonthInv'
  BY <1>1, <1>3, <1>4 DEF TradeInv, MonthInv
<1>7. StockInv'
  <2>1. CASE kind = "raw"
    BY <1>1, <1>2, <2>1 DEF TradeInv, StockInv, OffersCovered
  <2>2. CASE kind = "prod"
    <3>1. \A d \in Players : OfferOf(book["prod"], d).count <= stock[d] /\ stock[d] <= MaxStock
      BY <1>1, <2>2 DEF TradeInv, StockInv, OffersCovered
    <3>2. ASSUME NEW d \in Players
          PROVE  OfferOf(book'["prod"], d).count <= stock'[d] /\ stock'[d] <= MaxStock
      <4>1. d \in Client /\ stock[d] \in 0 .. Word - 1
        BY DEF Players, TradeInv, TypeInv, TypeOK
      <4>2. CASE d = r.client
        <5> DEFINE n == Granted(kind, r.count)
        <5>1. r.count \in Nat /\ left[kind] \in Nat
          BY DEF Req, TradeInv, TypeInv, TypeOK
        <5>2. n \in Nat /\ n <= r.count
          BY <5>1 DEF Granted
        <5>3. r.count <= stock[d] /\ stock[d] <= MaxStock
          BY <1>2, <2>2, <3>1, <4>2
        <5> HIDE DEF n
        <5>4. stock'[d] = (stock[d] - n) % Word
          BY <1>2, <2>2, <4>1, <4>2 DEF n, TradeInv, TypeInv, TypeOK
        <5>5. stock[d] - n \in 0 .. Word - 1 /\ stock[d] - n <= MaxStock
          BY <4>1, <5>1, <5>2, <5>3, AuctionAssumption
        <5>6. stock'[d] = stock[d] - n
          BY <5>4, <5>5, AuctionAssumption
        <5>7. OfferOf(book'["prod"], d).count = 0
          BY <1>2, <2>2, <4>2 DEF NoOffer
        <5> QED
          BY <5>5, <5>6, <5>7
      <4>3. CASE d # r.client
        <5>1. stock'[d] = stock[d]
          BY <1>2, <2>2, <4>1, <4>3 DEF TradeInv, TypeInv, TypeOK
        <5> QED
          BY <1>2, <2>2, <3>1, <4>3, <5>1
      <4> QED
        BY <4>2, <4>3
    <3>3. phase' = "prod"
      BY <1>1, <2>2
    <3> QED
      BY <1>1, <3>2, <3>3 DEF StockInv, OffersCovered
  <2> QED
    BY <1>4, <2>1, <2>2
<1> QED
  BY <1>5, <1>6, <1>7

\* What is left in a list is freed; the offers have not changed since the
\* players made them when their auction begins.
LEMMA TradeEndAuction ==
  ASSUME TradeInv, NEW kind \in Kind, EndAuction(kind)
  PROVE  ListsInv' /\ MonthInv' /\ StockInv'
<1>1. /\ UNCHANGED <<status, stock, asked>> /\ Players' = Players /\ phase = kind
      /\ phase' = IF kind = "raw" THEN "prod" ELSE "books"
  BY DEF EndAuction, Players
<1>2. /\ book'[kind] = <<>>
      /\ \A k \in Kind : k # kind => book'[k] = book[k]
  BY DEF EndAuction, TradeInv, TypeInv, TypeOK
<1>3. "raw" \in Kind /\ "prod" \in Kind /\ (kind = "raw" \/ kind = "prod")
  BY DEF Kind
<1>4. ListsInv'
  BY <1>2, NothingListed DEF TradeInv, ListsInv
<1>5. MonthInv'
  BY <1>1, <1>2, <1>3 DEF TradeInv, MonthInv
<1>6. StockInv'
  <2>1. CASE kind = "raw"
    <3>1. \A d \in Players : OfferOf(book'["prod"], d).count <= stock[d]
      BY <1>1, <1>2, <1>3, <2>1 DEF TradeInv, MonthInv, StockInv, OffersCovered
    <3> QED
      BY <1>1, <2>1, <3>1 DEF TradeInv, StockInv, OffersCovered
  <2>2. CASE kind = "prod"
    <3>1. ASSUME NEW d \in Players PROVE OfferOf(book'["prod"], d).count <= stock[d]
      <4>1. OfferOf(book'["prod"], d).count = 0
        BY <1>2, <2>2, NoOfferUnlisted DEF NoOffer
      <4>2. stock[d] \in 0 .. Word - 1
        BY DEF Players, TradeInv, TypeInv, TypeOK
      <4> QED
        BY <4>1, <4>2
    <3> QED
      BY <1>1, <2>2, <3>1 DEF TradeInv, StockInv, OffersCovered
  <2> QED
    BY <1>3, <2>1, <2>2
<1> QED
  BY <1>4, <1>5, <1>6

LEMMA TradeCloseMonth ==
  ASSUME TradeInv, CloseMonth
  PROVE  ListsInv' /\ MonthInv' /\ StockInv'
<1>1. /\ UNCHANGED <<status, stock, asked, book>> /\ Players' = Players
      /\ phase = "trade" /\ phase' = "raw"
  BY DEF CloseMonth, Players
<1>2. ListsInv'
  BY <1>1, SameLists DEF TradeInv
<1>3. MonthInv'
  BY <1>1 DEF TradeInv, MonthInv, Kind
<1>4. StockInv'
  BY <1>1 DEF TradeInv, StockInv, OffersCovered
<1> QED
  BY <1>2, <1>3, <1>4

\* flush_auction_auxiliary_info(): the requests are forgotten, as the lists
\* have been.
LEMMA TradeEndMonth ==
  ASSUME TradeInv, NEW made \in [Players -> Production], NEW bankrupt \in SUBSET Players,
         EndMonth(made, bankrupt)
  PROVE  ListsInv' /\ MonthInv' /\ StockInv'
<1> DEFINE ends == players_count - Cardinality(bankrupt) <= 1
<1>1. /\ UNCHANGED book /\ phase = "books"
      /\ phase' = IF ends THEN "lobby" ELSE "trade"
  BY DEF EndMonth
<1>2. Players' = IF ends THEN {} ELSE Players
  BY DEF TradeInv, TypeInv, TypeOK, EndMonth, Players, EndRound
<1>3. \A c \in Players : c \in Client /\ stock'[c] <= MaxStock /\ stock'[c] \in Nat
                         /\ \A kind \in Kind : asked'[kind][c] = NoOffer
  <2>1. \A c \in Players : c \in Client /\ made[c] \in Nat /\ stock[c] \in Nat
    <3>1. Players \subseteq Client
      BY DEF Players
    <3>2. stock \in [Client -> Nat] /\ Production \subseteq Nat
      BY AuctionAssumption DEF TradeInv, TypeInv, TypeOK
    <3> QED
      BY <3>1, <3>2
  <2>2. \A c \in Players : stock'[c] = stock[c] + made[c] /\ stock'[c] <= MaxStock
    BY <2>1 DEF EndMonth
  <2>3. asked' = FlushAsked(Players)
    BY DEF EndMonth
  <2>4. \A c \in Players, kind \in Kind : asked'[kind][c] = NoOffer
    BY <2>1, <2>3 DEF FlushAsked
  <2> QED
    BY <2>1, <2>2, <2>4
<1> HIDE DEF ends
<1>4. \A kind \in Kind : book[kind] = <<>>
  BY <1>1 DEF TradeInv, MonthInv, Kind
<1>5. ListsInv'
  BY <1>1, SameLists DEF TradeInv
<1>6. MonthInv'
  <2>1. \A kind \in Kind, c \in Players' : OfferOf(book'[kind], c) = asked'[kind][c]
    BY <1>1, <1>2, <1>3, <1>4, NoOfferUnlisted
  <2> QED
    BY <1>1, <1>2, <2>1 DEF MonthInv
<1>7. StockInv'
  <2>1. "prod" \in Kind /\ NoOffer.count = 0
    BY DEF Kind, NoOffer
  <2> QED
    BY <1>1, <1>2, <1>3, <2>1 DEF StockInv, OffersCovered
<1> QED
  BY <1>5, <1>6, <1>7

LEMMA TradeStep == TradeInv /\ [Next]_vars => TradeInv'
<1> SUFFICES ASSUME TradeInv, [Next]_vars
             PROVE  TradeInv'
  OBVIOUS
<1>1. TypeInv'
  BY TypeStep, BookStep DEF TradeInv, TypeInv
<1>2. CASE UNCHANGED vars
  <2>1. ListsInv'
    BY <1>2, SameLists DEF TradeInv, vars
  <2>2. MonthInv' /\ StockInv'
    BY <1>2 DEF TradeInv, vars, MonthInv, StockInv, OffersCovered, Players
  <2> QED
    BY <1>1, <2>1, <2>2 DEF TradeInv
<1>3. CASE BeginRound
  BY <1>1, <1>3, TradeBeginRound DEF TradeInv
<1>4. ASSUME NEW c \in Client, Connect(c) \/ Join(c) \/ Leave(c)
      PROVE  TradeInv'
  BY <1>1, <1>4, TradeConnect, TradeLeave DEF TradeInv
<1>5. ASSUME NEW c \in Client, NEW count \in RequestCount, NEW cost \in BidCost,
             Buy(c, count, cost)
      PROVE  TradeInv'
  <2>1. "raw" \in Kind /\ count \in 0 .. Word - 1 /\ cost \in Nat
    BY AuctionAssumption DEF Kind
  <2>2. phase = "trade" /\ c \in Players /\ Request("raw", c, count, cost)
    BY <1>5 DEF Buy, Players
  <2> QED
    BY <1>1, <2>1, <2>2, TradeRequest DEF TradeInv
<1>6. ASSUME NEW c \in Client, NEW count \in RequestCount, NEW cost \in OfferCost,
             Sell(c, count, cost)
      PROVE  TradeInv'
  <2>1. "prod" \in Kind /\ count \in 0 .. Word - 1 /\ cost \in Nat
    BY AuctionAssumption DEF Kind
  <2>2. phase = "trade" /\ c \in Players /\ count <= stock[c] /\ Request("prod", c, count, cost)
    BY <1>6 DEF Sell, Players
  <2> QED
    BY <1>1, <2>1, <2>2, TradeRequest DEF TradeInv
<1>7. CASE CloseMonth
  BY <1>1, <1>7, TradeCloseMonth DEF TradeInv
<1>8. ASSUME NEW kind \in Kind, Serve(kind) \/ EndAuction(kind)
      PROVE  TradeInv'
  BY <1>1, <1>8, TradeServe, TradeEndAuction DEF TradeInv
<1>9. ASSUME NEW made \in [Players -> Production], NEW bankrupt \in SUBSET Players,
             EndMonth(made, bankrupt)
      PROVE  TradeInv'
  BY <1>1, <1>9, TradeEndMonth DEF TradeInv
<1> QED
  BY <1>2, <1>3, <1>4, <1>5, <1>6, <1>7, <1>8, <1>9
     DEF Next, Lobby, Command, NextStep

LEMMA TradeInit == Init => TradeInv
<1> SUFFICES ASSUME Init PROVE TradeInv
  OBVIOUS
<1>1. TypeInv
  BY TypeInit, BookInit DEF TypeInv
<1>2. book = [kind \in Kind |-> <<>>] /\ phase = "lobby" /\ Players = {}
  BY DEF Init, Players
<1>3. ListsInv
  BY <1>2, NothingListed DEF ListsInv
<1>4. MonthInv /\ StockInv
  BY <1>2 DEF MonthInv, StockInv, OffersCovered
<1> QED
  BY <1>1, <1>3, <1>4 DEF TradeInv

THEOREM TradeInductive == Spec => []TradeInv
BY TradeInit, TradeStep, PTL DEF Spec

\* What "status" tells a player is what the lists hold, whatever was asked
\* for, replaced and withdrawn, and whoever had the block before.
THEOREM ListsMatchRequests == Spec => []BookMatchesAsked
<1>1. TradeInv => BookMatchesAsked
  <2> SUFFICES ASSUME TradeInv, phase = "trade", NEW kind \in Kind, NEW c \in Players
               PROVE  /\ Cardinality(PlacesOf(book[kind], c)) <= 1
                      /\ OfferOf(book[kind], c) = asked[kind][c]
    BY DEF BookMatchesAsked
  <2> QED
    BY OnePlace DEF TradeInv, ListsInv, MonthInv
<1> QED
  BY <1>1, TradeInductive, PTL

\* What a company offers it has when the auction sells it: prod_count, which
\* is unsigned, never wraps.
THEOREM OffersAreCovered == Spec => []OffersCovered
<1>1. TradeInv => OffersCovered
  BY DEF TradeInv, StockInv
<1> QED
  BY <1>1, TradeInductive, PTL

-----------------------------------------------------------------------------
(* Sums over the clients *)

\* What the auctions have traded, or are asked to.
SumOf(f) == MapThenSumSet(LAMBDA c : f[c], Client)

\* One of s, always the same.
Some(s) == CHOOSE c \in s : TRUE

\* iter adds up f over every set of clients, one client after the other.
Adds(f, iter) ==
  iter = [s \in SUBSET Client |->
            IF s = {} THEN 0 ELSE f[Some(s)] + iter[s \ {Some(s)}]]

Part(f) == CHOOSE iter : Adds(f, iter)

LEMMA SumIsPart == ASSUME NEW f PROVE SumOf(f) = Part(f)[Client]
BY DEF SumOf, MapThenSumSet, MapThenFoldSet, Part, Adds, Some

LEMMA SomeIn ==
  ASSUME NEW s \in SUBSET Client, s # {}
  PROVE  /\ Some(s) \in s /\ s \ {Some(s)} \in SUBSET Client
         /\ Cardinality(s) \in Nat /\ Cardinality(s \ {Some(s)}) = Cardinality(s) - 1
<1>1. Some(s) \in s
  BY DEF Some
<1>2. IsFiniteSet(s)
  BY AuctionAssumption, FS_Subset
<1> QED
  BY <1>1, <1>2, FS_RemoveElement, FS_CardinalityType

\* A set of clients is reached from the empty one by adding its clients.
LEMMA SetByStep ==
  ASSUME NEW Bad \in SUBSET SUBSET Client, {} \notin Bad,
         \A s \in Bad : s \ {Some(s)} \in Bad
  PROVE  Bad = {}
<1> SUFFICES ASSUME Bad # {} PROVE FALSE
  OBVIOUS
<1>1. \A s \in Bad : Cardinality(s) \in Nat
  BY SomeIn
<1> DEFINE sizes == {Cardinality(s) : s \in Bad}
<1>2. sizes \in SUBSET Nat /\ sizes # {}
  BY <1>1
<1>3. Min(sizes) \in sizes /\ \A k \in sizes : Min(sizes) <= k
  BY <1>2, FirstPlace
<1>4. PICK s \in Bad : Cardinality(s) = Min(sizes)
  BY <1>3
<1>5. s # {} /\ s \ {Some(s)} \in Bad
  BY <1>4
<1>6. Cardinality(s \ {Some(s)}) \in sizes
  BY <1>5
<1>7. Cardinality(s \ {Some(s)}) = Cardinality(s) - 1 /\ Cardinality(s) \in Nat
  BY <1>5, SomeIn
<1> HIDE DEF sizes
<1> QED
  BY <1>3, <1>4, <1>6, <1>7

\* The sums exist, for sets of any size.
LEMMA PartExists ==
  ASSUME NEW f \in [Client -> Nat]
  PROVE  \E iter : Adds(f, iter)
<1> DEFINE Small(n) == {s \in SUBSET Client : Cardinality(s) <= n}
           Steps(n) == {g \in [Small(n) -> Nat] :
                          \A s \in Small(n) :
                            g[s] = IF s = {} THEN 0 ELSE f[Some(s)] + g[s \ {Some(s)}]}
           Bad == {n \in Nat : Steps(n) = {}}
<1>1. 0 \notin Bad
  <2> DEFINE g == [s \in Small(0) |-> 0]
  <2>1. \A s \in Small(0) : s = {}
    <3> SUFFICES ASSUME NEW s \in Small(0), s # {} PROVE FALSE
      OBVIOUS
    <3>1. Cardinality(s) \in Nat /\ Cardinality(s) <= 0 /\ IsFiniteSet(s)
      BY SomeIn, AuctionAssumption, FS_Subset
    <3> QED
      BY <3>1, FS_EmptySet
  <2>2. g \in Steps(0)
    BY <2>1
  <2> QED
    BY <2>2
<1>2. ASSUME NEW n \in Nat, n + 1 \in Bad PROVE n \in Bad
  <2> SUFFICES ASSUME NEW g \in Steps(n) PROVE FALSE
    OBVIOUS
  <2> DEFINE h == [s \in Small(n + 1) |->
                     IF s = {} THEN 0 ELSE f[Some(s)] + g[s \ {Some(s)}]]
  <2>1. \A s \in Small(n + 1) : s # {} => Some(s) \in Client /\ s \ {Some(s)} \in Small(n)
    <3> SUFFICES ASSUME NEW s \in Small(n + 1), s # {}
                 PROVE  Some(s) \in Client /\ s \ {Some(s)} \in Small(n)
      OBVIOUS
    <3>1. /\ Some(s) \in s /\ s \ {Some(s)} \in SUBSET Client
          /\ Cardinality(s) \in Nat /\ Cardinality(s \ {Some(s)}) = Cardinality(s) - 1
      BY SomeIn
    <3> QED
      BY <3>1
  <2>2. \A s \in Small(n) : s \in Small(n + 1)
    <3> SUFFICES ASSUME NEW s \in Small(n) PROVE Cardinality(s) <= n + 1
      OBVIOUS
    <3>1. Cardinality(s) \in Nat
      BY AuctionAssumption, FS_Subset, FS_CardinalityType
    <3> QED
      BY <3>1
  <2>3. g \in [Small(n) -> Nat] /\ \A s \in Small(n) :
                 g[s] = IF s = {} THEN 0 ELSE f[Some(s)] + g[s \ {Some(s)}]
    OBVIOUS
  <2> HIDE DEF Small
  <2>4. h \in [Small(n + 1) -> Nat]
    BY <2>1, <2>3
  <2>5. \A s \in Small(n) : h[s] = g[s]
    BY <2>2, <2>3
  <2>6. \A s \in Small(n + 1) :
          h[s] = IF s = {} THEN 0 ELSE f[Some(s)] + h[s \ {Some(s)}]
    BY <2>1, <2>5
  <2>7. h \in Steps(n + 1)
    BY <2>4, <2>6
  <2>8. Steps(n + 1) = {}
    BY <1>2
  <2> QED
    BY <2>7, <2>8
<1>3. Bad = {}
  <2> SUFFICES ASSUME Bad # {} PROVE FALSE
    OBVIOUS
  <2>1. Bad \in SUBSET Nat
    OBVIOUS
  <2> HIDE DEF Bad
  <2>2. PICK m \in Bad : \A k \in Bad : m <= k
    BY <2>1, FirstPlace
  <2>3. m # 0 /\ m \in Nat
    BY <1>1, <2>1, <2>2
  <2>4. m - 1 \in Nat /\ (m - 1) + 1 = m
    BY <2>3
  <2>5. m - 1 \in Bad
    BY <1>2, <2>4
  <2> QED
    BY <2>2, <2>3, <2>5
<1>4. PICK n \in Nat : n = Cardinality(Client)
  BY AuctionAssumption, FS_CardinalityType
<1>5. Small(n) = SUBSET Client
  BY <1>4, AuctionAssumption, FS_Subset
<1>6. PICK g : g \in Steps(n)
  BY <1>3
<1>7. g = [s \in SUBSET Client |-> IF s = {} THEN 0 ELSE f[Some(s)] + g[s \ {Some(s)}]]
  BY <1>5, <1>6
<1> QED
  BY <1>7 DEF Adds

\* How a sum is taken.
LEMMA PartSteps ==
  ASSUME NEW f \in [Client -> Nat]
  PROVE  /\ Part(f)[{}] = 0
         /\ \A s \in SUBSET Client :
              s # {} => Part(f)[s] = f[Some(s)] + Part(f)[s \ {Some(s)}]
         /\ \A s \in SUBSET Client : Part(f)[s] \in Nat
<1> DEFINE iter == Part(f)
<1>1. Adds(f, iter)
  BY PartExists DEF Part
<1> HIDE DEF iter
<1>2. /\ iter[{}] = 0
      /\ \A s \in SUBSET Client : s # {} => iter[s] = f[Some(s)] + iter[s \ {Some(s)}]
  BY <1>1 DEF Adds
<1> DEFINE Bad == {s \in SUBSET Client : iter[s] \notin Nat}
<1>3. \A s \in Bad : s \ {Some(s)} \in Bad
  <2> SUFFICES ASSUME NEW s \in Bad, iter[s \ {Some(s)}] \in Nat PROVE FALSE
    BY SomeIn
  <2>1. s # {} /\ s \in SUBSET Client
    BY <1>2
  <2>2. Some(s) \in Client /\ iter[s] = f[Some(s)] + iter[s \ {Some(s)}]
    BY <1>2, <2>1, SomeIn
  <2> QED
    BY <2>2
<1>4. {} \notin Bad
  BY <1>2
<1>5. Bad = {}
  BY <1>3, <1>4, SetByStep
<1> QED
  BY <1>2, <1>5 DEF iter

LEMMA SumType == ASSUME NEW f \in [Client -> Nat] PROVE SumOf(f) \in Nat
BY SumIsPart, PartSteps

LEMMA SumNothing == SumOf(Nothing) = 0
<1>1. Nothing \in [Client -> Nat] /\ \A c \in Client : Nothing[c] = 0
  BY DEF Nothing
<1> DEFINE Bad == {s \in SUBSET Client : Part(Nothing)[s] # 0}
<1>2. \A s \in Bad : s \ {Some(s)} \in Bad
  <2> SUFFICES ASSUME NEW s \in Bad, Part(Nothing)[s \ {Some(s)}] = 0 PROVE FALSE
    BY SomeIn
  <2>1. s # {} /\ s \in SUBSET Client
    BY <1>1, PartSteps
  <2>2. Nothing[Some(s)] = 0
    BY <1>1, <2>1, SomeIn
  <2>3. Part(Nothing)[s] = Nothing[Some(s)] + Part(Nothing)[s \ {Some(s)}]
    BY <1>1, <2>1, PartSteps
  <2> QED
    BY <2>2, <2>3
<1>3. {} \notin Bad
  BY <1>1, PartSteps
<1>4. Bad = {}
  BY <1>2, <1>3, SetByStep
<1> QED
  BY <1>4, SumIsPart

\* One client trades n more.
LEMMA SumMore ==
  ASSUME NEW f \in [Client -> Nat], NEW c \in Client, NEW n \in Nat,
         NEW g \in [Client -> Nat], g[c] = f[c] + n,
         \A d \in Client : d # c => g[d] = f[d]
  PROVE  SumOf(g) = SumOf(f) + n
<1>1. /\ g \in [Client -> Nat] /\ g[c] = f[c] + n
      /\ \A d \in Client : d # c => g[d] = f[d]
  OBVIOUS
<1> DEFINE Grown(s) == Part(f)[s] + (IF c \in s THEN n ELSE 0)
           Bad == {s \in SUBSET Client : Part(g)[s] # Grown(s)}
<1>2. \A s \in Bad : s \ {Some(s)} \in Bad
  <2> SUFFICES ASSUME NEW s \in Bad, Part(g)[s \ {Some(s)}] = Grown(s \ {Some(s)})
               PROVE  FALSE
    BY SomeIn
  <2>1. s # {} /\ s \in SUBSET Client
    BY <1>1, PartSteps
  <2>2. Some(s) \in s /\ Some(s) \in Client /\ s \ {Some(s)} \in SUBSET Client
    BY <2>1, SomeIn
  <2>3. /\ Part(g)[s] = g[Some(s)] + Part(g)[s \ {Some(s)}]
        /\ Part(f)[s] = f[Some(s)] + Part(f)[s \ {Some(s)}]
        /\ Part(f)[s \ {Some(s)}] \in Nat /\ Part(f)[s] \in Nat
    BY <1>1, <2>1, <2>2, PartSteps
  <2>4. CASE c = Some(s)
    <3>1. Grown(s) = Part(f)[s] + n /\ Grown(s \ {Some(s)}) = Part(f)[s \ {Some(s)}]
      BY <2>2, <2>3, <2>4
    <3> QED
      BY <1>1, <2>2, <2>3, <2>4, <3>1
  <2>5. CASE c # Some(s)
    <3>1. c \in s <=> c \in s \ {Some(s)}
      BY <2>5
    <3>2. g[Some(s)] = f[Some(s)] /\ f[Some(s)] \in Nat
      BY <1>1, <2>2, <2>5
    <3> QED
      BY <2>3, <3>1, <3>2
  <2> QED
    BY <2>4, <2>5
<1>3. {} \notin Bad
  <2>1. Part(g)[{}] = 0 /\ Part(f)[{}] = 0
    BY <1>1, PartSteps
  <2>2. Grown({}) = 0
    BY <2>1
  <2> QED
    BY <2>1, <2>2
<1>4. Bad = {}
  BY <1>2, <1>3, SetByStep
<1>5. Part(g)[Client] = Part(f)[Client] + n
  BY <1>4
<1> QED
  BY <1>5, SumIsPart

\* Who trades no more than it has asked for is, with all others, within what
\* all have asked for.
LEMMA SumWithin ==
  ASSUME NEW f \in [Client -> Nat], NEW g \in [Client -> Nat],
         \A c \in Client : f[c] <= g[c]
  PROVE  SumOf(f) <= SumOf(g)
<1> DEFINE Bad == {s \in SUBSET Client : ~(Part(f)[s] <= Part(g)[s])}
<1>1. \A s \in Bad : s \ {Some(s)} \in Bad
  <2> SUFFICES ASSUME NEW s \in Bad, Part(f)[s \ {Some(s)}] <= Part(g)[s \ {Some(s)}]
               PROVE  FALSE
    BY SomeIn
  <2>1. s # {} /\ s \in SUBSET Client
    BY PartSteps
  <2>2. Some(s) \in Client /\ s \ {Some(s)} \in SUBSET Client
    BY <2>1, SomeIn
  <2>3. /\ Part(g)[s] = g[Some(s)] + Part(g)[s \ {Some(s)}]
        /\ Part(f)[s] = f[Some(s)] + Part(f)[s \ {Some(s)}]
        /\ Part(f)[s \ {Some(s)}] \in Nat /\ Part(g)[s \ {Some(s)}] \in Nat
    BY <2>1, <2>2, PartSteps
  <2>4. f[Some(s)] \in Nat /\ g[Some(s)] \in Nat /\ f[Some(s)] <= g[Some(s)]
    BY <2>2
  <2> QED
    BY <2>3, <2>4
<1>2. {} \notin Bad
  BY PartSteps
<1>3. Bad = {}
  BY <1>1, <1>2, SetByStep
<1>4. Part(f)[Client] <= Part(g)[Client]
  BY <1>3
<1> QED
  BY <1>4, SumIsPart

LEMMA SameSums ==
  ASSUME NEW f PROVE Raws!Total(f) = SumOf(f) /\ Productions!Total(f) = SumOf(f)
BY DEF Raws!Total, Productions!Total, Raws!MapThenSumSet, Productions!MapThenSumSet,
       Raws!MapThenFoldSet, Productions!MapThenFoldSet, SumOf, MapThenSumSet, MapThenFoldSet

-----------------------------------------------------------------------------
(* The auctions                                                            *)

\* Who asked for the better cost comes first, and one client at most gets a
\* part of what it asked for.
InOrder(kind, o, n) ==
  \A c, d \in Client :
    /\ n[d] > 0 /\ Ahead(kind, o[c].cost, o[d].cost) => n[c] = o[c].count
    /\ n[c] \in 1 .. o[c].count - 1 /\ n[d] \in 1 .. o[d].count - 1 => c = d

FairTrade(kind, o, m, n) ==
  /\ \A c \in Client : n[c] \in 0 .. o[c].count
  /\ SumOf(n) = Min({m, SumOf([c \in Client |-> o[c].count])})
  /\ InOrder(kind, o, n)

\* An auction that began with the offers o and the limit m and has not ended:
\* who is still in the list has what it offered and has traded nothing, and
\* the others have got all they asked for while the market has something left.
Dealing(kind, list, o, n, m, l) ==
  /\ \A c \in Client :
       IF OfferOf(list, c).count > 0
       THEN OfferOf(list, c) = o[c] /\ n[c] = 0
       ELSE n[c] <= o[c].count /\ (l # 0 => n[c] = o[c].count)
  /\ SumOf(n) + l = m
  /\ InOrder(kind, o, n)

\* The inductive invariant of the auctions.
DealInv ==
  \A kind \in Kind :
    Pending(kind) => Dealing(kind, book[kind], deal.offered[kind], deal.traded[kind],
                             deal.market[kind], left[kind])

\* One iteration of make_auction(): the request served is one of the best
\* cost, and nobody that is left out has a better one.
LEMMA ServeDealing ==
  ASSUME NEW kind \in Kind, NEW list, NEW t, NEW o \in [Client -> Offer],
         NEW n \in [Client -> Nat], NEW m \in Nat, NEW l \in Nat, l # 0,
         Dealing(kind, list, o, n, m, l),
         NEW e \in Client, NEW b \in Offer, b.count > 0, OfferOf(list, e) = b,
         OfferOf(t, e) = NoOffer, \A d : d # e => OfferOf(t, d) = OfferOf(list, d),
         \A d : OfferOf(list, d).count > 0 => ~Ahead(kind, OfferOf(list, d).cost, b.cost),
         NEW g \in Nat, g = IF l < b.count THEN l ELSE b.count,
         NEW n2, n2 = [n EXCEPT ![e] = @ + g]
  PROVE  Dealing(kind, t, o, n2, m, l - g)
<1>1. o[e] = b /\ n[e] = 0 /\ b.count \in Nat /\ b.cost \in Nat
  BY DEF Dealing, Offer
<1>2. /\ n2 \in [Client -> Nat] /\ n2[e] = g
      /\ \A d \in Client : d # e => n2[d] = n[d]
  BY <1>1
<1>3. g > 0 /\ g <= b.count /\ l - g \in Nat /\ (l - g # 0 => g = b.count)
  BY <1>1
<1>4. \A d \in Client : o[d].count \in Nat /\ o[d].cost \in Nat /\ n[d] \in Nat
  BY DEF Offer
<1>5. ASSUME NEW d \in Client, d # e, OfferOf(list, d).count > 0
      PROVE  ~Ahead(kind, o[d].cost, b.cost) /\ n[d] = 0
  BY <1>5 DEF Dealing
<1>6. ASSUME NEW d \in Client, ~(OfferOf(list, d).count > 0)
      PROVE  n[d] = o[d].count
  BY <1>6 DEF Dealing
<1>7. \A d \in Client :
        IF OfferOf(t, d).count > 0
        THEN OfferOf(t, d) = o[d] /\ n2[d] = 0
        ELSE n2[d] <= o[d].count /\ (l - g # 0 => n2[d] = o[d].count)
  <2> SUFFICES ASSUME NEW d \in Client
               PROVE  IF OfferOf(t, d).count > 0
                      THEN OfferOf(t, d) = o[d] /\ n2[d] = 0
                      ELSE n2[d] <= o[d].count /\ (l - g # 0 => n2[d] = o[d].count)
    OBVIOUS
  <2>1. CASE d = e
    BY <1>1, <1>2, <1>3, <2>1 DEF NoOffer
  <2>2. CASE d # e
    <3>1. n2[d] = n[d] /\ OfferOf(t, d) = OfferOf(list, d)
      BY <1>2, <2>2
    <3>2. CASE OfferOf(list, d).count > 0
      BY <3>1, <3>2 DEF Dealing
    <3>3. CASE ~(OfferOf(list, d).count > 0)
      BY <1>4, <1>6, <3>1, <3>3
    <3> QED
      BY <3>2, <3>3
  <2> QED
    BY <2>1, <2>2
<1>8. SumOf(n2) + (l - g) = m
  <2>1. SumOf(n) \in Nat
    BY SumType
  <2>2. n2[e] = n[e] + g
    BY <1>1, <1>2
  <2>3. SumOf(n2) = SumOf(n) + g
    BY ONLY <1>2, <2>2, SumMore, n \in [Client -> Nat], g \in Nat, e \in Client
  <2> QED
    BY <2>1, <2>3 DEF Dealing
<1>9. \A c, d \in Client :
        n2[d] > 0 /\ Ahead(kind, o[c].cost, o[d].cost) => n2[c] = o[c].count
  <2> SUFFICES ASSUME NEW c \in Client, NEW d \in Client,
                      n2[d] > 0, Ahead(kind, o[c].cost, o[d].cost)
               PROVE  n2[c] = o[c].count
    OBVIOUS
  <2>1. CASE d = e
    <3>1. c # e
      BY <1>1, <2>1 DEF Ahead
    <3> QED
      BY <1>1, <1>2, <1>5, <1>6, <2>1, <3>1
  <2>2. CASE d # e
    <3>1. n[d] > 0
      BY <1>2, <2>2
    <3>2. n[c] = o[c].count
      BY <3>1 DEF Dealing, InOrder
    <3>3. c # e
      BY <1>1, <3>2
    <3> QED
      BY <1>2, <3>2, <3>3
  <2> QED
    BY <2>1, <2>2
<1>10. \A c \in Client : n2[c] \in 1 .. o[c].count - 1 => c = e
  <2> SUFFICES ASSUME NEW c \in Client, n2[c] \in 1 .. o[c].count - 1, c # e
               PROVE  FALSE
    OBVIOUS
  <2>1. n2[c] = n[c] /\ n2[c] # 0 /\ n2[c] # o[c].count
    BY <1>2, <1>4
  <2> QED
    BY <1>5, <1>6, <2>1
<1>11. InOrder(kind, o, n2)
  BY <1>9, <1>10 DEF InOrder
<1> QED
  BY <1>7, <1>8, <1>11 DEF Dealing

\* make_auction() ends when the market has nothing left, or nobody.
LEMMA EndDealing ==
  ASSUME NEW kind \in Kind, NEW list, NEW o \in [Client -> Offer],
         NEW n \in [Client -> Nat], NEW m \in Nat, NEW l \in Nat,
         Dealing(kind, list, o, n, m, l), l = 0 \/ list = <<>>
  PROVE  FairTrade(kind, o, m, n)
<1> DEFINE counts == [c \in Client |-> o[c].count]
<1>1. \A c \in Client : o[c].count \in Nat /\ n[c] \in Nat
  BY DEF Offer
<1>2. counts \in [Client -> Nat]
  BY <1>1
<1>3. ASSUME NEW c \in Client PROVE n[c] <= o[c].count
  BY <1>1, <1>3 DEF Dealing
<1>4. SumOf(n) <= SumOf(counts) /\ SumOf(n) \in Nat /\ SumOf(counts) \in Nat
  BY <1>1, <1>2, <1>3, SumWithin, SumType
<1>5. SumOf(n) = m - l
  BY <1>4 DEF Dealing
<1>6. CASE l = 0
  <2>1. SumOf(n) = Min({m, SumOf(counts)})
    BY <1>4, <1>5, <1>6 DEF Min
  <2> QED
    BY <1>1, <1>3, <2>1 DEF FairTrade, Dealing
<1>7. CASE l # 0
  <2>1. ASSUME NEW c \in Client PROVE n[c] = o[c].count
    <3>1. OfferOf(list, c).count = 0
      BY <1>7, NoOfferUnlisted DEF NoOffer
    <3> QED
      BY <1>7, <3>1 DEF Dealing
  <2>2. n = counts
    BY <2>1
  <2>3. SumOf(n) = Min({m, SumOf(counts)})
    BY <1>4, <1>5, <2>2 DEF Min
  <2> QED
    BY <1>1, <1>3, <2>3 DEF FairTrade, Dealing
<1> QED
  BY <1>6, <1>7

\* The promise says so of raws and of productions.
LEMMA FairIsPromised ==
  ASSUME NEW o, NEW m, NEW n
  PROVE  /\ FairTrade("raw", o, m, n) => Raws!Fair(o, m, n)
         /\ FairTrade("prod", o, m, n) => Productions!Fair(o, m, n)
<1>1. /\ Raws!Total(Raws!Asked(o)) = SumOf([c \in Client |-> o[c].count])
      /\ Productions!Total(Productions!Asked(o)) = SumOf([c \in Client |-> o[c].count])
  BY SameSums DEF Raws!Asked, Productions!Asked
<1>2. ASSUME FairTrade("raw", o, m, n) PROVE Raws!Fair(o, m, n)
  BY <1>1, <1>2, SameSums DEF FairTrade, InOrder, Ahead, Raws!Fair, Raws!Min, Min
<1>3. ASSUME FairTrade("prod", o, m, n) PROVE Productions!Fair(o, m, n)
  BY <1>1, <1>3, SameSums DEF FairTrade, InOrder, Ahead, Productions!Fair, Productions!Min, Min
<1> QED
  BY <1>2, <1>3

AuctionInv == TradeInv /\ DealInv

LEMMA DealTypes ==
  ASSUME TypeOK, NEW kind \in Kind
  PROVE  /\ deal.offered[kind] \in [Client -> Offer] /\ deal.traded[kind] \in [Client -> Nat]
         /\ deal.market[kind] \in Nat /\ left[kind] \in Nat
BY DEF TypeOK

\* No auction is open where no last turn is processed.
LEMMA NothingPending ==
  ASSUME phase' \notin {"raw", "prod"}
  PROVE  DealInv'
<1>1. \A kind \in Kind : ~Pending(kind)'
  BY DEF Pending
<1> QED
  BY <1>1 DEF DealInv

\* What the last turn begins with.
LEMMA CloseValues ==
  ASSUME TypeOK, CloseMonth, NEW kind \in Kind
  PROVE  /\ deal'.offered[kind] = [c \in Client |-> OfferOf(book[kind], c)]
         /\ deal'.traded[kind] = Nothing /\ deal'.market[kind] = left'[kind]
         /\ phase = "trade" /\ phase' = "raw" /\ UNCHANGED book
BY DEF CloseMonth, TypeOK

LEMMA DealCloseMonth ==
  ASSUME TradeInv, CloseMonth
  PROVE  DealInv'
<1> SUFFICES ASSUME NEW kind \in Kind
             PROVE  Dealing(kind, book'[kind], deal'.offered[kind], deal'.traded[kind],
                            deal'.market[kind], left'[kind])
  BY DEF DealInv
<1>1. TypeOK /\ TypeOK'
  BY TypeStep DEF TradeInv, TypeInv, Next
<1>2. PICK o, n, m, l :
        /\ o = deal'.offered[kind] /\ n = deal'.traded[kind]
        /\ m = deal'.market[kind] /\ l = left'[kind]
  OBVIOUS
<1>3. /\ \A c \in Client : o[c] = OfferOf(book[kind], c)
      /\ n = Nothing /\ m = l /\ book'[kind] = book[kind]
  BY <1>1, <1>2, CloseValues
<1>4. l \in Nat /\ \A c \in Client : n[c] = 0
  BY <1>1, <1>2, <1>3 DEF TypeOK, Nothing
<1>5. \A c \in Client : o[c].count \in Nat
  <2>1. book[kind] \in Seq(Group)
    BY BookTidy DEF TradeInv, TypeInv, Tidy
  <2> QED
    BY <1>3, <2>1, OfferType DEF Offer
<1>6. SumOf(n) + l = m
  BY <1>3, <1>4, SumNothing
<1>7. InOrder(kind, o, n)
  BY <1>4 DEF InOrder
<1>8. \A c \in Client :
       IF OfferOf(book'[kind], c).count > 0
       THEN OfferOf(book'[kind], c) = o[c] /\ n[c] = 0
       ELSE n[c] <= o[c].count /\ (l # 0 => n[c] = o[c].count)
  BY <1>3, <1>4, <1>5
<1> QED
  BY <1>2, <1>6, <1>7, <1>8 DEF Dealing

LEMMA DealServe ==
  ASSUME AuctionInv, NEW kind \in Kind, Serve(kind)
  PROVE  DealInv'
<1>1. TypeOK /\ phase = kind /\ phase' = phase /\ left[kind] # 0
  BY DEF Serve, AuctionInv, TradeInv, TypeInv
<1>2. PICK r \in Req :
        /\ OfferOf(book[kind], r.client) =
             [count |-> r.count, cost |-> book[kind][1].cost]
        /\ OfferOf(book'[kind], r.client) = NoOffer
        /\ \A d : d # r.client => OfferOf(book'[kind], d) = OfferOf(book[kind], d)
        /\ r.count > 0
        /\ \A d : OfferOf(book[kind], d).count > 0 =>
                 ~Ahead(kind, OfferOf(book[kind], d).cost, book[kind][1].cost)
        /\ left' = [left EXCEPT ![kind] = @ - Granted(kind, r.count)]
        /\ deal' = [deal EXCEPT !.traded[kind][r.client] = @ + Granted(kind, r.count)]
  BY ServeLists DEF AuctionInv, TradeInv
<1>3. PICK g : g = Granted(kind, r.count)
  OBVIOUS
<1>4. PICK n : n = [deal.traded[kind] EXCEPT ![r.client] = @ + g]
  OBVIOUS
<1>5. /\ deal'.offered[kind] = deal.offered[kind] /\ deal'.market[kind] = deal.market[kind]
      /\ deal'.traded[kind] = n /\ left'[kind] = left[kind] - g
  BY <1>1, <1>2, <1>3, <1>4 DEF TypeOK
<1>6. \A k \in Kind : k # kind =>
        /\ book'[k] = book[k] /\ left'[k] = left[k]
        /\ deal'.offered[k] = deal.offered[k] /\ deal'.market[k] = deal.market[k]
        /\ deal'.traded[k] = deal.traded[k]
  BY <1>1, <1>2 DEF TypeOK, Serve
<1>7. Dealing(kind, book'[kind], deal.offered[kind], n, deal.market[kind], left[kind] - g)
  <2>1. PICK b, e : b = OfferOf(book[kind], r.client) /\ e = r.client
    OBVIOUS
  <2>2. b.count = r.count /\ b.cost = book[kind][1].cost /\ e \in Client
    BY <1>2, <2>1 DEF Req
  <2>3. b \in Offer
    BY <2>1, BookTidy, OfferType DEF AuctionInv, TradeInv, TypeInv, Tidy
  <2>4. b.count \in Nat /\ left[kind] \in Nat
    BY <1>1, <2>3 DEF TypeOK, Offer
  <2>5. g \in Nat /\ g = IF left[kind] < b.count THEN left[kind] ELSE b.count
    BY <1>3, <2>2, <2>4 DEF Granted
  <2>6. Dealing(kind, book[kind], deal.offered[kind], deal.traded[kind],
                deal.market[kind], left[kind])
    BY <1>1 DEF AuctionInv, DealInv, Pending, Kind
  <2>7. /\ OfferOf(book[kind], e) = b /\ b.count > 0 /\ OfferOf(book'[kind], e) = NoOffer
        /\ \A d : d # e => OfferOf(book'[kind], d) = OfferOf(book[kind], d)
        /\ \A d : OfferOf(book[kind], d).count > 0 =>
                    ~Ahead(kind, OfferOf(book[kind], d).cost, b.cost)
    BY <1>2, <2>1, <2>2
  <2>8. n = [deal.traded[kind] EXCEPT ![e] = @ + g]
    BY <1>4, <2>1
  <2>9. /\ deal.offered[kind] \in [Client -> Offer] /\ deal.traded[kind] \in [Client -> Nat]
        /\ deal.market[kind] \in Nat /\ left[kind] \in Nat
    BY <1>1, DealTypes
  <2> QED
    BY ONLY <1>1, <2>2, <2>3, <2>5, <2>6, <2>7, <2>8, <2>9, kind \in Kind, ServeDealing
<1>8. \A k \in Kind : Pending(k)' <=> Pending(k)
  BY <1>1 DEF Pending
<1> QED
  BY <1>5, <1>6, <1>7, <1>8 DEF AuctionInv, DealInv

\* The auction of productions is as it was when the one of raws ends.
LEMMA DealEndAuction ==
  ASSUME AuctionInv, NEW kind \in Kind, EndAuction(kind)
  PROVE  DealInv'
<1>1. /\ phase = kind /\ phase' = IF kind = "raw" THEN "prod" ELSE "books"
      /\ UNCHANGED <<left, deal>>
  BY DEF EndAuction
<1>2. CASE kind = "prod"
  BY <1>1, <1>2, NothingPending
<1>3. CASE kind = "raw"
  <2>1. \A k \in Kind : Pending(k)' => k = "prod" /\ Pending(k)
    BY <1>1, <1>3 DEF Pending
  <2>2. book'["prod"] = book["prod"]
    BY <1>3 DEF EndAuction, AuctionInv, TradeInv, TypeInv, TypeOK, Kind
  <2> QED
    BY <1>1, <2>1, <2>2 DEF AuctionInv, DealInv
<1> QED
  BY <1>2, <1>3 DEF Kind

LEMMA DealStep == AuctionInv /\ [Next]_vars => DealInv'
<1> SUFFICES ASSUME AuctionInv, [Next]_vars PROVE DealInv'
  OBVIOUS
<1>1. CASE UNCHANGED vars
  BY <1>1 DEF vars, AuctionInv, DealInv, Pending
<1>2. CASE Lobby
  <2>1. phase' \in {"lobby", "trade"}
    BY <1>2 DEF Lobby, BeginRound, Connect, Join, Leave, Idle
  <2> QED
    BY <2>1, NothingPending
<1>3. CASE Command
  <2>1. phase' = "trade"
    BY <1>3 DEF Command, Buy, Sell, Request
  <2> QED
    BY <2>1, NothingPending
<1>4. CASE CloseMonth
  BY <1>4, DealCloseMonth DEF AuctionInv
<1>5. CASE NextStep
  <2>1. ASSUME NEW kind \in Kind, Serve(kind) PROVE DealInv'
    BY <2>1, DealServe
  <2>2. ASSUME NEW kind \in Kind, EndAuction(kind) PROVE DealInv'
    BY <2>2, DealEndAuction
  <2>3. ASSUME NEW made \in [Players -> Production], NEW bankrupt \in SUBSET Players,
               EndMonth(made, bankrupt)
        PROVE  DealInv'
    <3>1. phase' \in {"lobby", "trade"}
      BY <2>3 DEF EndMonth
    <3> QED
      BY <3>1, NothingPending
  <2> QED
    BY <1>5, <2>1, <2>2, <2>3 DEF NextStep
<1> QED
  BY <1>1, <1>2, <1>3, <1>4, <1>5 DEF Next

\* The inductive invariant of a month and its last turn.
THEOREM AuctionInductive == Spec => []AuctionInv
<1>1. Init => AuctionInv
  BY TradeInit DEF AuctionInv, DealInv, Init, Pending
<1>2. AuctionInv /\ [Next]_vars => AuctionInv'
  BY TradeStep, DealStep DEF AuctionInv
<1> QED
  BY <1>1, <1>2, PTL DEF Spec

-----------------------------------------------------------------------------
(* The auctions keep the promise                                           *)

\* A step as the promise knows it.
PromiseKept(kind) ==
  /\ UNCHANGED <<PromisedOffers(kind), PromisedMarket(kind), PromisedTrade(kind)>>

PromiseForget(kind) ==
  /\ PromisedOffers(kind)' = NoOffers
  /\ UNCHANGED <<PromisedMarket(kind), PromisedTrade(kind)>>

PromiseClose(kind) ==
  /\ PromisedMarket(kind)' = 0 /\ PromisedTrade(kind)' = Nothing
  /\ UNCHANGED PromisedOffers(kind)

PromiseTrade(kind) ==
  /\ PromisedMarket(kind)' \in Nat
  /\ FairTrade(kind, PromisedOffers(kind), PromisedMarket(kind)', PromisedTrade(kind)')
  /\ PromisedOffers(kind)' = NoOffers

PromiseAsk(kind, c) ==
  /\ PromisedOffers(kind)' = [PromisedOffers(kind) EXCEPT ![c] = PromisedOffers(kind)'[c]]
  /\ UNCHANGED <<PromisedMarket(kind), PromisedTrade(kind)>>

PromiseStep(kind) ==
  \/ PromiseKept(kind) \/ PromiseForget(kind) \/ PromiseClose(kind) \/ PromiseTrade(kind)
  \/ \E c \in Client : PromiseAsk(kind, c)

LEMMA NoOffersAlike ==
  NoOffers = Raws!NoOffers /\ NoOffers = Productions!NoOffers
  /\ Nothing = Raws!Nothing /\ Nothing = Productions!Nothing
BY DEF NoOffers, NoOffer, Nothing, Raws!NoOffers, Raws!Nothing, Productions!NoOffers,
       Productions!Nothing

LEMMA StepOfRaws == PromiseStep("raw") => [Raws!Next]_Raws!vars
<1>1. ASSUME PromiseKept("raw") PROVE UNCHANGED Raws!vars
  BY <1>1 DEF PromiseKept, Raws!vars
<1>2. ASSUME PromiseForget("raw") PROVE Raws!Forget
  BY <1>2, NoOffersAlike DEF PromiseForget, Raws!Forget
<1>3. ASSUME PromiseClose("raw") PROVE Raws!Close
  BY <1>3, NoOffersAlike DEF PromiseClose, Raws!Close
<1>4. ASSUME PromiseTrade("raw") PROVE Raws!Trade
  BY <1>4, NoOffersAlike, FairIsPromised DEF PromiseTrade, Raws!Trade
<1>5. ASSUME NEW c \in Client, PromiseAsk("raw", c) PROVE Raws!Ask(c)
  BY <1>5 DEF PromiseAsk, Raws!Ask
<1> QED
  BY <1>1, <1>2, <1>3, <1>4, <1>5 DEF PromiseStep, Raws!Next

LEMMA StepOfProductions == PromiseStep("prod") => [Productions!Next]_Productions!vars
<1>1. ASSUME PromiseKept("prod") PROVE UNCHANGED Productions!vars
  BY <1>1 DEF PromiseKept, Productions!vars
<1>2. ASSUME PromiseForget("prod") PROVE Productions!Forget
  BY <1>2, NoOffersAlike DEF PromiseForget, Productions!Forget
<1>3. ASSUME PromiseClose("prod") PROVE Productions!Close
  BY <1>3, NoOffersAlike DEF PromiseClose, Productions!Close
<1>4. ASSUME PromiseTrade("prod") PROVE Productions!Trade
  BY <1>4, NoOffersAlike, FairIsPromised DEF PromiseTrade, Productions!Trade
<1>5. ASSUME NEW c \in Client, PromiseAsk("prod", c) PROVE Productions!Ask(c)
  BY <1>5 DEF PromiseAsk, Productions!Ask
<1> QED
  BY <1>1, <1>2, <1>3, <1>4, <1>5 DEF PromiseStep, Productions!Next

\* The promise is about these fields only.
LEMMA KeptStep ==
  ASSUME NEW kind \in Kind, Pending(kind)' <=> Pending(kind),
         Pending(kind) => deal'.offered[kind] = deal.offered[kind],
         ~Pending(kind) => /\ book'[kind] = book[kind]
                           /\ deal'.market[kind] = deal.market[kind]
                           /\ deal'.traded[kind] = deal.traded[kind]
  PROVE  PromiseStep(kind)
<1>1. PromiseKept(kind)
  BY DEF PromiseKept, PromisedOffers, PromisedMarket, PromisedTrade
<1> QED
  BY <1>1 DEF PromiseStep

LEMMA PromiseBeginRound ==
  ASSUME NEW kind \in Kind, BeginRound
  PROVE  PromiseStep(kind)
<1>1. ~Pending(kind) /\ ~Pending(kind)' /\ UNCHANGED deal /\ book'[kind] = <<>>
  BY DEF BeginRound, Pending
<1>2. PromisedOffers(kind)' = NoOffers
  BY <1>1, NoOfferUnlisted DEF PromisedOffers, NoOffers
<1>3. PromiseForget(kind)
  BY <1>1, <1>2 DEF PromiseForget, PromisedMarket, PromisedTrade
<1> QED
  BY <1>3 DEF PromiseStep

\* do_cmd_buy() and do_cmd_sell() change what one client asks for.
LEMMA PromiseRequest ==
  ASSUME AuctionInv, NEW kind \in Kind, NEW k \in Kind, NEW c \in Client,
         NEW count \in 0 .. Word - 1, NEW cost \in Nat, phase = "trade", c \in Players,
         Request(k, c, count, cost)
  PROVE  PromiseStep(kind)
<1>1. ~Pending(kind) /\ ~Pending(kind)' /\ UNCHANGED deal
  BY DEF Request, Pending
<1>2. CASE k = kind
  <2>1. OfferOf(book[kind], c) = asked[kind][c]
    BY DEF AuctionInv, TradeInv, MonthInv
  <2>2. \A d : d # c => OfferOf(book'[kind], d) = OfferOf(book[kind], d)
    BY <1>2, <2>1, RequestLists DEF AuctionInv, TradeInv
  <2>3. /\ PromisedOffers(kind) = [d \in Client |-> OfferOf(book[kind], d)]
        /\ PromisedOffers(kind)' = [d \in Client |-> OfferOf(book'[kind], d)]
    BY <1>1 DEF PromisedOffers
  <2>4. PromiseAsk(kind, c)
    BY <1>1, <2>2, <2>3 DEF PromiseAsk, PromisedMarket, PromisedTrade
  <2> QED
    BY <2>4 DEF PromiseStep
<1>3. CASE k # kind
  <2>1. book'[kind] = book[kind]
    BY <1>3 DEF Request, AuctionInv, TradeInv, TypeInv, TypeOK
  <2> QED
    BY <1>1, <2>1, KeptStep
<1> QED
  BY <1>2, <1>3

LEMMA PromiseCloseMonth ==
  ASSUME AuctionInv, NEW kind \in Kind, CloseMonth
  PROVE  PromiseStep(kind)
<1>1. /\ deal'.offered[kind] = [c \in Client |-> OfferOf(book[kind], c)]
      /\ phase = "trade" /\ phase' = "raw"
  BY CloseValues DEF AuctionInv, TradeInv, TypeInv
<1>2. ~Pending(kind) /\ Pending(kind)'
  BY <1>1 DEF Pending
<1>3. PromiseClose(kind)
  BY <1>1, <1>2 DEF PromiseClose, PromisedOffers, PromisedMarket, PromisedTrade, Nothing
<1> QED
  BY <1>3 DEF PromiseStep

\* What an auction has done is not seen before it ends.
LEMMA PromiseServe ==
  ASSUME AuctionInv, NEW kind \in Kind, NEW k \in Kind, Serve(k)
  PROVE  PromiseStep(kind)
<1>1. phase = k /\ phase' = phase
  BY DEF Serve
<1>2. Pending(kind)' <=> Pending(kind)
  BY <1>1 DEF Pending
<1>3. TypeOK
  BY DEF AuctionInv, TradeInv, TypeInv
<1>4. PICK r \in Req :
        deal' = [deal EXCEPT !.traded[k][r.client] = @ + Granted(k, r.count)]
  BY ServeLists DEF AuctionInv, TradeInv
<1>5. /\ deal'.offered = deal.offered /\ deal'.market = deal.market
      /\ kind # k => deal'.traded[kind] = deal.traded[kind] /\ book'[kind] = book[kind]
  BY <1>3, <1>4 DEF TypeOK, Serve
<1>6. ~Pending(kind) => kind # k
  BY <1>1 DEF Pending, Kind
<1> QED
  BY <1>2, <1>5, <1>6, KeptStep

\* The auction of kind ends: it has traded as it promised.
LEMMA PromiseEndAuction ==
  ASSUME AuctionInv, NEW kind \in Kind, NEW k \in Kind, EndAuction(k)
  PROVE  PromiseStep(kind)
<1>1. /\ phase = k /\ phase' = IF k = "raw" THEN "prod" ELSE "books"
      /\ UNCHANGED <<left, deal>> /\ (left[k] = 0 \/ book[k] = <<>>)
  BY DEF EndAuction
<1>2. TypeOK
  BY DEF AuctionInv, TradeInv, TypeInv
<1>3. CASE kind = k
  <2>1. Pending(kind) /\ ~Pending(kind)' /\ book'[kind] = <<>>
    BY <1>1, <1>2, <1>3 DEF Pending, Kind, EndAuction, TypeOK
  <2>2. PromisedOffers(kind)' = NoOffers
    BY <2>1, NoOfferUnlisted DEF PromisedOffers, NoOffers
  <2>3. Dealing(kind, book[kind], deal.offered[kind], deal.traded[kind],
                deal.market[kind], left[kind])
    BY <2>1 DEF AuctionInv, DealInv
  <2>4. /\ deal.offered[kind] \in [Client -> Offer] /\ deal.traded[kind] \in [Client -> Nat]
        /\ deal.market[kind] \in Nat /\ left[kind] \in Nat
    BY <1>2, DealTypes
  <2>5. left[kind] = 0 \/ book[kind] = <<>>
    BY <1>1, <1>3
  <2>6. FairTrade(kind, deal.offered[kind], deal.market[kind], deal.traded[kind])
    BY ONLY <2>3, <2>4, <2>5, kind \in Kind, EndDealing
  <2>7. /\ PromisedOffers(kind) = deal.offered[kind]
        /\ PromisedMarket(kind)' = deal.market[kind]
        /\ PromisedTrade(kind)' = deal.traded[kind]
    BY <1>1, <2>1 DEF PromisedOffers, PromisedMarket, PromisedTrade
  <2>8. PromiseTrade(kind)
    BY <2>2, <2>4, <2>6, <2>7 DEF PromiseTrade
  <2> QED
    BY <2>8 DEF PromiseStep
<1>4. CASE kind # k
  <2>1. Pending(kind)' <=> Pending(kind)
    BY <1>1, <1>4 DEF Pending, Kind
  <2>2. book'[kind] = book[kind]
    BY <1>2, <1>4 DEF EndAuction, TypeOK
  <2> QED
    BY <1>1, <2>1, <2>2, KeptStep
<1> QED
  BY <1>3, <1>4

LEMMA PromiseEndMonth ==
  ASSUME NEW kind \in Kind, NEW made, NEW bankrupt, EndMonth(made, bankrupt)
  PROVE  PromiseStep(kind)
<1>1. /\ UNCHANGED book /\ deal' = NoDeal /\ phase = "books" /\ phase' \in {"lobby", "trade"}
  BY DEF EndMonth
<1>2. ~Pending(kind) /\ ~Pending(kind)'
  BY <1>1 DEF Pending
<1>3. NoDeal.market[kind] = 0 /\ NoDeal.traded[kind] = Nothing
  BY DEF NoDeal, NotCounting
<1>4. PromiseClose(kind)
  BY <1>1, <1>2, <1>3 DEF PromiseClose, PromisedOffers, PromisedMarket, PromisedTrade
<1> QED
  BY <1>4 DEF PromiseStep

LEMMA AuctionStep ==
  ASSUME AuctionInv, [Next]_vars, NEW kind \in Kind
  PROVE  PromiseStep(kind)
<1>1. CASE UNCHANGED vars
  <2>1. (Pending(kind)' <=> Pending(kind)) /\ UNCHANGED <<book, deal>>
    BY <1>1 DEF vars, Pending
  <2> QED
    BY <2>1, KeptStep
<1>2. CASE BeginRound
  BY <1>2, PromiseBeginRound
<1>3. ASSUME NEW c \in Client, Connect(c) \/ Join(c) \/ Leave(c) PROVE PromiseStep(kind)
  <2>1. /\ UNCHANGED <<book, deal>>
        /\ phase \in {"lobby", "trade"} /\ phase' \in {"lobby", "trade"}
    BY <1>3 DEF Connect, Join, Leave, Idle, books
  <2>2. ~Pending(kind) /\ ~Pending(kind)'
    BY <2>1 DEF Pending
  <2> QED
    BY <2>1, <2>2, KeptStep
<1>4. CASE Command
  <2>1. PICK c \in Client, count \in RequestCount :
          \/ \E cost \in BidCost : Buy(c, count, cost)
          \/ \E cost \in OfferCost : Sell(c, count, cost)
    BY <1>4 DEF Command
  <2>2. count \in 0 .. Word - 1 /\ BidCost \subseteq Nat /\ OfferCost \subseteq Nat
    BY AuctionAssumption
  <2>3. ASSUME NEW cost \in BidCost, Buy(c, count, cost) PROVE PromiseStep(kind)
    <3>1. /\ phase = "trade" /\ c \in Players /\ Request("raw", c, count, cost)
          /\ "raw" \in Kind /\ cost \in Nat
      BY <2>2, <2>3 DEF Buy, Players, Kind
    <3> QED
      BY <2>2, <3>1, PromiseRequest
  <2>4. ASSUME NEW cost \in OfferCost, Sell(c, count, cost) PROVE PromiseStep(kind)
    <3>1. /\ phase = "trade" /\ c \in Players /\ Request("prod", c, count, cost)
          /\ "prod" \in Kind /\ cost \in Nat
      BY <2>2, <2>4 DEF Sell, Players, Kind
    <3> QED
      BY <2>2, <3>1, PromiseRequest
  <2> QED
    BY <2>1, <2>3, <2>4
<1>5. CASE CloseMonth
  BY <1>5, PromiseCloseMonth
<1>6. CASE NextStep
  BY <1>6, PromiseServe, PromiseEndAuction, PromiseEndMonth DEF NextStep
<1> QED
  BY <1>1, <1>2, <1>3, <1>4, <1>5, <1>6 DEF Next, Lobby

LEMMA PromiseInit ==
  ASSUME Init, NEW kind \in Kind
  PROVE  /\ PromisedOffers(kind) = NoOffers /\ PromisedMarket(kind) = 0
         /\ PromisedTrade(kind) = Nothing
<1>1. ~Pending(kind) /\ book[kind] = <<>> /\ deal = NoDeal
  BY DEF Init, Pending
<1>2. NoDeal.market[kind] = 0 /\ NoDeal.traded[kind] = Nothing
  BY DEF NoDeal, NotCounting
<1> QED
  BY <1>1, <1>2, NoOfferUnlisted DEF PromisedOffers, PromisedMarket, PromisedTrade, NoOffers

\* "In the first place satisfy requests with *maximum* cost" (game.c:125).
THEOREM RawsAreFair == Spec => RawsFair
<1>1. Init => Raws!Init
  BY PromiseInit, NoOffersAlike DEF Raws!Init, Kind
<1>2. AuctionInv /\ [Next]_vars => [Raws!Next]_Raws!vars
  BY AuctionStep, StepOfRaws DEF Kind
<1> QED
  BY <1>1, <1>2, AuctionInductive, PTL DEF Spec, RawsFair, Raws!Spec

\* "In the first place satisfy offers with *minimum* cost" (game.c:137).
THEOREM ProductionsAreFair == Spec => ProductionsFair
<1>1. Init => Productions!Init
  BY PromiseInit, NoOffersAlike DEF Productions!Init, Kind
<1>2. AuctionInv /\ [Next]_vars => [Productions!Next]_Productions!vars
  BY AuctionStep, StepOfProductions DEF Kind
<1> QED
  BY <1>1, <1>2, AuctionInductive, PTL DEF Spec, ProductionsFair, Productions!Spec

=============================================================================
