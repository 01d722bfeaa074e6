---------------------------- MODULE RequestBook ----------------------------
(***************************************************************************)
(* The lists of auction requests of auctions.c: a list of groups, one for  *)
(* each cost, each with the requests made at that cost.  sinfo->buy_raw    *)
(* (kind "raw") and sinfo->sell_prod (kind "prod") are such lists.         *)
(***************************************************************************)
EXTENDS Integers, SequencesExt

Kind == {"raw", "prod"}

\* Mutant of Ahead: bids are sorted as offers are.
MutBidsAsOffers(kind, a, b) == a < b

\* The order of the groups: the dearest bid, and the cheapest offer, first.
Ahead(kind, a, b) == IF kind = "raw" THEN a > b ELSE a < b

\* Mutant of SearchGroup: a group of the same cost is passed by.
MutPassEqual(kind, groups, cost) ==
  SelectInSeq(groups, LAMBDA g : Ahead(kind, cost, g.cost))

\* Where search_buy_raw_group() and search_sell_prod_group() stop: at the
\* first group that is not ahead of the cost; 0 is the end of the list.
SearchGroup(kind, groups, cost) ==
  SelectInSeq(groups, LAMBDA g : ~Ahead(kind, g.cost, cost))

\* add_buy_raw_request() and add_sell_prod_request(): the request becomes
\* the first of its group, which is made when the search has not found it.
AddRequest(kind, groups, cost, req) ==
  LET i     == SearchGroup(kind, groups, cost)
      group == [cost |-> cost, reqs |-> <<req>>]
  IN  IF i = 0 THEN Append(groups, group)
      ELSE IF groups[i].cost = cost
           THEN [groups EXCEPT ![i].reqs = <<req>> \o @]
           ELSE InsertAt(groups, i, group)

\* A request leaves its group, and an empty group the list: the tails of
\* free_request_in_group_by_client() and of get_request().
DropRequest(groups, i, j) ==
  IF Len(groups[i].reqs) = 1
  THEN RemoveAt(groups, i)
  ELSE [groups EXCEPT ![i].reqs = RemoveAt(@, j)]

\* free_request_by_client()
FreeRequest(groups, c) ==
  LET i == SelectInSeq(groups,
                       LAMBDA g : \E j \in DOMAIN g.reqs : g.reqs[j].client = c)
  IN  IF i = 0 THEN groups
      ELSE DropRequest(groups, i,
                       SelectInSeq(groups[i].reqs, LAMBDA r : r.client = c))

\* The values of get_random(n): n itself only when it is 0.
Draws(n) == IF n = 0 THEN {0} ELSE 0 .. n - 1

\* The places in the first group that get_request() may serve.
Servable(groups) == {k + 1 : k \in Draws(Len(groups[1].reqs) - 1)}

-----------------------------------------------------------------------------
(* What the lists are read as *)

NoOffer == [count |-> 0, cost |-> 0]

\* <<group, place>> of each request of c.
PlacesOf(groups, c) ==
  {p \in UNION {{i} \X DOMAIN groups[i].reqs : i \in DOMAIN groups} :
     groups[p[1]].reqs[p[2]].client = c}

\* The request of c, when it has one.
OfferOf(groups, c) ==
  IF PlacesOf(groups, c) = {} THEN NoOffer
  ELSE LET p == CHOOSE p \in PlacesOf(groups, c) : TRUE
       IN  [count |-> groups[p[1]].reqs[p[2]].count, cost |-> groups[p[1]].cost]

\* "buy_raw" and "sell_prod" are ordered strictly: no cost has two groups,
\* and no group is empty.
Ordered(kind, groups) ==
  /\ \A i \in DOMAIN groups : groups[i].reqs # <<>>
  /\ \A i, j \in DOMAIN groups :
       i < j => Ahead(kind, groups[i].cost, groups[j].cost)

=============================================================================
