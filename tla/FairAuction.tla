---------------------------- MODULE FairAuction ----------------------------
(***************************************************************************)
(* What an auction promises the players ("help buy" and "help sell"): a    *)
(* limited count is traded, better costs first, and the market never       *)
(* leaves something untraded that was asked for.  One instance of this     *)
(* module speaks of raws and one of productions.                           *)
(***************************************************************************)
EXTENDS Integers, FiniteSetsExt

CONSTANTS
  Client,
  Better(_, _)  \* Better(a, b): cost a is served before cost b

VARIABLES
  offers,  \* what each client has asked for: a count, and a cost of one
  market,  \* the limit of the last auction
  got      \* what each client traded in it

vars == <<offers, market, got>>

Nothing == [c \in Client |-> 0]
NoOffers == [c \in Client |-> [count |-> 0, cost |-> 0]]

Total(f) == MapThenSumSet(LAMBDA c : f[c], Client)

Asked(o) == [c \in Client |-> o[c].count]

\* A trade that keeps the promise.
Fair(o, m, g) ==
  /\ \A c \in Client : g[c] \in 0 .. o[c].count
  /\ Total(g) = Min({m, Total(Asked(o))})
  /\ \A c, d \in Client :
       /\ g[d] > 0 /\ Better(o[c].cost, o[d].cost) => g[c] = o[c].count
       /\ g[c] \in 1 .. o[c].count - 1 /\ g[d] \in 1 .. o[d].count - 1 => c = d

Init == offers = NoOffers /\ market = 0 /\ got = Nothing

\* A client makes, changes or takes back its request.
Ask(c) ==
  /\ offers' = [offers EXCEPT ![c] = offers'[c]]
  /\ UNCHANGED <<market, got>>

\* A new round knows nothing of the requests of the last.
Forget == offers' = NoOffers /\ UNCHANGED <<market, got>>

\* The month is over, nothing is traded yet.
Close == market' = 0 /\ got' = Nothing /\ UNCHANGED offers

Trade ==
  /\ market' \in Nat
  /\ Fair(offers, market', got')
  /\ offers' = NoOffers

Next == Forget \/ Close \/ Trade \/ \E c \in Client : Ask(c)

Spec == Init /\ [][Next]_vars

=============================================================================
