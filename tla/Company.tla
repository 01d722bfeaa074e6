------------------------------ MODULE Company ------------------------------
(***************************************************************************)
(* The books of one company (the game data of client_info): the orders of  *)
(* its player, and what the end of a month does with them (do_cmd_build(), *)
(* do_cmd_make(), and the loop of game_process_next_step()).               *)
(*                                                                         *)
(* The auctions are module Auction: all a company sees of them is how much *)
(* it bought, and how much of what it offered it sold.                     *)
(***************************************************************************)
EXTENDS Integers

CONSTANTS
  Word,        \* unsigned int is arithmetic modulo Word, int its signed half
  OrderCount,  \* the counts in "build", "make" and "sell"
  Bought,      \* the raws a company may get in one auction
  RawCost,     \* the costs at which it may get them
  ProdCost,    \* the costs at which it may sell productions
  MaxStep      \* the bound of this model on sinfo->step

ASSUME CompanyAssumption ==
  /\ Word \in Nat \ {0}
  /\ OrderCount \subseteq Nat /\ \A n \in OrderCount : n < Word
  /\ Bought \subseteq Nat
  /\ RawCost \subseteq Nat /\ ProdCost \subseteq Nat
  /\ MaxStep \in Nat

START_MONEY == 10000

START_RAW_COUNT == 4
START_PROD_COUNT == 2
START_FACTORY_COUNT == 2
RAW_EXPENSES == 300
PROD_EXPENSES == 500
FACTORY_EXPENSES == 1000
MAKE_FACTORY_FIRST_HALF == 2500
MAKE_FACTORY_SECOND_HALF == 2500
MAKE_PROD_COST == 2000

ASSUME WordAssumption == 2 * START_MONEY < Word

VARIABLES
  step,                 \* sinfo->step
  money, raw_count, prod_count, factory_count,
  make_prod_count,      \* what is to be made at the end of the month
  build_factory_count,  \* the factories ordered this month
  sell_prod_count,      \* the productions offered this month
  building,             \* building_factory_1 .. building_factory_4
  orders,               \* history: the factories ordered in each month past
  earned                \* history: what all else has changed money by, exactly

stocks == <<money, raw_count, prod_count, factory_count, building>>
requests == <<make_prod_count, build_factory_count, sell_prod_count>>
history == <<orders, earned>>
vars == <<step, stocks, requests, history>>

\* The int whose bits are those of n modulo Word.
Signed(n) == ((n + Word \div 2) % Word) - Word \div 2

Init ==
  /\ step = 0
  /\ money = START_MONEY
  /\ raw_count = START_RAW_COUNT
  /\ prod_count = START_PROD_COUNT
  /\ factory_count = START_FACTORY_COUNT
  /\ make_prod_count = 0 /\ build_factory_count = 0 /\ sell_prod_count = 0
  /\ building = [age \in 1 .. 4 |-> 0]
  /\ orders = [month \in 1 .. MaxStep |-> 0]
  /\ earned = 0

-----------------------------------------------------------------------------
(* Commands *)

\* do_cmd_build(): any count goes, the money is not looked at.
Build(count) ==
  /\ build_factory_count' = count
  /\ UNCHANGED <<step, stocks, make_prod_count, sell_prod_count, history>>

\* Mutant of Make: only the factories are counted.
MutMakeFromNothing(count) ==
  /\ count <= factory_count
  /\ make_prod_count' = count
  /\ UNCHANGED <<step, stocks, build_factory_count, sell_prod_count, history>>

\* do_cmd_make(); a rejected request changes nothing.
Make(count) ==
  /\ count <= factory_count
  /\ count <= raw_count
  /\ make_prod_count' = count
  /\ UNCHANGED <<step, stocks, build_factory_count, sell_prod_count, history>>

\* do_cmd_sell(), when the market and the cost allow the offer.
Sell(count) ==
  /\ count <= prod_count
  /\ sell_prod_count' = count
  /\ UNCHANGED <<step, stocks, make_prod_count, build_factory_count, history>>

-----------------------------------------------------------------------------
(* The end of a month *)

\* Mutant of Older: the second year of building is left out.
MutOlderByTwo(b) ==
  [age \in 1 .. 4 |-> CASE age = 1 -> build_factory_count
                        [] age = 2 -> b[1]
                        [] age = 3 -> b[2]
                        [] age = 4 -> b[2]]

\* The factories in building are a month older, the new ones begin.
Older(b) == [age \in 1 .. 4 |-> IF age = 1 THEN build_factory_count ELSE b[age - 1]]

\* Mutant of FactoryPayments: the second half is asked for a month early.
MutPaySecondEarly(b) ==
  b[1] * MAKE_FACTORY_FIRST_HALF + b[3] * MAKE_FACTORY_SECOND_HALF

\* The two payments of grant_build_factories_request(), b is building after
\* the shift.
FactoryPayments(b) ==
  b[1] * MAKE_FACTORY_FIRST_HALF + b[4] * MAKE_FACTORY_SECOND_HALF

\* after_step_expenses()
Expenses(raws, prods, factories) ==
  raws * RAW_EXPENSES + prods * PROD_EXPENSES + factories * FACTORY_EXPENSES

(***************************************************************************)
(* The month's end for this company: make_auction_request() when it got    *)
(* raws or sold productions, then flush_auction_auxiliary_info(),          *)
(* grant_make_prod_request(), grant_build_factories_request() and          *)
(* after_step_expenses().  VAR_CHANGE adds to an unsigned count modulo     *)
(* Word.  Each of them changes money modulo Word, which is the same as     *)
(* changing it once.                                                       *)
(***************************************************************************)
EndMonth(bought, rawCost, sold, prodCost) ==
  /\ step < MaxStep
  /\ sold <= sell_prod_count
  /\ step' = step + 1
  /\ raw_count' = (raw_count + bought - make_prod_count) % Word
  /\ prod_count' = (prod_count - sold + make_prod_count) % Word
  /\ factory_count' = (factory_count + building[4]) % Word
  /\ building' = Older(building)
  /\ LET income == sold * prodCost - bought * rawCost
                     - make_prod_count * MAKE_PROD_COST
                     - Expenses(raw_count', prod_count', factory_count')
     IN  /\ money' = Signed(money + income - FactoryPayments(building'))
         /\ earned' = earned + income
  /\ make_prod_count' = 0 /\ build_factory_count' = 0 /\ sell_prod_count' = 0
  /\ orders' = [orders EXCEPT ![step + 1] = build_factory_count]

-----------------------------------------------------------------------------
Next ==
  \/ \E count \in OrderCount : Build(count) \/ Make(count) \/ Sell(count)
  \/ \E bought \in Bought, rawCost \in RawCost, sold \in OrderCount, prodCost \in ProdCost :
       EndMonth(bought, rawCost, sold, prodCost)

Spec == Init /\ [][Next]_vars

-----------------------------------------------------------------------------
(* What a step leaves true *)

\* Every field keeps its type.
TypeOK ==
  /\ step \in 0 .. MaxStep
  /\ money \in - (Word \div 2) .. Word - 1 - Word \div 2
  /\ {raw_count, prod_count, factory_count} \subseteq 0 .. Word - 1
  /\ {make_prod_count, build_factory_count, sell_prod_count} \subseteq 0 .. Word - 1
  /\ building \in [1 .. 4 -> 0 .. Word - 1]
  /\ orders \in [1 .. MaxStep -> 0 .. Word - 1]
  /\ earned \in Int

\* What was asked for during the month can be done at its end, though it was
\* only looked at when it was asked for: the raws and the productions are
\* still there after the auctions, and there is a factory for each
\* production.
RequestsCovered ==
  /\ make_prod_count <= raw_count
  /\ make_prod_count <= factory_count
  /\ sell_prod_count <= prod_count

\* The factories ordered in that month, 0 before the first.
OrderedIn(month) == IF month \in 1 .. step THEN orders[month] ELSE 0

\* An order made in a month is building_factory_1 after it, one age older
\* after each month that follows, and at work after the fifth month's end:
\* no order is lost, doubled or overtaken.
OrdersOnTheWay ==
  \A age \in 1 .. 4 : building[age] = OrderedIn(step + 1 - age)

\* The cost of the factories there are: the first half of those that are
\* younger than four months, both halves of those that are to be ready at the
\* next month's end and of those at work, the two of the beginning excepted.
Due ==
    MAKE_FACTORY_FIRST_HALF * (building[1] + building[2] + building[3])
  + (MAKE_FACTORY_FIRST_HALF + MAKE_FACTORY_SECOND_HALF)
      * (building[4] + factory_count - START_FACTORY_COUNT)

\* What a company has is what it began with and earned, less the cost of its
\* factories, in the arithmetic of an int: over all its months no payment is
\* left out, made twice or made in another month than its order's first and
\* fourth.
FactoriesPaid == money = Signed(START_MONEY + earned - Due)

=============================================================================
