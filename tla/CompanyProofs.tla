--------------------------- MODULE CompanyProofs ---------------------------
(***************************************************************************)
(* What module Company says of a company's books holds for every width of  *)
(* an int, every set of orders and every number of months.                 *)
(***************************************************************************)
EXTENDS Company, TLAPS

USE DEF START_MONEY, START_RAW_COUNT, START_PROD_COUNT, START_FACTORY_COUNT

\* What is left of a number by a word is in the word.
LEMMA Remainder == \A n \in Int : n % Word \in 0 .. Word - 1
BY CompanyAssumption

\* The counts that are requested against are there, and every count is in its
\* word: the part of the invariant the requests rest on.
CountsOK ==
  /\ step \in 0 .. MaxStep
  /\ raw_count \in 0 .. Word - 1 /\ prod_count \in 0 .. Word - 1
  /\ factory_count \in 0 .. Word - 1
  /\ make_prod_count \in 0 .. Word - 1 /\ sell_prod_count \in 0 .. Word - 1
  /\ build_factory_count \in 0 .. Word - 1
  /\ RequestsCovered

\* The ages of the factories on the way are those of their orders.
AgesOK ==
  /\ building \in [1 .. 4 -> Nat]
  /\ orders \in [1 .. MaxStep -> Nat]
  /\ OrdersOnTheWay

LEMMA InitCounts == Init => CountsOK
BY CompanyAssumption, WordAssumption DEF Init, CountsOK, RequestsCovered

LEMMA StepCounts == CountsOK /\ building \in [1 .. 4 -> Nat] /\ [Next]_vars => CountsOK'
<1> SUFFICES ASSUME CountsOK, building \in [1 .. 4 -> Nat], [Next]_vars PROVE CountsOK'
  OBVIOUS
<1> USE CompanyAssumption DEF CountsOK, RequestsCovered
<1>1. ASSUME NEW count \in OrderCount, Build(count) PROVE CountsOK'
  BY <1>1 DEF Build, stocks
<1>2. ASSUME NEW count \in OrderCount, Make(count) PROVE CountsOK'
  BY <1>2 DEF Make, stocks
<1>3. ASSUME NEW count \in OrderCount, Sell(count) PROVE CountsOK'
  BY <1>3 DEF Sell, stocks
<1>4. ASSUME NEW bought \in Bought, NEW rawCost, NEW sold \in OrderCount, NEW prodCost,
             EndMonth(bought, rawCost, sold, prodCost)
      PROVE  CountsOK'
  <2>1. /\ raw_count' = (raw_count + bought - make_prod_count) % Word
        /\ prod_count' = (prod_count - sold + make_prod_count) % Word
        /\ factory_count' = (factory_count + building[4]) % Word
        /\ step' = step + 1 /\ step < MaxStep
        /\ sold <= sell_prod_count
        /\ make_prod_count' = 0 /\ build_factory_count' = 0 /\ sell_prod_count' = 0
    BY <1>4 DEF EndMonth
  <2>2. bought \in Nat /\ sold \in Nat /\ building[4] \in Nat
    OBVIOUS
  <2>3. /\ (raw_count + bought - make_prod_count) \in Int
        /\ (prod_count - sold + make_prod_count) \in Int
        /\ (factory_count + building[4]) \in Int
    BY <2>2
  <2>4. /\ raw_count' \in 0 .. Word - 1 /\ prod_count' \in 0 .. Word - 1
        /\ factory_count' \in 0 .. Word - 1
    BY <2>1, <2>3, Remainder
  <2> QED
    BY <2>1, <2>4
<1>5. CASE UNCHANGED vars
  BY <1>5 DEF vars, stocks, requests
<1> QED
  BY <1>1, <1>2, <1>3, <1>4, <1>5 DEF Next

LEMMA InitAges == Init => AgesOK
BY CompanyAssumption DEF Init, AgesOK, OrdersOnTheWay, OrderedIn

\* An order becomes the youngest, and every other a month older.
LEMMA StepAges == CountsOK /\ AgesOK /\ [Next]_vars => AgesOK'
<1> SUFFICES ASSUME CountsOK, AgesOK, [Next]_vars PROVE AgesOK'
  OBVIOUS
<1> USE CompanyAssumption DEF CountsOK, AgesOK, OrdersOnTheWay, OrderedIn
<1>1. ASSUME NEW count \in OrderCount, Build(count) \/ Make(count) \/ Sell(count)
      PROVE  AgesOK'
  <2>1. UNCHANGED <<building, orders, step>>
    BY <1>1 DEF Build, Make, Sell, stocks, history
  <2> QED
    BY <2>1
<1>2. ASSUME NEW bought \in Bought, NEW rawCost, NEW sold \in OrderCount, NEW prodCost,
             EndMonth(bought, rawCost, sold, prodCost)
      PROVE  AgesOK'
  <2>1. /\ building' = Older(building)
        /\ step' = step + 1 /\ step < MaxStep
        /\ orders' = [orders EXCEPT ![step + 1] = build_factory_count]
    BY <1>2 DEF EndMonth
  <2>2. building' \in [1 .. 4 -> Nat] /\ orders' \in [1 .. MaxStep -> Nat]
    <3>1. \A age \in 1 .. 4 : age = 1 \/ age - 1 \in 1 .. 4
      OBVIOUS
    <3>2. Older(building) \in [1 .. 4 -> Nat]
      BY <3>1 DEF Older
    <3>3. [orders EXCEPT ![step + 1] = build_factory_count] \in [1 .. MaxStep -> Nat]
      <4>1. build_factory_count \in Nat
        OBVIOUS
      <4> HIDE DEF CountsOK
      <4> QED
        BY <4>1
    <3> QED
      BY <2>1, <3>2, <3>3
  <2>3. ASSUME NEW age \in 1 .. 4 PROVE building'[age] = OrderedIn(step + 1 - age)'
    <3>1. CASE age = 1
      BY <2>1, <3>1 DEF Older
    <3>2. CASE age # 1
      <4>1. age - 1 \in 1 .. 4 /\ building'[age] = building[age - 1]
        BY <2>1, <3>2 DEF Older
      <4>2. building[age - 1] = OrderedIn(step + 1 - (age - 1))
        BY <4>1
      <4>3. step + 1 - (age - 1) = step' + 1 - age /\ step + 1 - (age - 1) <= step
        BY <2>1, <3>2
      <4> QED
        BY <2>1, <4>1, <4>2, <4>3
    <3> QED
      BY <3>1, <3>2
  <2> QED
    BY <2>2, <2>3
<1>3. CASE UNCHANGED vars
  <2>1. UNCHANGED <<building, orders, step>>
    BY <1>3 DEF vars, stocks, history
  <2> QED
    BY <2>1
<1> QED
  BY <1>1, <1>2, <1>3 DEF Next

LEMMA CompanyInvariant == Spec => [](CountsOK /\ AgesOK)
<1>1. Init => CountsOK /\ AgesOK
  BY InitCounts, InitAges
<1>2. CountsOK /\ AgesOK /\ [Next]_vars => CountsOK' /\ AgesOK'
  BY StepCounts, StepAges DEF AgesOK
<1> QED
  BY <1>1, <1>2, PTL DEF Spec

LEMMA SignedInWord == \A n \in Int : Signed(n) \in - (Word \div 2) .. Word - 1 - Word \div 2
<1> SUFFICES ASSUME NEW n \in Int
             PROVE  Signed(n) \in - (Word \div 2) .. Word - 1 - Word \div 2
  OBVIOUS
<1>1. Word \div 2 \in Nat
  BY CompanyAssumption
<1>2. (n + Word \div 2) % Word \in 0 .. Word - 1
  BY <1>1, Remainder
<1> QED
  BY <1>1, <1>2, CompanyAssumption DEF Signed

LEMMA InitTypes == Init => TypeOK
BY CompanyAssumption, WordAssumption DEF Init, TypeOK

\* What a month's end adds to money, the payments for factories aside.
Income(bought, rawCost, sold, prodCost) ==
  sold * prodCost - bought * rawCost - make_prod_count * MAKE_PROD_COST
  - Expenses(raw_count', prod_count', factory_count')

LEMMA MoneyOfMonth ==
  ASSUME NEW bought, NEW rawCost, NEW sold, NEW prodCost,
         EndMonth(bought, rawCost, sold, prodCost)
  PROVE  /\ money' = Signed(money + Income(bought, rawCost, sold, prodCost)
                             - FactoryPayments(building'))
         /\ earned' = earned + Income(bought, rawCost, sold, prodCost)
BY Zenon DEF EndMonth, Income

LEMMA IncomeType ==
  ASSUME CountsOK, CountsOK', NEW bought \in Bought, NEW rawCost \in RawCost,
         NEW sold \in OrderCount, NEW prodCost \in ProdCost
  PROVE  Income(bought, rawCost, sold, prodCost) \in Int
<1>1. Expenses(raw_count', prod_count', factory_count') \in Int
  BY DEF CountsOK, Expenses, RAW_EXPENSES, PROD_EXPENSES, FACTORY_EXPENSES
<1>2. bought * rawCost \in Int /\ sold * prodCost \in Int
  BY CompanyAssumption
<1>3. make_prod_count * MAKE_PROD_COST \in Int
  BY DEF CountsOK, MAKE_PROD_COST
<1> QED
  BY <1>1, <1>2, <1>3 DEF Income

LEMMA StepTypes == CountsOK /\ AgesOK /\ TypeOK /\ [Next]_vars => TypeOK'
<1> SUFFICES ASSUME CountsOK, AgesOK, TypeOK, [Next]_vars PROVE TypeOK'
  OBVIOUS
<1> USE CompanyAssumption
<1>0. CountsOK'
  BY StepCounts DEF AgesOK
<1>1. ASSUME NEW count \in OrderCount, Build(count) \/ Make(count) \/ Sell(count)
      PROVE  TypeOK'
  <2>1. UNCHANGED <<step, stocks, history>>
    BY <1>1 DEF Build, Make, Sell
  <2>2. build_factory_count' \in 0 .. Word - 1
    <3>1. count \in 0 .. Word - 1
      OBVIOUS
    <3> QED
      BY <1>1, <3>1 DEF Build, Make, Sell, TypeOK
  <2> QED
    BY <1>0, <2>1, <2>2 DEF stocks, history, TypeOK, CountsOK
<1>2. ASSUME NEW bought \in Bought, NEW rawCost \in RawCost, NEW sold \in OrderCount,
             NEW prodCost \in ProdCost, EndMonth(bought, rawCost, sold, prodCost)
      PROVE  TypeOK'
  <2>1. building' \in [1 .. 4 -> 0 .. Word - 1]
    <3>1. \A age \in 1 .. 4 : age = 1 \/ age - 1 \in 1 .. 4
      OBVIOUS
    <3> QED
      BY <1>2, <3>1 DEF EndMonth, Older, TypeOK
  <2>2. orders' \in [1 .. MaxStep -> 0 .. Word - 1]
    BY <1>2 DEF EndMonth, TypeOK
  <2>3. Income(bought, rawCost, sold, prodCost) \in Int
    BY <1>0, IncomeType
  <2>4. FactoryPayments(building') \in Nat
    BY <2>1 DEF FactoryPayments, MAKE_FACTORY_FIRST_HALF, MAKE_FACTORY_SECOND_HALF
  <2>5. money' \in - (Word \div 2) .. Word - 1 - Word \div 2
    <3>1. money \in Int
      BY DEF TypeOK
    <3>2. PICK n \in Int :
            n = money + Income(bought, rawCost, sold, prodCost) - FactoryPayments(building')
      BY <2>3, <2>4, <3>1
    <3>3. money' = Signed(n)
      BY <1>2, <3>2, MoneyOfMonth
    <3> QED
      BY <3>2, <3>3, SignedInWord
  <2>6. earned' \in Int
    <3>1. earned \in Int
      BY DEF TypeOK
    <3>2. earned' = earned + Income(bought, rawCost, sold, prodCost)
      BY <1>2, MoneyOfMonth
    <3> HIDE CompanyAssumption
    <3> QED
      BY <2>3, <3>1, <3>2
  <2> HIDE CompanyAssumption
  <2> QED
    BY <1>0, <2>1, <2>2, <2>5, <2>6 DEF TypeOK, CountsOK
<1>3. CASE UNCHANGED vars
  BY <1>3 DEF vars, stocks, requests, history, TypeOK
<1> QED
  BY <1>1, <1>2, <1>3 DEF Next

\* Every count stays in its word, and money in the range of an int.
LEMMA TypeCorrect == Spec => []TypeOK
<1>1. CountsOK /\ AgesOK /\ TypeOK /\ [Next]_vars => TypeOK'
  BY StepTypes
<1> QED
  BY <1>1, InitTypes, CompanyInvariant, PTL DEF Spec

\* Whatever was ordered in a month can be carried out at its end.
THEOREM RequestsAreCovered == Spec => []RequestsCovered
<1>1. CountsOK /\ AgesOK => RequestsCovered
  BY DEF CountsOK
<1> QED
  BY <1>1, CompanyInvariant, PTL

\* No order of factories is lost, doubled or overtaken on its way.
THEOREM OrdersKeepTheirAge == Spec => []OrdersOnTheWay
<1>1. CountsOK /\ AgesOK => OrdersOnTheWay
  BY DEF AgesOK
<1> QED
  BY <1>1, CompanyInvariant, PTL

-----------------------------------------------------------------------------
(* What the factories have cost                                            *)

USE DEF MAKE_FACTORY_FIRST_HALF, MAKE_FACTORY_SECOND_HALF

CompanyInv == CountsOK /\ AgesOK /\ TypeOK

LEMMA BuildingTypes ==
  ASSUME TypeOK
  PROVE  /\ building[1] \in Nat /\ building[2] \in Nat
         /\ building[3] \in Nat /\ building[4] \in Nat
         /\ build_factory_count \in Nat /\ factory_count \in Nat
         /\ money \in Int /\ earned \in Int /\ Due \in Int
<1>1. /\ building[1] \in Nat /\ building[2] \in Nat
      /\ building[3] \in Nat /\ building[4] \in Nat
      /\ build_factory_count \in Nat /\ factory_count \in Nat
  BY CompanyAssumption DEF TypeOK
<1>2. money \in Int /\ earned \in Int
  BY DEF TypeOK
<1>3. Due \in Int
  BY <1>1 DEF Due
<1> QED
  BY <1>1, <1>2, <1>3

\* Division by a word, of any number
LEMMA WordDivision ==
  \A n \in Int : n \div Word \in Int /\ n = (n \div Word) * Word + (n % Word)
BY CompanyAssumption

\* What is left by a word is one number.
LEMMA OneRemainder ==
  ASSUME NEW n \in Int, NEW k \in Int, NEW r \in 0 .. Word - 1, n = k * Word + r
  PROVE  n % Word = r
<1>1. PICK q \in Int, s \in 0 .. Word - 1 : n = q * Word + s /\ s = n % Word
  BY WordDivision, Remainder
<1>2. Word \in Nat \ {0}
  BY CompanyAssumption
<1>3. CASE q < k
  <2>1. PICK d \in Nat : k = q + 1 + d
    BY <1>3
  <2>2. k * Word = q * Word + Word + d * Word /\ d * Word \in Nat
    BY <1>2, <2>1
  <2> QED
    BY <1>1, <1>2, <2>2
<1>4. CASE k < q
  <2>1. PICK d \in Nat : q = k + 1 + d
    BY <1>4
  <2>2. q * Word = k * Word + Word + d * Word /\ d * Word \in Nat
    BY <1>2, <2>1
  <2> QED
    BY <1>1, <1>2, <2>2
<1>5. CASE q = k
  BY <1>1, <1>2, <1>5
<1> QED
  BY <1>3, <1>4, <1>5

\* A number of words more or less is the same int.
LEMMA SignedShift == \A n, k \in Int : Signed(n + k * Word) = Signed(n)
<1> SUFFICES ASSUME NEW n \in Int, NEW k \in Int PROVE Signed(n + k * Word) = Signed(n)
  OBVIOUS
<1>1. PICK m \in Int : m = n + Word \div 2
  BY CompanyAssumption
<1>2. PICK w \in Int : w = k * Word
  BY CompanyAssumption
<1>3. (m + w) % Word = m % Word
  <2>1. PICK q \in Int : m = q * Word + (m % Word)
    BY WordDivision
  <2>2. m + w = (q + k) * Word + (m % Word)
    <3>1. (q + k) * Word = q * Word + k * Word
      BY CompanyAssumption
    <3>2. m % Word \in Int /\ q * Word \in Int
      BY Remainder, CompanyAssumption
    <3> QED
      BY <1>2, <2>1, <3>1, <3>2
  <2> QED
    BY <2>2, Remainder, OneRemainder
<1>4. n + w + Word \div 2 = m + w
  BY <1>1, CompanyAssumption
<1> QED
  BY <1>1, <1>2, <1>3, <1>4 DEF Signed

\* The int of a number is some words away from it.
LEMMA SignedWords == \A n \in Int : \E k \in Int : Signed(n) = n + k * Word
<1> SUFFICES ASSUME NEW n \in Int PROVE \E k \in Int : Signed(n) = n + k * Word
  OBVIOUS
<1>1. PICK h \in Int : h = Word \div 2
  BY CompanyAssumption
<1>2. PICK q \in Int : n + h = q * Word + ((n + h) % Word)
  BY WordDivision
<1>3. (- q) * Word = - (q * Word) /\ q * Word \in Int /\ (n + h) % Word \in Int
  BY CompanyAssumption, Remainder
<1>4. Signed(n) = n + (- q) * Word
  BY <1>1, <1>2, <1>3 DEF Signed
<1> QED
  BY <1>4

\* What a month's end does with the factories: their cost grows by the two
\* payments, but for the words factory_count leaves out.
LEMMA DueOfMonth ==
  ASSUME TypeOK, NEW bought, NEW rawCost, NEW sold, NEW prodCost,
         EndMonth(bought, rawCost, sold, prodCost)
  PROVE  /\ FactoryPayments(building') \in Int
         /\ \E k \in Int : Due' = Due + FactoryPayments(building') + k * Word
<1>1. building' = Older(building) /\ factory_count' = (factory_count + building[4]) % Word
  BY DEF EndMonth
<1>2. /\ building'[1] = build_factory_count /\ building'[2] = building[1]
      /\ building'[3] = building[2] /\ building'[4] = building[3]
  BY <1>1 DEF Older
<1>3. FactoryPayments(building') = 2500 * build_factory_count + 2500 * building[3]
  BY <1>2, BuildingTypes DEF FactoryPayments
<1>4. PICK q \in Int : factory_count' = factory_count + building[4] + q * Word
  <2>1. PICK m \in Int : m = factory_count + building[4]
    BY BuildingTypes
  <2>2. PICK q \in Int : m = q * Word + (m % Word)
    BY WordDivision
  <2>3. (- q) * Word = - (q * Word) /\ q * Word \in Int /\ m % Word \in Int
    BY CompanyAssumption, Remainder
  <2>4. m % Word = m + (- q) * Word
    BY <2>2, <2>3
  <2> QED
    BY <1>1, <2>1, <2>4
<1>5. PICK w \in Int : w = q * Word
  BY CompanyAssumption
<1>6. Due' = Due + FactoryPayments(building') + 5000 * w
  <2>1. PICK a \in Nat, b \in Nat, c \in Nat, d \in Nat, new \in Nat, f \in Nat :
          /\ a = building[1] /\ b = building[2] /\ c = building[3] /\ d = building[4]
          /\ new = build_factory_count /\ f = factory_count
    BY BuildingTypes
  <2>2. Due = 2500 * (a + b + c) + 5000 * (d + f - 2)
    BY <2>1 DEF Due
  <2>3. building'[1] = new /\ building'[2] = a /\ building'[3] = b /\ building'[4] = c
    BY <1>2, <2>1
  <2>4. factory_count' = f + d + w
    BY <1>4, <1>5, <2>1
  <2>5. Due' = 2500 * (new + a + b) + 5000 * (c + (f + d + w) - 2)
    BY <2>3, <2>4 DEF Due
  <2>6. FactoryPayments(building') = 2500 * new + 2500 * c
    BY <1>3, <2>1
  <2> QED
    BY <2>2, <2>5, <2>6
<1>7. 5000 * w = (5000 * q) * Word
  BY <1>5, CompanyAssumption
<1> QED
  BY <1>3, <1>6, <1>7, BuildingTypes

LEMMA StepPaid == CompanyInv /\ FactoriesPaid /\ [Next]_vars => FactoriesPaid'
<1> SUFFICES ASSUME CompanyInv, FactoriesPaid, [Next]_vars PROVE FactoriesPaid'
  OBVIOUS
<1>0. TypeOK
  BY DEF CompanyInv
<1>1. ASSUME NEW count \in OrderCount, Build(count) \/ Make(count) \/ Sell(count)
      PROVE  FactoriesPaid'
  <2>1. UNCHANGED <<money, building, factory_count, earned>>
    BY <1>1 DEF Build, Make, Sell, stocks, history
  <2> QED
    BY <2>1 DEF FactoriesPaid, Due
<1>2. ASSUME NEW bought \in Bought, NEW rawCost \in RawCost, NEW sold \in OrderCount,
             NEW prodCost \in ProdCost, EndMonth(bought, rawCost, sold, prodCost)
      PROVE  FactoriesPaid'
  <2> DEFINE income == Income(bought, rawCost, sold, prodCost)
             paid == FactoryPayments(building')
             left == START_MONEY + earned - Due
  <2>1. money' = Signed(money + income - paid) /\ earned' = earned + income
    BY <1>2, MoneyOfMonth
  <2>3. income \in Int /\ paid \in Int /\ left \in Int
    <3>1. CountsOK /\ CountsOK'
      BY StepCounts DEF CompanyInv, AgesOK
    <3> QED
      BY <1>0, <1>2, <3>1, DueOfMonth, IncomeType, BuildingTypes
  <2>4. PICK k \in Int : Due' = Due + paid + k * Word
    BY <1>0, <1>2, DueOfMonth
  <2>5. PICK l \in Int : money = left + l * Word
    BY <2>3, SignedWords DEF FactoriesPaid
  <2> HIDE DEF income, paid
  <2>6. PICK v \in Int, w \in Int : v = k * Word /\ w = l * Word
    BY CompanyAssumption
  <2>7. money + income - paid = (START_MONEY + earned' - Due') + (v + w)
    BY <1>0, <2>1, <2>3, <2>4, <2>5, <2>6, BuildingTypes
  <2>8. v + w = (k + l) * Word
    BY <2>6, CompanyAssumption
  <2>9. START_MONEY + earned' - Due' \in Int
    BY <1>0, <2>1, <2>3, <2>4, <2>6, BuildingTypes
  <2> QED
    BY <2>1, <2>7, <2>8, <2>9, SignedShift DEF FactoriesPaid
<1>3. CASE UNCHANGED vars
  BY <1>3 DEF vars, stocks, history, FactoriesPaid, Due
<1> QED
  BY <1>1, <1>2, <1>3 DEF Next

\* Money is what a company began with and earned less the cost of its
\* factories, whatever is ordered: even when a payment is more than an int
\* holds, or the unsigned factory_count wraps around.
THEOREM FactoriesArePaid == Spec => []FactoriesPaid
<1>1. Init => FactoriesPaid
  BY CompanyAssumption, WordAssumption DEF Init, FactoriesPaid, Due, Signed
<1>2. CompanyInv /\ FactoriesPaid /\ [Next]_vars => FactoriesPaid'
  BY StepPaid
<1> QED
  BY <1>1, <1>2, CompanyInvariant, TypeCorrect, PTL DEF Spec, CompanyInv

=============================================================================
