SPECIFICATION Spec
CONSTANTS
  Word <- Word30
  OrderCount = {0, 2}
  Bought = {0, 1}
  RawCost = {500}
  ProdCost = {4500}
  MaxStep = 6
INVARIANTS
  RequestsCovered
  OrdersOnTheWay
  FactoriesPaid
