SPECIFICATION Spec
CONSTANTS
  Client = {c1, c2}
  Word = 16
  RequestCount = {0, 2}
  BidCost = {800, 900}
  OfferCost = {4000, 4500}
  Production = {0, 1}
  MaxPlayersCount = 3
  MaxStock = 3
INVARIANTS
  TypeOK
  BooksOrdered
  BookMatchesAsked
  OffersCovered
PROPERTIES
  RawsFair
  ProductionsFair
  MonthCompletes
