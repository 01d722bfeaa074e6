SPECIFICATION Spec
SYMMETRY Symmetry
CONSTANTS
  Client = {c1, c2, c3, c4}
  MaxClients = 4
  TimeBetween = 2
  WarningsBeforeRound = 2
  MaxPlayersCount = 5
INVARIANTS
  TypeOK
  PlayersOnlyInRound
  CountdownIffPossible
  RoundKeepsPlayers
  RegistryExact
  AnnouncedTimeHonest
  MonthStartsOpen
PROPERTIES
  RequestKept
  TurnNeverStalls
  CountdownNeverGrows
