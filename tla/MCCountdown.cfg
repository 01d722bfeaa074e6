SPECIFICATION CountdownSpec
CONSTANTS
  Client = {c1, c2}
  MaxClients = 2
  TimeBetween = 2
  WarningsBeforeRound = 2
  MaxPlayersCount = 3
  TicksPerSecond = 3
  ShortTicks = 1
INVARIANTS NeverEarly
PROPERTIES ImplementsRounds RequestsBecomeRound
