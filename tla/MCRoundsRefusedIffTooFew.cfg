SPECIFICATION Spec
SYMMETRY Symmetry
CONSTANTS
  Client = {c1, c2, c3}
  MaxClients <- NoLimit
  TimeBetween = 1
  WarningsBeforeRound = 1
  MaxPlayersCount = 4
INVARIANTS
  RefusedIffTooFew
