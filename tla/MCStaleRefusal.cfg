SPECIFICATION Spec
CONSTANTS
  GameCounts <- MCGameCounts
  Multipliers <- MCMultipliers
  MaxTransientDynamicFailures = 2
  MaxDisturbances = 1
INVARIANTS RefusedSinceBoundary
