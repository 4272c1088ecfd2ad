SPECIFICATION Spec
CONSTANTS
  GameCounts <- MCGameCounts
  Multipliers <- MCMultipliers
  MaxTransientDynamicFailures = 2
  MaxDisturbances = 0
INVARIANTS ActiveIsDynamic
