SPECIFICATION FairSpec
CONSTANTS
  Handlers = {h1, h2}
  Rules = {r1}
  None = None
  Torn = Torn
  MaxWire = 2
  Budgets <- SomeBudgets
INVARIANTS AgentTypeOK LatestTogether InTurn
PROPERTIES Heals
CHECK_DEADLOCK FALSE
