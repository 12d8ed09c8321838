SPECIFICATION Spec
CONSTANTS
  Handlers = {h1, h2}
  Rules = {r1}
  None = None
  Torn = Torn
  MaxWire = 2
  Budgets <- OnePolicy
PROPERTIES PolicyApplied
CHECK_DEADLOCK FALSE
