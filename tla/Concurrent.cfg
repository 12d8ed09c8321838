SPECIFICATION HSpec
CONSTANTS
  n1 = n1
  n2 = n2
  t1 = t1
  t2 = t2
  v1 = v1
  d1 = d1
  None = None
  Unnamed = Unnamed
  Nodes <- OneNode
  Values = {v1}
  Dests = {d1}
  LastOverlay = 2
  FallbackOverlay = 2
  HistoryLimit = 2
  Threads <- TwoThreads
  Ops = {"register", "health", "getPlan", "rollback"}
  Submissions <- KeyedForms
  Policies <- NoPolicies
  MaxRequests = 4
INVARIANTS TypeOK CurrentPlanInHistory PushedIsCurrent
PROPERTIES ImplementsPlanLog
SYMMETRY ThreadsSymmetric
