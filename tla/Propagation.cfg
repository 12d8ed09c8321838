SPECIFICATION HFairSpec
CONSTANTS
  n1 = n1
  n2 = n2
  t1 = t1
  t2 = t2
  v1 = v1
  d1 = d1
  None = None
  Unnamed = Unnamed
  Nodes <- MCNodes
  Values = {v1}
  Dests = {d1}
  LastOverlay = 2
  FallbackOverlay = 2
  HistoryLimit = 2
  Threads <- TwoThreads
  Ops = {"register", "health", "getPlan", "policy"}
  Submissions <- KeyedForms
  Policies <- PathPolicies
  MaxRequests = 2
INVARIANTS RegistrationsPropagate
 
