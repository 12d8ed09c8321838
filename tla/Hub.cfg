SPECIFICATION HubFairSpec
CONSTANTS
  a1 = a1
  a2 = a2
  s1 = s1
  s2 = s2
  Agents <- TwoAgents
  Senders <- TwoSenders
  MaxDials = 3
  MaxSends = 2
INVARIANTS HubTypeOK EntryServed OpenIsRegistered InOrder
PROPERTIES FailedEntryLeaves
