SPECIFICATION HubSpec
CONSTANTS
  a1 = a1
  a2 = a2
  s1 = s1
  s2 = s2
  Agents <- OneAgent
  Senders <- OneSender
  MaxDials = 2
  MaxSends = 1
INVARIANTS ConnectedIsFound
