SPECIFICATION TaskSpec
CONSTANTS
  a1 = a1
  a2 = a2
  Agents <- TwoAgents
  Tasks = {1}
  Requests <- SharedJob
  FullLengths = {1, 2, 4, 8, 16}
  MaxConns = 1
  MaxUnread = 1
INVARIANTS StepsInOrder
SYMMETRY AgentsSymmetric
