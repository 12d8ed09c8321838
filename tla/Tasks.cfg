SPECIFICATION TaskFairSpec
CONSTANTS
  a1 = a1
  a2 = a2
  Agents <- OneAgent
  Tasks = {1}
  Requests <- SingleJobs
  FullLengths = {1, 2, 4, 8, 16}
  MaxConns = 2
  MaxUnread = 2
INVARIANTS TaskTypeOK StoredOnce
PROPERTIES StepsOnlyGrow TaskEnds
