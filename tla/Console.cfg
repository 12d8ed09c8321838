SPECIFICATION FairSpec
CONSTANTS
  n1 = n1
  n2 = n2
  n3 = n3
  b1 = b1
  b2 = b2
  Nodes <- Three
  Bases = {b1, b2}
  None = None
  Chosen = {n3}
  Hooks = {"nodes"}
  Scenarios <- SomeScenarios
INVARIANTS ConsoleTypeOK TokenOfBase LoadingHonest SavedOnce QuietMeansData
PROPERTIES OwnChoiceKept SpinnerEnds FeedSettles
CHECK_DEADLOCK FALSE
