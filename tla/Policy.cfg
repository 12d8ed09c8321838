SPECIFICATION Spec
CONSTANTS
  n1 = n1
  n2 = n2
  n3 = n3
  Nodes <- ThreeNodes
  Values = {}
  Dests = {"d"}
  None = None
  LastOverlay = 1
  FallbackOverlay = 1
  Opened <- TwoDrawers
  Local = Local
  MaxMade <- SomeActs
  Vias <- SomeVias
  Paths <- SomePaths
INVARIANTS DrawerTypeOK OwnUnlessSlip UsableRules PathFollowed SelectorFaithful
SYMMETRY DrawersSymmetric
CHECK_DEADLOCK FALSE
