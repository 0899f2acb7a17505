SPECIFICATION NICFairSpec
CONSTANTS
  Spacing = 3
  CredSize = 1
  DataSizes = {3}
  MaxSize = 6
  MaxSizeUnsched = 3
  MaxSizeCred = 3
  MaxTentCred = 1
  ShapingThresh = 1
  MaxAvailCred = 2
  CredTimeout = 4
  Hops = {1}
  ProbHops <- MCProbHops
  ArrivalWindow = 6
  MaxCredits = 3
  MaxData = 1
  SliceTime <- MCSliceTime
  NSuperSlices = 1
  Dsts = {"far", "near"}
  SameRack = {"near"}
  PathHops <- MCPathHops
  CreditKinds <- MCCreditKinds
  DataKinds <- MCDataKinds
INVARIANTS NICInv RouteExists
PROPERTIES ShortestFirst Drains
