SPECIFICATION MCSpec
CONSTANTS
  Spacing = 4
  CredSize = 1
  DataSizes = {2, 3}
  MaxSize = 5
  MaxSizeUnsched = 4
  MaxSizeCred = 3
  MaxTentCred = 1
  ShapingThresh = 0
  MaxAvailCred = 2
  CredTimeout = 7
  Hops = {1, 2}
  ProbHops <- MCProbHops
  ArrivalWindow = 9
  MaxCredits = 4
  MaxData = 2
INVARIANTS TypeOK OneWakeUp EventMeaning Conservation CreditPace IdleOnlyForToken WithinBounds
