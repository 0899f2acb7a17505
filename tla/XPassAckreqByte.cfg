SPECIFICATION FairSpec
CONSTANTS
  FlowSizes = {5}
  Mss = 2
  InitCwnd = 4
  MaxCredits = 1
PROPERTIES Completes
