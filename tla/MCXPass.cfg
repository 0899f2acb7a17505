SPECIFICATION MCFairSpec
CONSTANTS
  FlowSizes = {1, 3, 4, 6, 7, 9}
  Mss = 2
  InitCwnd = 4
  MaxCredits = 2
INVARIANTS Inv OneCreditLoop NothingLost
PROPERTIES EachImplementsTransfer EachCompletes
