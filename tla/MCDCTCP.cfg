SPECIFICATION MCFairSpec
CONSTANTS
  FlowSize = 10
  Mss = 3
  InitCwnd = 6
  MaxCwnd = 9
  NoThreshold = 18
  Slices = {0}
  NoSyn = {TRUE, FALSE}
  Bypasses = {TRUE, FALSE}
  MaxFaults = 2
  BoltCwnd = 6
  MaxSrcs = 3
INVARIANTS Inv RecoveryCanEnd AckedArrived
PROPERTIES Completes ImplementsTransfer
