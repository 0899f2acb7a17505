SPECIFICATION MCFairSpec
CONSTANTS
  FlowPackets = 3
  Cwnd = 2
  MaxFaults = 2
  HistLen = 12
INVARIANTS Inv NeverForgotten
PROPERTIES EachCompletes ImplementsTransfer
