SPECIFICATION FairSpec
CONSTANTS
  FlowPackets = 1
  Cwnd = 2
  MaxFaults = 3
PROPERTY ReturnedIsResent
