CONSTANTS
  Ncommit = 3
  MaxPkts = 2
  FlowPackets = 1
  MaxOther = 1
  MaxWaiting = 1
  MaxEvents = 2
SPECIFICATION Spec
INVARIANTS Inv NoPacketLost
