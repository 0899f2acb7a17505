SPECIFICATION HbHSpec
CONSTANTS
  rackA = rackA
  rackB = rackB
  rackC = rackC
  rotor1 = rotor1
  rotor2 = rotor2
  rotor3 = rotor3
  None = None
  f1 = f1
  f2 = f2
  ToR <- MCToR
  Port <- MCPort
  SliceCount = 4
  Peer <- MCPeer
  NoToR = None
  Route <- MCRoute
  Flows = {f1, f2}
  SrcOf <- MCSrcOf
  DstOf <- MCDstOf
  FlowPackets <- MCFlowPackets
  D = 1
  P = 0
  MaxNicPackets = 2
  MaxInflight = 2
  MaxQueue = 2
  MaxChanges = 3
CHECK_DEADLOCK FALSE
INVARIANTS HbHInv LimitsHold NothingLost NoneStuck
