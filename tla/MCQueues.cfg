SPECIFICATION MCSpec
CONSTANTS
  MaxSize = 6
  Header = 1
  DataSizes = {2, 3}
  RatioHigh = 2
  RatioLow = 3
  Racks = {r1, r2}
  MaxRlb = 2
  Buffer = 6
  AckSize = 1
  PacketSizes = {2, 3}
  Mtu = 3
  Threshold = 3
  MaxPru = 1
INVARIANTS EachInv EachNoStarvation
PROPERTIES EachServedAsTimed
