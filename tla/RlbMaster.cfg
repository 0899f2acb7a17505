CONSTANTS
  Hpr = 2
  Others = {o1}
  SlotPkts = 5
  NonlocalSizes = {0, 3}
  LocalSizes = {0, 1, 4}
  OtherSizes = {0, 3}
  QueuedSizes = {0, 3}
  MaxIter = 5
SPECIFICATION MasterSpec
CHECK_DEADLOCK FALSE
INVARIANTS LinksNotOverrun ReceiversNotOverrun NothingLeftOver
