SPECIFICATION MCSpec
CONSTANTS
  Networks <- MCNetworks
  Kinds = {"XPCREDIT", "XPDATA", "XPCTL"}
INVARIANTS
  Accounting
  OnItsWay
PROPERTIES
  RoutesSound
