SPECIFICATION FairSpec
CONSTANTS
  Conns = {c1, c2}
  Policies <- MCPolicies
  DefaultPolicy <- Narrow
  Embedded <- MCEmbedded
  Speeds = {0, 7}
  MaxBinds = 1
  MaxPort = 3
  Unset = Unset
INVARIANTS
  TypeOK
  
  BandwidthInForce
PROPERTIES
  
  
  ShutdownReturns
CHECK_DEADLOCK FALSE
