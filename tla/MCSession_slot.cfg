\* A peer that closes first.
SPECIFICATION FairSpec
CONSTANTS
  ClientOps <- OnlyTcp
  MaxTasks = 2
  ClientIds = {1, 2}
  ReuseIds = FALSE
  MaxConnections = 1
  UsizeMod = 8
  IdMod = 8
  IdStride = 3
  MaxQueued = 1
PROPERTIES
  ClosedFreesSlot
\* A session that has ended does nothing more.
CHECK_DEADLOCK FALSE
