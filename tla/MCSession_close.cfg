\* A close that comes early.
SPECIFICATION FairSpec
CONSTANTS
  ClientOps <- TcpAndClose
  MaxTasks = 2
  ClientIds = {1, 2}
  ReuseIds = FALSE
  MaxConnections = 1
  UsizeMod = 8
  IdMod = 8
  IdStride = 3
  MaxQueued = 1
PROPERTIES
  CloseIsFinal
\* A session that has ended does nothing more.
CHECK_DEADLOCK FALSE
