\* One call of the client's, and one connection its listener accepts.
SPECIFICATION FairSystemSpec
CONSTANTS
  SocketIds = {1, 4}
  MaxCalls = 1
  MaxTasks = 2
  ClientIds = {1}
  ClientOps <- FewRequests
  ReuseIds = FALSE
  MaxConnections = 1
  UsizeMod = 8
  IdMod = 8
  IdStride = 3
  MaxQueued = 0
  MaxData = 2
INVARIANTS
  ClientTypeOK
  
  NoGhosts

  
  
\* A client that has disconnected and a session that has ended do nothing more.
CHECK_DEADLOCK FALSE
