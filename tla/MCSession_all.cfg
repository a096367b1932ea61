\* Every request, two sockets that may share an id, as may a listener and the
\* connection it accepts.
SPECIFICATION FairSpec
CONSTANTS
  ClientOps <- EveryRequest
  MaxTasks = 2
  ClientIds = {1}
  ReuseIds = TRUE
  MaxConnections = 1
  UsizeMod = 8
  IdMod = 8
  IdStride = 8
  MaxQueued = 1
INVARIANTS
  TypeOK
  
  NoPortAfterTeardown
  TableSound
  CounterExact
PROPERTIES
  
  
  RequestsAnswered
\* A session that has ended does nothing more.
CHECK_DEADLOCK FALSE
