\* Two targets, three streams, two places each: the pool fills, expires and refills.
SPECIFICATION Spec
CONSTANTS
  k1 = k1
  k2 = k2
  s1 = s1
  s2 = s2
  s3 = s3
  Targets <- TwoTargets
  Streams <- ThreeStreams
  MaxIdle = 4
  MaxPerKey = 2
  MaxTime = 7
INVARIANTS
  
  StaleBounded
  MapTidy
PROPERTIES
  ImplementsIdlePool
\* Time is bounded.
CHECK_DEADLOCK FALSE
