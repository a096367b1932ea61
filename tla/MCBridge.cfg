\* The two tasks of a connection on one bucket; a message may be longer than the bucket.
SPECIFICATION BridgeSpec
CONSTANTS
  r = r
  w = w
  Consumers <- TwoConsumers
  Reader = r
  Writer = w
  Rate = 2
  TicksPerSecond = 1
  MaxBytes = 3
  MaxTime = 4
  BufSize = 3
  Lengths <- ShortAndLong
  MaxIn = 3
  MaxOut = 4
INVARIANTS
  TypeOK
  BucketBound
  SleepBound
  
  SentIsWritten
  ReadIsTold
  ForwardedBound
\* Time is bounded.
CHECK_DEADLOCK FALSE
