SPECIFICATION FairSpec
CONSTANTS
  Callers = {c1, c2}
  QueueCap = 2
  MaxSubmits = 3
  MaxStarts = 2
INVARIANTS
  TypeOK
  BarrierSound
  AppendedInOrder
  MetricsHonest
PROPERTIES
  ImplementsQueue
  BarrierReturns
  AcceptedPersists
  StopReturns
