SPECIFICATION Spec
CONSTANTS
  MaxEpisodes = 3
  MaxClock = 4
INVARIANTS
  FaultHasCode
  AgeNotOverstated
PROPERTIES
  StallIsSeen
