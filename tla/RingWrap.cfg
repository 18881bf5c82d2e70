SPECIFICATION OracleSpec
CONSTANTS
  NSlots = 3
  Cap = 1
  BlockRecs = 1
  MaxGen = 5
  Options = {"o1"}
  NoContract = "none"
  MaxRecords = 3
  MaxSessions = 3
  MaxFragments = 2
  Restarts = {"power"}
  Slot <- MCSlot
  Pos <- MCPos
CHECK_DEADLOCK FALSE
INVARIANTS
  RetainedContiguous
  OracleAgrees
PROPERTIES
  EvictsOldest
