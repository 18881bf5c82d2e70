SPECIFICATION Spec
CONSTANTS
  NSlots = 2
  Cap = 2
  BlockRecs = 2
  MaxGen = 3
  Options = {"o1"}
  NoContract = "none"
  MaxRecords = 3
  MaxSessions = 3
  Restarts = {"warm"}
  Slot <- MCSlot
  Pos <- MCPos
CHECK_DEADLOCK FALSE
INVARIANTS
  DurableSurvives
  StrictAgrees
