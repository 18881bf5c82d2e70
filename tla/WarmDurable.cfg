SPECIFICATION Spec
CONSTANTS
  NSlots = 2
  Cap = 2
  BlockRecs = 1
  MaxGen = 3
  Options = {"o1"}
  NoContract = "none"
  MaxRecords = 3
  MaxSessions = 3
  Restarts = {"power", "warm"}
  Slot <- MCSlot
  Pos <- MCPos
CHECK_DEADLOCK FALSE
INVARIANT DurableSurvives
