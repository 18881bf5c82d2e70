SPECIFICATION Spec
CONSTANTS
  NSlots = 2
  Cap = 1
  BlockRecs = 2
  MaxGen = 3
  Options = {"o1", "o2"}
  NoContract = "none"
  MaxRecords = 3
  MaxSessions = 3
  Restarts = {"power"}
  Slot <- MCSlot
  Pos <- MCPos
CHECK_DEADLOCK FALSE
INVARIANTS
  ContractKept
  CapacityReserved
  GenerationsInPlace
