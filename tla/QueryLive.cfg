SPECIFICATION QuerySpec
CONSTANTS
  NSlots = 2
  Cap = 2
  BlockRecs = 1
  MaxGen = 3
  Options = {"o1"}
  NoContract = "none"
  MaxRecords = 3
  MaxSessions = 1
  Restarts = {}
  Slot <- MCSlot
  Pos <- MCPos
  Readers = {"inside", "outside"}
  Wants <- MCWants
  TornReads = FALSE
  MaxDamage = 1
CHECK_DEADLOCK FALSE
INVARIANTS
  DataIsGenuine
  
  EventsInOrder
  NothingMissing
