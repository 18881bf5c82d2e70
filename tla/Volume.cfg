SPECIFICATION Spec
CONSTANTS
  Procs = {p1, p2}
  Nobody = Nobody
  Sizes = {2, 3}
  MaxVolumes = 3
  UsedSlots = {2}
  MaxFaults = 2
  MaxDamage = 1
SYMMETRY ProcSymmetry
CHECK_DEADLOCK FALSE
INVARIANTS
  StoreStands
  OpensAsFormatted
  NeverOlder
  VolumeIntact
