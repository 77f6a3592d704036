SPECIFICATION CallersSpec
CONSTANTS
  PageSize = 2
  Slots = 8
  PtrLimit = 40
  MemTop = 44
  MemoryMap <- MapOdd
  Reservations <- KeptOdd
  Owners = {o1, o2}
  Sizes <- SizesOdd
  Limits <- LimitsOdd
SYMMETRY OwnerSymmetry
INVARIANTS
  RowsDisjoint
  RowsInRam
  RowsAligned
