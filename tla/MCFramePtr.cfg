SPECIFICATION Spec
CONSTANTS
  PageSize = 2
  Slots = 16
  PtrLimit = 16
  MemTop = 29
  MemoryMap <- MapRoomy
  Reservations <- KeptRoomy
  Owners = {o1, o2}
  Sizes <- SizesRoomy
  Limits <- LimitsRoomy
SYMMETRY OwnerSymmetry
PROPERTY
  LendsFreeSpace
