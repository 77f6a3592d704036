SPECIFICATION Spec
CONSTANTS
  PageSize = 2
  Slots = 16
  PtrLimit = 32
  MemTop = 23
  MemoryMap <- MapSmall
  Reservations <- KeptSmall
  Owners = {o1, o2, o3}
  Sizes <- SizesRoomy
  Limits <- LimitsRoomy
SYMMETRY OwnerSymmetry
INVARIANT
  OneRowPerPage
PROPERTY ImplementsFrameMap
