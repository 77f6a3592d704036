SPECIFICATION RamDiskSpec
CONSTANTS
  kernel = kernel
  trampoline = trampoline
  font = font
  none = none
  old = old
  new = new
  Names = {kernel, trampoline, font}
  NameLength <- Lengths
  Data = {none, new}
  DataSize <- Sizes
  HeaderSize = 20
  EntrySize = 16
  Nodes = {e1, e2, e3}
  Null = Null
  NULL = Null
  Refused <- Others
  NoImage = NoImage
  Broken = Broken
  Garbage = Garbage
SYMMETRY NodeSymmetry
CHECK_DEADLOCK FALSE
INVARIANT
  TypesOK
  RingSound
  LoaderFindsSaved
PROPERTY ImplementsRamDisk
