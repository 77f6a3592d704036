SPECIFICATION AnySpec
CONSTANTS
  kernel = kernel
  trampoline = trampoline
  font = font
  none = none
  old = old
  new = new
  Names = {kernel, trampoline, font}
  NameLength <- Lengths
  Data = {old, new}
  DataSize <- Sizes
  HeaderSize = 20
  EntrySize = 16
  Nodes = {e1, e2, e3, e4}
  Null = Null
  NoImage = NoImage
  Broken = Broken
  Garbage = Garbage
SYMMETRY NodeSymmetry
CHECK_DEADLOCK FALSE
PROPERTY
  ReplaceKeepsOthers
