SPECIFICATION FairSpec
CONSTANTS
  Lines = {3, 5, 7, 8, 15}
  Faults = {14}
  MaxDepth = 4
INVARIANTS
  GatesComplete
  AllAcknowledged
  HandlersUndisturbed
PROPERTIES
  MostUrgentServed
  EoiIsOurs
