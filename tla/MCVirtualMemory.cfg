SPECIFICATION Spec
CONSTANTS
  Levels = 3
  Fanout = 2
  PageCount = 11
  Frames = {2, 3, 4, 6, 7, 8, 9}
  LowPages = 2
  Dirty = {0, 1, 3, 4, 5, 7, 8, 9, 10}
  Requests <- RequestsMixed
  Unset = Unset
INVARIANT
  TablesApart
PROPERTY
  MapsAsAsked
