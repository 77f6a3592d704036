SPECIFICATION Spec
CONSTANTS
  Levels = 3
  Fanout = 2
  PageCount = 11
  Frames = {2, 3, 4, 6, 7, 8, 9}
  LowPages = 2
  Dirty = {2, 3}
  Requests <- RequestsMixed
  Unset = Unset
PROPERTY
  MapsAsAsked
