SPECIFICATION MCSpec
CONSTANTS
  Levels = 3
  Fanout = 4
  PageCount = 18
  Frames = {3, 4, 5, 6, 7, 8, 9, 11, 12, 13, 14, 15, 16, 17}
  LowPages = 1
  Dirty = {0, 1, 2, 4, 5, 6, 7, 8, 9, 10, 12, 13, 14, 15, 16, 17}
  Requests = {}
  Unset = Unset
  Loader <- LoaderImage
  RamDisk <- RamDiskImage
  Sections <- KernelSections
  EntryPoint = 48
  Base = 16
  Initrd <- NameA
  CmdLines <- MCCmdLines
  Infos <- MCInfos
  Word = 64
  MaxSub = 3
  Firmwares <- MCFirmwares
  Strays <- MCStrays
CHECK_DEADLOCK FALSE
CONSTRAINT Representative
INVARIANTS
  TypesOK
  KernelInPlace
  LoaderStaysMapped
  EntryRuns
  MapReadRight
  InitrdFound
  FoundIsGood
  RsdtInside
  CountsListed
PROPERTY
  InstallEnds
