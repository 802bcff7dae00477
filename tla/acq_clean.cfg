\* One acquisition on a disk that accepts everything, FSIZE fixed.
SPECIFICATION Spec
CONSTANTS
  Sizes = {1, 2, 4}
  Capacity = 6
  Overhead = 1
  MaxPackets = 5
  MaxStarts = 1
  Outcomes <- NoErrors
  FsizeValues = {}
  InitialFsize = 3
  MaxFsize = 6
  RunNumbers = {1}
  NoFile = NoFile
INVARIANTS
  NoHole
  SegmentBound
