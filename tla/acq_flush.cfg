\* Does the flush write what it pops?
SPECIFICATION Spec
CONSTANTS
  Sizes = {1, 2}
  Capacity = 6
  Overhead = 1
  MaxPackets = 2
  MaxStarts = 1
  Outcomes <- NoErrors
  FsizeValues = {}
  InitialFsize = 3
  MaxFsize = 6
  RunNumbers = {1}
  NoFile = NoFile
INVARIANTS
  FlushWrites
