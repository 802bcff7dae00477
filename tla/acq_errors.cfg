\* Two acquisitions, with open and write errors.
SPECIFICATION Spec
CONSTANTS
  Sizes = {1, 2}
  Capacity = 6
  Overhead = 1
  MaxPackets = 3
  MaxStarts = 2
  Outcomes <- AllOutcomes
  FsizeValues <- AnyFsize
  InitialFsize = 3
  MaxFsize = 6
  RunNumbers = {1, 2}
  NoFile = NoFile
INVARIANTS
  TypeOK
  OneFileWriter
  JournalInOrder
  SizeExact
  SegmentsInOrder
  Accounted
  SegmentsReadBack
PROPERTY
  NothingOverwritten
