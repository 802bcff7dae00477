\* Is there one channel monitor only?
SPECIFICATION Spec
CONSTANTS
  NChips = 3
  PlainFields = {}
  PlainValues <- BoundaryValues
  TdsValues = {}
  GmonValues = {0, 5}
  ChipValues = {0, 1}
  ChanValues = {}
  MonchValues = {0, 5}
  Garbage <- AnyInt
INVARIANTS
  OneChannelMonitor
