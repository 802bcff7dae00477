\* Settings beyond their width, and chip, channel and monitor selection in every order.
SPECIFICATION Spec
CONSTANTS
  NChips = 3
  PlainFields <- SomePlain
  PlainValues <- BoundaryValues
  TdsValues = {0}
  GmonValues = {0, 4, 5, 6}
  ChipValues = {0, 1}
  ChanValues <- SomeChannels
  MonchValues = {5, 63}
  Garbage <- AnyInt
INVARIANTS
  TypeOK
  RoundTrip
  OneSelection
  OneMonitor
  
