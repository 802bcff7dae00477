\* Is a header ever stored beyond the end?
SPECIFICATION Spec
CONSTANTS
  BufSize = 8
  Hdr = 2
  Sizes <- UnalignedSizes
  MaxStream = 12
  NoByte = NoByte
  Nobody = Nobody
INVARIANTS
  HeaderInBuffer
