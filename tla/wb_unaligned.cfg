\* Packets of one and two bytes: headers straddle the end of the buffer.
SPECIFICATION Spec
CONSTANTS
  BufSize = 8
  Hdr = 2
  Sizes <- UnalignedSizes
  MaxStream = 14
  NoByte = NoByte
  Nobody = Nobody
INVARIANTS
  TypeOK
  NoLostWakeup
