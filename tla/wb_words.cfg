\* A buffer of 16 bytes with headers and packets of whole 2-byte words, under the
\* fairness of the scheduler.
SPECIFICATION FairSpec
CONSTANTS
  BufSize = 16
  Hdr = 2
  Sizes <- AlignedSizes
  MaxStream = 24
  NoByte = NoByte
  Nobody = Nobody
INVARIANTS
  TypeOK
  TakenInOrder
  NoLostWakeup
  NeverCorrupt
  BufferCoherent
PROPERTIES
  ImplementsFifo
  Drained
  FlushEnds
