--------------------------- MODULE MCWriteBuffer ----------------------------
(***************************************************************************)
(* WriteBuffer on small buffers.  The driver's buffer has 4 MiB, a header  *)
(* 8 bytes and a packet at most 64 KiB; what matters is that a packet may  *)
(* wrap around the end, that several packets fit, and that the buffer runs *)
(* full.  Sizes includes a size of 0 and one above BufSize \div 4.         *)
(***************************************************************************)
EXTENDS WriteBuffer

\* Whole words of 2 bytes: a buffer of 16 bytes holds two or three packets.
AlignedSizes == {0, 2, 4, 6}

\* Packets of any length: headers may straddle the end of the buffer.
UnalignedSizes == {1, 2}
=============================================================================
