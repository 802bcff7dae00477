--------------------------- MODULE MCAcquisition ----------------------------
(***************************************************************************)
(* Acquisition with a few packets of one to three bytes and files of a few *)
(* bytes, so that segments fill up every other packet.                     *)
(***************************************************************************)
EXTENDS Acquisition

AllOutcomes == {"done", "short", "failed"}
NoErrors == {"done"}

\* Values below, within and above the limits of FSIZE, as a client may write them.
AnyFsize == {-1, 2, 9}
=============================================================================
