-------------------------- MODULE MCControlChannel --------------------------
(***************************************************************************)
(* ControlChannel with a few clients' values.                              *)
(***************************************************************************)
EXTENDS ControlChannel

\* Two delays, which are easily taken for each other; times above and below 2^16 ticks;
\* a rate out of bounds; both directions of CNT, and the parameter TRIG is read back to.
SomeWrites == [PLDEL |-> {7}, RODEL |-> {3}, TP |-> {1}, FREQ |-> {5000000}, RATE |-> {61},
               CNT |-> {0, 1}, ADAcquire |-> {1}]

\* 10.0.0.1 as written with leading zeros
SomeTexts == {[host |-> 167772161, normal |-> FALSE]}

SomeSensors == [TEMP1 |-> {25, 26}]

\* A register write, and an operation the device does not know.
SomeLeftovers == {[read |-> FALSE, reg |-> "MARS_PIPE_DELAY"], [read |-> FALSE, reg |-> "0x3000"]}
=============================================================================
