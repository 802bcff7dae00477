---------------------------- MODULE MCMarsConfig ----------------------------
(***************************************************************************)
(* MarsConfig for the smallest detector: 96 elements, 3 chips.             *)
(***************************************************************************)
EXTENDS MarsConfig

SomePlain == {"st", "g"}

\* Values beyond the width of their field, which would spill into the next.
BoundaryValues == [st |-> {-1}, g |-> {9}]

\* Values an uninitialised int may have.
AnyInt == {-1, 1}

\* Channels at both ends of chips.
SomeChannels == {0, 64, 130}
=============================================================================
