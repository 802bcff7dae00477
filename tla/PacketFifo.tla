----------------------------- MODULE PacketFifo -----------------------------
(***************************************************************************)
(* What the file-writing buffer of the driver promises, whatever its       *)
(* layout in memory: a queue of packets of bounded size.  A packet that is *)
(* accepted is handed over exactly once, unchanged, in the order in which  *)
(* it was accepted.  (germaniumDetectorDataAcq.cpp, "circular write buffer *)
(* for file writing thread".)  WriteBuffer implements this module.         *)
(***************************************************************************)
EXTENDS Naturals, Sequences

CONSTANTS
  Packets,    \* the packets that may be offered, each a sequence of bytes
  Overhead,   \* bytes a stored packet costs beyond its own
  Capacity    \* bytes the queue may hold

VARIABLES
  queue,      \* packets accepted and not yet handed over, oldest first
  used,       \* bytes they occupy
  handed      \* packets handed over, oldest first

vars == <<queue, used, handed>>

Cost(p) == Overhead + Len(p)

Init ==
  /\ queue = <<>>
  /\ used = 0
  /\ handed = <<>>

\* A packet is accepted only if the queue stays within its capacity.
Put(p) ==
  /\ used + Cost(p) <= Capacity
  /\ queue' = Append(queue, p)
  /\ used' = used + Cost(p)
  /\ UNCHANGED handed

\* The oldest packet leaves the queue and is handed over as it came.
Take ==
  /\ queue # <<>>
  /\ handed' = Append(handed, Head(queue))
  /\ queue' = Tail(queue)
  /\ used' = used - Cost(Head(queue))

Next == (\E p \in Packets : Put(p)) \/ Take

Spec == Init /\ [][Next]_vars
=============================================================================
