------------------------- MODULE AcquisitionProofs --------------------------
(***************************************************************************)
(* Proofs about Acquisition, for all sizes, bounds, limits and errors:     *)
(*   OnlyTheWriterWrites   [](OneFileWriter)                               *)
(*   OrderOnDisk           [](JournalInOrder)                              *)
(*   TypesCorrect          [](TypeOK)                                      *)
(***************************************************************************)
EXTENDS Acquisition, SequenceTheorems, TLAPS

Holding == {"enter"} \cup Inside

\* The steps that only read a counter.
Reads(t) == ReadBytes(t) \/ ReadSegment(t) \/ ReadNumber(t)

\* They load what they read, and go on.
LEMMA ReadsLoad ==
  ASSUME NEW t, Reads(t)
  PROVE  /\ UNCHANGED <<buffer, arrived, starts, flags, file, currentSegmentNumber, totals,
                        params, stored, packet, flushed>>
         /\ \/ /\ pc[t] = "read bytes" /\ pc' = [pc EXCEPT ![t] = "sum"]
               /\ loaded' = [loaded EXCEPT ![t] = totalBytesWritten]
            \/ /\ pc[t] = "read segment" /\ pc' = [pc EXCEPT ![t] = "segment"]
               /\ loaded' = [loaded EXCEPT ![t] = currentSegmentNumber]
            \/ /\ pc[t] = "name" /\ pc' = [pc EXCEPT ![t] = "open"]
               /\ loaded' = [loaded EXCEPT ![t] = currentSegmentNumber]
BY DEF Reads, ReadBytes, ReadSegment, ReadNumber, Load, Goto

\* The shapes the proof needs.
Shapes ==
  /\ arrived \in Nat
  /\ queue \in Seq(Packets)
  /\ journal \in Seq(Nat)
  /\ packet \in [Threads -> Seq(Nat)]
  /\ pc[Writer] \in Holding => packet[Writer] \in Packets

\* The flush runs with the files disabled.
FlushDisabled == pc[Port] \in {"flush", "enter"} => fileWritingEnabled = FALSE

\* Numbers grow from the journal over the packet in the hands of the write thread
\* and the queue up to the last arrival.
Ordered ==
  /\ JournalInOrder
  /\ \A k \in 1 .. Len(queue) : queue[k][1] <= arrived
  /\ \A j, k \in 1 .. Len(queue) : j < k => queue[j][1] < queue[k][1]
  /\ \A k \in 1 .. Len(journal) : journal[k] <= arrived
  /\ \A j \in 1 .. Len(journal), k \in 1 .. Len(queue) : journal[j] < queue[k][1]
  /\ pc[Writer] \in Holding =>
       /\ packet[Writer][1] <= arrived
       /\ \A k \in 1 .. Len(journal) : journal[k] < packet[Writer][1]
       /\ \A k \in 1 .. Len(queue) : packet[Writer][1] < queue[k][1]

\* Who may be where.
PortInv ==
  /\ OneFileWriter
  /\ FlushDisabled
  /\ pc \in [Threads -> Labels]
  /\ pc[Port] # "pop"

-----------------------------------------------------------------------------
(* The flush never gets past the first test.                               *)

\* The port thread begins outside.
LEMMA InitPort == Init => PortInv
BY DEF Init, PortInv, OneFileWriter, FlushDisabled, Inside, Labels, Threads, Writer, Port

\* The port thread takes packets only after it has cleared fileWritingEnabled, and
\* nothing but itself sets it again.
LEMMA NextPort == PortInv /\ [Next]_vars => PortInv'
<1> SUFFICES ASSUME PortInv, [Next]_vars PROVE PortInv'
  OBVIOUS
<1> USE DEF Labels, Inside, PortInv, OneFileWriter, FlushDisabled, Threads, Writer, Port, Goto, flags
<1>1. ASSUME NEW n \in Sizes, Arrive(n) PROVE PortInv'
  BY <1>1 DEF Arrive
<1>2. ASSUME NEW t \in Threads, Pop(t) PROVE PortInv'
  <2>1. /\ pc[t] \in {"pop", "flush"}
        /\ pc' = [pc EXCEPT ![t] = "enter"]
        /\ fileWritingEnabled' = fileWritingEnabled
    BY <1>2 DEF Pop
  <2> QED
    BY <2>1
<1>3. ASSUME NEW t \in Threads, Enter(t) PROVE PortInv'
  <2>1. CASE t = Port
    <3>1. fileWritingEnabled = FALSE
      BY <1>3, <2>1 DEF Enter
    <3>2. Return(t)
      BY <1>3, <3>1, Zenon DEF Enter
    <3> QED
      BY <1>3, <2>1, <3>1, <3>2 DEF Enter, Return
  <2>2. CASE t = Writer
    <3>1. \E l \in Labels : pc' = [pc EXCEPT ![t] = l]
      BY <1>3, <2>2 DEF Enter, Return
    <3>2. fileWritingEnabled' = fileWritingEnabled
      BY <1>3 DEF Enter
    <3>3. Port # t /\ Port \in Threads
      BY <2>2
    <3>4. pc'[Port] = pc[Port] /\ pc' \in [Threads -> Labels]
      BY <3>1, <3>3
    <3> QED
      BY <3>2, <3>4
  <2> QED
    BY <2>1, <2>2
<1>4. ASSUME NEW t \in Threads,
             \/ Measure(t) \/ Close(t) \/ CountFile(t) \/ CountBytes(t)
             \/ NextSegment(t) \/ Open(t) \/ Write(t) \/ Reads(t)
      PROVE  PortInv'
  <2>1. pc[t] \in Inside
    BY <1>4, ReadsLoad DEF Measure, Close, CountFile, CountBytes, NextSegment, Open, Write
  <2>2. t = Writer
    BY <2>1
  <2>3. fileWritingEnabled' = fileWritingEnabled
    BY <1>4, ReadsLoad DEF Measure, Close, CountFile, CountBytes, NextSegment, Open, Write
  <2>4. \E l \in Labels : pc' = [pc EXCEPT ![t] = l]
    BY <1>4, <2>2, ReadsLoad
       DEF Measure, Close, CountFile, CountBytes, NextSegment, Open, Write, Return
  <2> QED
    BY <2>2, <2>3, <2>4
<1>5. CASE PortStep
  BY <1>5 DEF PortStep, Start, ResetBytes, ResetFiles, Enable, Stop, Flushed, ClampFsize, SetFsize,
              SetRunno
<1>6. CASE UNCHANGED vars
  BY <1>6 DEF vars
<1>7. \/ \E n \in Sizes : Arrive(n)
      \/ \E t \in Threads : Pop(t) \/ WriteDataToFile(t)
      \/ PortStep
      \/ UNCHANGED vars
  BY DEF Next
<1> HIDE DEF PortInv, Threads
<1> QED
  BY <1>1, <1>2, <1>3, <1>4, <1>5, <1>6, <1>7 DEF WriteDataToFile, Reads

\* stopDataAcquisition and dataWriteThread both call writeDataToFile, without a
\* mutex; only the write thread ever touches a file.
THEOREM OnlyTheWriterWrites == Spec => []OneFileWriter
<1>1. PortInv => OneFileWriter
  BY DEF PortInv
<1> QED
  BY InitPort, NextPort, <1>1, PTL DEF Spec
-----------------------------------------------------------------------------
(* Order on disk.                                                          *)

OrderInv == PortInv /\ Shapes /\ Ordered

\* A packet is a sequence of bytes, all with its number.
LEMMA PacketFacts ==
  ASSUME NEW p \in Packets
  PROVE  p \in Seq(Nat) /\ p[1] \in Nat
<1>1. PICK i \in 1 .. MaxPackets, n \in Sizes : p = [j \in 1 .. n |-> i]
  BY DEF Packets, PacketOf
<1>2. i \in Nat /\ n \in Nat /\ n # 0
  BY AcquisitionAssumption
<1> QED
  BY <1>1, <1>2

\* The number of a packet that arrives.
LEMMA PacketNumber ==
  ASSUME NEW i \in 1 .. MaxPackets, NEW n \in Sizes
  PROVE  PacketOf(i, n) \in Packets /\ PacketOf(i, n)[1] = i
<1>1. n \in Nat /\ n # 0
  BY AcquisitionAssumption
<1> QED
  BY <1>1 DEF Packets, PacketOf

\* No packet.
LEMMA NoPacket == <<>> \in Seq(Nat)
OBVIOUS

\* Nothing has arrived, nothing is written.
LEMMA InitOrder == Init => OrderInv
<1> SUFFICES ASSUME Init PROVE OrderInv
  OBVIOUS
<1>1. queue = <<>> /\ journal = <<>> /\ arrived = 0 /\ pc[Writer] = "pop"
  BY DEF Init, Buffer!Init, Threads, Writer, Port
<1>2. packet \in [Threads -> Seq(Nat)]
  BY DEF Init
<1>3. Shapes
  BY <1>1, <1>2 DEF Shapes, Holding, Inside
<1>4. Ordered
  BY <1>1 DEF Ordered, JournalInOrder, Holding, Inside
<1> QED
  BY <1>3, <1>4, InitPort DEF OrderInv

\* A packet that arrives has a number above all others.
LEMMA ArriveOrder ==
  ASSUME OrderInv, NEW n \in Sizes, Arrive(n)
  PROVE  Shapes' /\ Ordered'
<1> DEFINE p == PacketOf(arrived + 1, n)
<1>1. /\ arrived \in Nat /\ queue \in Seq(Packets) /\ journal \in Seq(Nat)
      /\ arrived' = arrived + 1
      /\ UNCHANGED <<journal, pc, packet>>
  BY DEF OrderInv, Shapes, Arrive, stored
<1>2. p \in Packets /\ p[1] = arrived + 1
  BY <1>1, PacketNumber, AcquisitionAssumption DEF Arrive
<1>3. queue' = queue \/ queue' = Append(queue, p)
  BY DEF Arrive, Buffer!Put, buffer
<1> HIDE DEF p
<1>4. queue' \in Seq(Packets)
  <2>1. CASE queue' = queue
    BY <1>1, <2>1
  <2>2. CASE queue' = Append(queue, p)
    BY <1>1, <1>2, <2>2, AppendProperties
  <2> QED
    BY <1>3, <2>1, <2>2
<1>5. \A k \in 1 .. Len(queue) : queue[k] \in Packets /\ queue[k][1] \in Nat
  BY <1>1, PacketFacts
<1>6. \A k \in 1 .. Len(journal) : journal[k] \in Nat
  BY <1>1
<1>7. Shapes'
  BY <1>1, <1>4 DEF OrderInv, Shapes
<1>8. pc[Writer] \in Holding => packet[Writer][1] \in Nat
  BY PacketFacts DEF OrderInv, Shapes
<1>9. \A k \in 1 .. Len(queue') :
        \/ k \in 1 .. Len(queue) /\ queue'[k] = queue[k]
        \/ k = Len(queue) + 1 /\ queue'[k] = p
  <2>1. CASE queue' = queue
    BY <1>1, <2>1
  <2>2. CASE queue' = Append(queue, p)
    BY <1>1, <1>2, <2>2, AppendProperties
  <2> QED
    BY <1>3, <2>1, <2>2
<1>10. Len(queue) \in Nat
  BY <1>1, LenProperties
<1>11. Ordered'
  <2> USE DEF OrderInv, Ordered
  <2>1. JournalInOrder'
    BY <1>1 DEF JournalInOrder
  <2>2. \A k \in 1 .. Len(queue') : queue'[k][1] <= arrived'
    BY <1>1, <1>2, <1>5, <1>9
  <2>3. ASSUME NEW j \in 1 .. Len(queue'), NEW k \in 1 .. Len(queue'), j < k
        PROVE  queue'[j][1] < queue'[k][1]
    <3>1. PICK m \in Nat : m = Len(queue)
      BY <1>10
    <3>2. /\ \/ j \in 1 .. m /\ queue'[j] = queue[j]
             \/ j = m + 1
          /\ \/ k \in 1 .. m /\ queue'[k] = queue[k]
             \/ k = m + 1 /\ queue'[k] = p
      BY <1>9, <3>1
    <3>3. j \in 1 .. m /\ queue'[j] = queue[j]
      BY <2>3, <3>2, SMT
    <3>4. queue[j][1] \in Nat /\ queue[j][1] <= arrived
      BY <1>5, <3>1, <3>3
    <3>5. CASE k \in 1 .. m /\ queue'[k] = queue[k]
      BY <2>3, <3>1, <3>3, <3>5
    <3>6. CASE k = m + 1 /\ queue'[k] = p
      BY <1>1, <1>2, <3>3, <3>4, <3>6, SMT
    <3> QED
      BY <3>2, <3>5, <3>6, Zenon
  <2>4. \A k \in 1 .. Len(journal') : journal'[k] <= arrived'
    BY <1>1, <1>6
  <2>5. \A j \in 1 .. Len(journal'), k \in 1 .. Len(queue') : journal'[j] < queue'[k][1]
    <3> SUFFICES ASSUME NEW j \in 1 .. Len(journal'), NEW k \in 1 .. Len(queue')
                 PROVE  journal'[j] < queue'[k][1]
      OBVIOUS
    <3>1. j \in 1 .. Len(journal) /\ journal'[j] = journal[j] /\ journal[j] \in Nat
      BY <1>1, <1>6
    <3>2. CASE k \in 1 .. Len(queue) /\ queue'[k] = queue[k]
      BY <3>1, <3>2
    <3>3. CASE queue'[k] = p
      BY <1>1, <1>2, <3>1, <3>3
    <3> QED
      BY <1>9, <3>2, <3>3
  <2>6. pc'[Writer] \in Holding =>
          /\ packet'[Writer][1] <= arrived'
          /\ \A k \in 1 .. Len(journal') : journal'[k] < packet'[Writer][1]
          /\ \A k \in 1 .. Len(queue') : packet'[Writer][1] < queue'[k][1]
    BY <1>1, <1>2, <1>8, <1>9
  <2> QED
    BY <2>1, <2>2, <2>3, <2>4, <2>5, <2>6
<1> QED
  BY <1>7, <1>11

\* A packet taken off the queue is in front of the others.
LEMMA PopOrder ==
  ASSUME OrderInv, NEW t \in Threads, Pop(t)
  PROVE  Shapes' /\ Ordered'
<1>1. /\ arrived \in Nat /\ queue \in Seq(Packets) /\ journal \in Seq(Nat)
      /\ UNCHANGED <<journal, arrived>>
      /\ queue # <<>> /\ queue' = Tail(queue)
      /\ pc' = [pc EXCEPT ![t] = "enter"]
      /\ packet' = [packet EXCEPT ![t] = Head(queue)]
  BY DEF OrderInv, Shapes, Pop, stored, Goto, Buffer!Take
<1>2. /\ queue' \in Seq(Packets)
      /\ Head(queue) = queue[1] /\ Head(queue) \in Packets
      /\ Len(queue) \in Nat \ {0}
      /\ Len(queue') = Len(queue) - 1
      /\ \A k \in 1 .. Len(queue') : queue'[k] = queue[k + 1]
  BY <1>1
<1>3. \A k \in 1 .. Len(queue) : queue[k][1] \in Nat
  BY <1>1, PacketFacts
<1>4. \A k \in 1 .. Len(journal) : journal[k] \in Nat
  BY <1>1
<1>5. pc \in [Threads -> Labels] /\ packet \in [Threads -> Seq(Nat)]
  BY DEF OrderInv, PortInv, Shapes
<1>6. Head(queue) \in Seq(Nat)
  BY <1>2, PacketFacts
<1>7. Writer \in Threads
  BY DEF Threads
<1>8. CASE t = Writer
  <2>1. packet'[Writer] = queue[1] /\ packet'[Writer] \in Packets
    BY <1>1, <1>2, <1>5, <1>7, <1>8
  <2>2. Shapes'
    BY <1>1, <1>2, <1>5, <1>6, <2>1 DEF Shapes
  <2>3. Ordered'
    BY <1>1, <1>2, <1>3, <1>4, <2>1 DEF OrderInv, Ordered, JournalInOrder
  <2> QED
    BY <2>2, <2>3
<1>9. CASE t # Writer
  <2>1. packet'[Writer] = packet[Writer] /\ pc'[Writer] = pc[Writer]
    BY <1>1, <1>5, <1>7, <1>9
  <2>2. Shapes'
    BY <1>1, <1>2, <1>5, <1>6, <2>1 DEF OrderInv, Shapes
  <2>3. Ordered'
    BY <1>1, <1>2, <1>3, <1>4, <2>1 DEF OrderInv, Ordered, JournalInOrder
  <2> QED
    BY <2>2, <2>3
<1> QED
  BY <1>8, <1>9

\* What leaves the queue and the journal alone, and lets the write thread keep its
\* packet or drop it.
LEMMA KeepOrder ==
  ASSUME OrderInv, UNCHANGED <<queue, arrived, journal>>,
         packet' \in [Threads -> Seq(Nat)],
         pc'[Writer] \in Holding => pc[Writer] \in Holding /\ packet'[Writer] = packet[Writer]
  PROVE  Shapes' /\ Ordered'
BY DEF OrderInv, Shapes, Ordered, JournalInOrder

\* The packet the write thread holds is written behind those written before.
LEMMA WriteOrder ==
  ASSUME OrderInv, Write(Writer)
  PROVE  Shapes' /\ Ordered'
<1>1. /\ arrived \in Nat /\ queue \in Seq(Packets) /\ journal \in Seq(Nat)
      /\ UNCHANGED <<queue, arrived>>
      /\ packet' = [packet EXCEPT ![Writer] = <<>>]
      /\ pc' = [pc EXCEPT ![Writer] = "pop"]
      /\ pc[Writer] = "write"
  BY DEF OrderInv, Shapes, Write, Return, Goto, buffer
<1>2. pc \in [Threads -> Labels] /\ packet \in [Threads -> Seq(Nat)] /\ Writer \in Threads
  BY DEF OrderInv, PortInv, Shapes, Threads
<1>3. pc'[Writer] \notin Holding
  BY <1>1, <1>2 DEF Holding, Inside
<1>4. packet' \in [Threads -> Seq(Nat)]
  BY <1>1, <1>2
<1>5. pc[Writer] \in Holding
  BY <1>1 DEF Holding, Inside
<1>6. packet[Writer] \in Packets
  BY <1>5 DEF OrderInv, Shapes
<1>7. packet[Writer][1] \in Nat
  BY <1>6, PacketFacts
<1>8. journal' = journal \/ journal' = Append(journal, packet[Writer][1])
  BY DEF Write
<1>9. CASE journal' = journal
  BY <1>1, <1>3, <1>4, <1>9, KeepOrder
<1>10. CASE journal' = Append(journal, packet[Writer][1])
  <2>1. /\ journal' \in Seq(Nat)
        /\ Len(journal) \in Nat
        /\ Len(journal') = Len(journal) + 1
        /\ \A k \in 1 .. Len(journal) : journal'[k] = journal[k] /\ journal[k] \in Nat
        /\ journal'[Len(journal) + 1] = packet[Writer][1]
    BY <1>1, <1>7, <1>10
  <2>2. \A k \in 1 .. Len(queue) : queue[k][1] \in Nat
    BY <1>1, PacketFacts
  <2>3. Shapes'
    BY <1>1, <1>3, <1>4, <2>1 DEF Shapes
  <2>4. Ordered'
    <3>1. \A k \in 1 .. Len(journal') :
            k \in 1 .. Len(journal) \/ k = Len(journal) + 1
      BY <2>1
    <3>2. JournalInOrder'
      <4>1. \A j, k \in 1 .. Len(journal) : j < k => journal[j] < journal[k]
        BY DEF OrderInv, Ordered, JournalInOrder
      <4>2. \A j \in 1 .. Len(journal) : journal[j] < journal'[Len(journal) + 1]
        BY <1>5, <1>7, <2>1 DEF OrderInv, Ordered
      <4>3. ASSUME NEW j \in 1 .. Len(journal'), NEW k \in 1 .. Len(journal'), j < k
            PROVE  journal'[j] < journal'[k]
        <5>1. j \in 1 .. Len(journal)
          BY <2>1, <4>3
        <5>2. CASE k \in 1 .. Len(journal)
          BY <2>1, <4>1, <4>3, <5>1, <5>2
        <5>3. CASE k = Len(journal) + 1
          BY <2>1, <4>2, <5>1, <5>3
        <5> QED
          BY <3>1, <5>2, <5>3
      <4> QED
        BY <4>3 DEF JournalInOrder
    <3>3. \A k \in 1 .. Len(journal') : journal'[k] <= arrived'
      BY <1>1, <1>5, <2>1, <3>1 DEF OrderInv, Ordered
    <3>4. \A j \in 1 .. Len(journal'), k \in 1 .. Len(queue') : journal'[j] < queue'[k][1]
      BY <1>1, <1>5, <2>1, <3>1 DEF OrderInv, Ordered
    <3> QED
      BY <1>1, <1>3, <3>2, <3>3, <3>4 DEF OrderInv, Ordered
  <2> QED
    BY <2>3, <2>4
<1> QED
  BY <1>8, <1>9, <1>10

\* Every step keeps the order of the journal, the packet held and the queue.
LEMMA NextOrder == OrderInv /\ [Next]_vars => OrderInv'
<1> SUFFICES ASSUME OrderInv, [Next]_vars PROVE Shapes' /\ Ordered'
  BY NextPort DEF OrderInv
<1> USE DEF stored, buffer
<1>1. /\ pc \in [Threads -> Labels] /\ packet \in [Threads -> Seq(Nat)]
      /\ Threads = {Writer, Port} /\ Writer # Port
      /\ pc[Port] \notin Inside
  BY DEF OrderInv, PortInv, OneFileWriter, Shapes, Threads, Writer, Port
<1>2. ASSUME NEW n \in Sizes, Arrive(n) PROVE Shapes' /\ Ordered'
  BY <1>2, ArriveOrder
<1>3. ASSUME NEW t \in Threads, Pop(t) PROVE Shapes' /\ Ordered'
  BY <1>3, PopOrder
<1>4. ASSUME NEW t \in Threads, Enter(t) PROVE Shapes' /\ Ordered'
  <2>1. UNCHANGED <<queue, arrived, journal>> /\ pc[t] = "enter"
    BY <1>4 DEF Enter
  <2>2. packet' = packet \/ packet' = [packet EXCEPT ![t] = <<>>]
    BY <1>4 DEF Enter, Return
  <2>3. \/ pc' = [pc EXCEPT ![t] = "measure"] /\ packet' = packet
        \/ pc' = [pc EXCEPT ![t] = IF t = Writer THEN "pop" ELSE "flush"]
    BY <1>4 DEF Enter, Return, Goto
  <2>4. packet' \in [Threads -> Seq(Nat)]
    BY <1>1, <2>2, NoPacket
  <2>5. pc'[Writer] \in Holding => pc[Writer] \in Holding /\ packet'[Writer] = packet[Writer]
    BY <1>1, <2>1, <2>2, <2>3 DEF Holding, Inside
  <2> QED
    BY <2>1, <2>4, <2>5, KeepOrder
<1>5. ASSUME NEW t \in Threads, Write(t) PROVE Shapes' /\ Ordered'
  <2>1. t = Writer
    BY <1>1, <1>5 DEF Write, Inside
  <2> QED
    BY <1>5, <2>1, WriteOrder
<1>6. ASSUME NEW t \in Threads,
             \/ Measure(t) \/ Close(t) \/ CountFile(t) \/ CountBytes(t) \/ NextSegment(t)
             \/ Reads(t)
      PROVE  Shapes' /\ Ordered'
  <2>1. UNCHANGED <<queue, arrived, journal, packet>> /\ pc[t] \in Inside
    BY <1>6, ReadsLoad DEF Measure, Close, CountFile, CountBytes, NextSegment, Inside
  <2>2. t = Writer
    BY <1>1, <2>1
  <2> QED
    BY <1>1, <2>1, <2>2, KeepOrder DEF Holding
<1>7. ASSUME NEW t \in Threads, Open(t) PROVE Shapes' /\ Ordered'
  <2>1. UNCHANGED <<queue, arrived, journal>> /\ pc[t] \in Inside
    BY <1>7 DEF Open, Inside
  <2>2. t = Writer
    BY <1>1, <2>1
  <2>3. \/ packet' = packet
        \/ packet' = [packet EXCEPT ![t] = <<>>] /\ pc' = [pc EXCEPT ![t] = "pop"]
    BY <1>7, <2>2 DEF Open, Return, Goto
  <2>4. packet' \in [Threads -> Seq(Nat)]
    BY <1>1, <2>3, NoPacket
  <2>5. pc'[Writer] \in Holding => pc[Writer] \in Holding /\ packet'[Writer] = packet[Writer]
    BY <1>1, <2>1, <2>2, <2>3 DEF Holding, Inside
  <2> QED
    BY <2>1, <2>4, <2>5, KeepOrder
<1>8. CASE PortStep
  <2>1. UNCHANGED <<queue, arrived, journal, packet>>
    BY <1>8 DEF PortStep, Start, ResetBytes, ResetFiles, Enable, Stop, Flushed, ClampFsize, SetFsize,
                SetRunno
  <2>2. pc'[Writer] = pc[Writer]
    BY <1>1, <1>8 DEF PortStep, Start, ResetBytes, ResetFiles, Enable, Stop, Flushed, ClampFsize,
                      SetFsize, SetRunno, Goto
  <2> QED
    BY <1>1, <2>1, <2>2, KeepOrder
<1>9. CASE UNCHANGED vars
  BY <1>1, <1>9, KeepOrder DEF vars
<1>10. \/ \E n \in Sizes : Arrive(n)
       \/ \E t \in Threads : Pop(t) \/ WriteDataToFile(t)
       \/ PortStep
       \/ UNCHANGED vars
  BY DEF Next
<1> QED
  BY <1>2, <1>3, <1>4, <1>5, <1>6, <1>7, <1>8, <1>9, <1>10 DEF WriteDataToFile, Reads

\* Whatever fails, and however often acquisition is stopped and started while the
\* write thread is busy, packets are written in the order of arrival, each at most
\* once.
THEOREM OrderOnDisk == Spec => []JournalInOrder
<1>1. OrderInv => JournalInOrder
  BY DEF OrderInv, Ordered
<1> QED
  BY InitOrder, NextOrder, <1>1, PTL DEF Spec
-----------------------------------------------------------------------------
(* Types.                                                                  *)

Numbers == 1 .. MaxPackets
Names == RunNumbers \X Nat

\* TypeOK without the buffer, and the pieces in the files.
Kinds ==
  /\ arrived \in 0 .. MaxPackets
  /\ starts \in 0 .. MaxStarts
  /\ acquisitionRunning \in BOOLEAN
  /\ fileWritingEnabled \in BOOLEAN
  /\ currentFileHandle \in Names \cup {NoFile}
  /\ currentFileSize \in Nat
  /\ currentSegmentNumber \in Nat
  /\ totalBytesWritten \in Nat
  /\ totalFilesWritten \in Nat
  /\ FSIZE \in Int
  /\ RUNNO \in {{}} \cup {{v} : v \in RunNumbers}
  /\ packet \in [Threads -> Seq(Numbers)]
  /\ loaded \in [Threads -> Nat]
  /\ opened \in Seq(Names)
  /\ journal \in Seq(Numbers)
  /\ flushed \in SUBSET Numbers
  /\ \A name \in DOMAIN disk : name \in Names /\ disk[name] \in Seq(Seq(Numbers))

\* The bytes of a packet are its number.
LEMMA PacketBytes ==
  ASSUME NEW p \in Packets
  PROVE  p \in Seq(Numbers) /\ Len(p) \in Nat /\ p[1] \in Numbers
<1>1. PICK i \in 1 .. MaxPackets, n \in Sizes : p = [j \in 1 .. n |-> i]
  BY DEF Packets, PacketOf
<1>2. n \in Nat /\ n # 0
  BY AcquisitionAssumption
<1> QED
  BY <1>1, <1>2 DEF Numbers

\* No bytes.
LEMMA NoBytes == <<>> \in Seq(Numbers) /\ <<>> \in Seq(Seq(Numbers)) /\ <<>> \in Seq(Names)
OBVIOUS

\* The first state.
LEMMA InitKinds == Init => Kinds
<1> SUFFICES ASSUME Init PROVE Kinds
  OBVIOUS
<1>1. packet \in [Threads -> Seq(Numbers)]
  BY NoBytes DEF Init
<1>2. loaded \in [Threads -> Nat]
  BY DEF Init
<1>3. FSIZE \in Int /\ 0 \in 0 .. MaxStarts /\ 0 \in 0 .. MaxPackets
  BY AcquisitionAssumption DEF Init
<1>4. \A name \in DOMAIN disk : FALSE
  BY DEF Init
<1>5. /\ arrived = 0 /\ starts = 0 /\ acquisitionRunning = FALSE
      /\ fileWritingEnabled = FALSE /\ currentFileHandle = NoFile
      /\ currentFileSize = 0 /\ currentSegmentNumber = 0 /\ totalBytesWritten = 0
      /\ totalFilesWritten = 0 /\ RUNNO = {} /\ opened = <<>> /\ journal = <<>>
      /\ flushed = {}
  BY DEF Init
<1>6. opened \in Seq(Names) /\ journal \in Seq(Numbers)
  BY <1>5, NoBytes
<1> QED
  BY <1>1, <1>2, <1>3, <1>4, <1>5, <1>6 DEF Kinds

\* A packet that arrives.
LEMMA ArriveKinds ==
  ASSUME Kinds, NEW n \in Sizes, Arrive(n)
  PROVE  Kinds'
<1>1. arrived' \in 0 .. MaxPackets
  BY AcquisitionAssumption DEF Kinds, Arrive
<1> QED
  BY <1>1 DEF Kinds, Arrive, flags, file, totals, params, stored

\* A packet that is popped.
LEMMA PopKinds ==
  ASSUME Kinds, OrderInv, NEW t \in Threads, Pop(t)
  PROVE  Kinds'
<1>1. queue \in Seq(Packets) /\ queue # <<>>
  BY DEF OrderInv, Shapes, Pop, Buffer!Take
<1>2. Head(queue) \in Packets
  BY <1>1
<1>3. Head(queue) \in Seq(Numbers) /\ Head(queue)[1] \in Numbers
  BY <1>2, PacketBytes
<1>4. packet' \in [Threads -> Seq(Numbers)]
  BY <1>3 DEF Pop, Kinds
<1>5. flushed' \in SUBSET Numbers
  BY <1>3 DEF Pop, Kinds
<1> QED
  BY <1>4, <1>5 DEF Kinds, Pop, flags, file, totals, params, stored

\* Where a return leaves the buffers of the threads.
LEMMA ReturnKinds ==
  ASSUME Kinds, NEW t \in Threads, Return(t)
  PROVE  packet' \in [Threads -> Seq(Numbers)]
BY NoBytes DEF Kinds, Return

\* The steps of writeDataToFile before a file is opened.
LEMMA CloseKinds ==
  ASSUME Kinds, NEW t \in Threads,
         \/ Enter(t) \/ Measure(t) \/ Close(t) \/ CountFile(t) \/ CountBytes(t)
         \/ NextSegment(t) \/ Reads(t)
  PROVE  Kinds'
<1> USE DEF flags, file, totals, params, stored
<1>0. PICK n \in Nat : n = loaded[t]
  BY DEF Kinds
<1>1. CASE Enter(t)
  <2>1. packet' \in [Threads -> Seq(Numbers)]
    BY <1>1, ReturnKinds DEF Enter, Kinds
  <2> QED
    BY <1>1, <2>1 DEF Enter, Kinds
<1>2. CASE Measure(t)
  BY <1>2 DEF Measure, Kinds
<1>3. CASE Close(t)
  <2>1. loaded' \in [Threads -> Nat]
    BY <1>3 DEF Close, Kinds
  <2> QED
    BY <1>3, <2>1 DEF Close, Kinds
<1>4. CASE CountFile(t)
  <2>1. totalFilesWritten' \in Nat
    <3>1. totalFilesWritten' = n + 1
      BY <1>0, <1>4, Zenon DEF CountFile
    <3> QED
      BY <3>1
  <2>2. UNCHANGED <<arrived, starts, flags, file, currentSegmentNumber, totalBytesWritten,
                    params, packet, loaded, opened, journal, flushed, disk>>
    BY <1>4 DEF CountFile
  <2> QED
    BY <2>1, <2>2 DEF Kinds
<1>5. CASE CountBytes(t)
  <2>1. totalBytesWritten' \in Nat /\ currentFileSize' \in Nat
    <3>1. totalBytesWritten' = n + currentFileSize /\ currentFileSize' = 0
      BY <1>0, <1>5, Zenon DEF CountBytes
    <3> QED
      BY <3>1 DEF Kinds
  <2>2. UNCHANGED <<arrived, starts, flags, currentFileHandle, currentSegmentNumber,
                    totalFilesWritten, params, packet, loaded, opened, journal, flushed,
                    disk>>
    BY <1>5 DEF CountBytes
  <2> QED
    BY <2>1, <2>2 DEF Kinds
<1>6. CASE NextSegment(t)
  <2>1. currentSegmentNumber' \in Nat
    <3>1. currentSegmentNumber' = n + 1
      BY <1>0, <1>6, Zenon DEF NextSegment
    <3> QED
      BY <3>1
  <2> QED
    BY <1>6, <2>1 DEF NextSegment, Kinds
<1>7. CASE Reads(t)
  <2>1. loaded' \in [Threads -> Nat]
    BY <1>7, ReadsLoad DEF Kinds
  <2> QED
    BY <1>7, <2>1, ReadsLoad DEF Kinds
<1> QED
  BY <1>1, <1>2, <1>3, <1>4, <1>5, <1>6, <1>7

\* The names a file may get.
LEMMA FilenamesType ==
  ASSUME Kinds, NEW t \in Threads, NEW name \in Filenames(loaded[t])
  PROVE  name \in Names /\ name[2] = loaded[t]
BY DEF Kinds, Filenames, Names

\* A file is opened.
LEMMA OpenKinds ==
  ASSUME Kinds, NEW t \in Threads, Open(t)
  PROVE  Kinds'
<1> USE DEF flags, file, totals, params
<1>1. CASE Return(t) /\ UNCHANGED <<file, disk, opened>>
  <2>1. packet' \in [Threads -> Seq(Numbers)]
    BY <1>1, ReturnKinds
  <2> QED
    BY <1>1, <2>1 DEF Open, Kinds
<1>2. ASSUME NEW name \in Filenames(loaded[t]),
             /\ currentFileHandle' = name
             /\ currentFileSize' = 0
             /\ disk' = [f \in DOMAIN disk \cup {name} |-> IF f = name THEN <<>> ELSE disk[f]]
             /\ opened' = Append(opened, name)
             /\ UNCHANGED packet
      PROVE  Kinds'
  <2>1. name \in Names
    BY FilenamesType
  <2>2. opened' \in Seq(Names)
    BY <1>2, <2>1 DEF Kinds
  <2>3. \A f \in DOMAIN disk' : f \in Names /\ disk'[f] \in Seq(Seq(Numbers))
    BY <1>2, <2>1, NoBytes DEF Kinds
  <2> QED
    BY <1>2, <2>1, <2>2, <2>3 DEF Open, Kinds
<1> QED
  BY <1>1, <1>2, Zenon DEF Open

\* A piece of a packet is a sequence of its bytes.
LEMMA PieceType ==
  ASSUME NEW s \in Seq(Numbers), NEW k \in 0 .. Len(s)
  PROVE  SubSeq(s, 1, k) \in Seq(Numbers)
OBVIOUS

\* A packet is written, or a piece of it.
LEMMA StoreKinds ==
  ASSUME Kinds, NEW t \in Threads, NEW k \in 0 .. Len(packet[t]), Store(t, k)
  PROVE  \A f \in DOMAIN disk' : f \in Names /\ disk'[f] \in Seq(Seq(Numbers))
<1>1. SubSeq(packet[t], 1, k) \in Seq(Numbers)
  BY PieceType DEF Kinds
<1> QED
  BY <1>1 DEF Kinds, Store

\* write(), with each of its outcomes.
LEMMA WriteKinds ==
  ASSUME Kinds, OrderInv, Write(Writer)
  PROVE  Kinds'
<1> USE DEF flags, file, totals, params
<1>1. Writer \in Threads
  BY DEF Threads
<1>2. packet[Writer] \in Packets
  BY DEF OrderInv, Shapes, Write, Holding, Inside
<1>3. packet[Writer] \in Seq(Numbers) /\ Len(packet[Writer]) \in Nat /\ packet[Writer][1] \in Numbers
  BY <1>2, PacketBytes
<1>4. packet' \in [Threads -> Seq(Numbers)]
  BY <1>1, ReturnKinds DEF Write
<1> DEFINE Pieces == \A f \in DOMAIN disk' : f \in Names /\ disk'[f] \in Seq(Seq(Numbers))
<1>5. currentFileSize' \in Nat /\ journal' \in Seq(Numbers) /\ Pieces
  <2>1. CASE /\ Store(Writer, Len(packet[Writer]))
             /\ currentFileSize' = currentFileSize + Len(packet[Writer])
             /\ journal' = Append(journal, packet[Writer][1])
    <3>1. Len(packet[Writer]) \in 0 .. Len(packet[Writer])
      BY <1>3
    <3>2. Pieces
      BY <1>1, <2>1, <3>1, StoreKinds, Zenon
    <3> QED
      BY <1>3, <2>1, <3>2 DEF Kinds
  <2>2. ASSUME NEW k \in 1 .. Len(packet[Writer]) - 1, Store(Writer, k),
               UNCHANGED <<currentFileSize, journal>>
        PROVE  currentFileSize' \in Nat /\ journal' \in Seq(Numbers) /\ Pieces
    <3>1. k \in 0 .. Len(packet[Writer])
      BY <1>3
    <3>2. Pieces
      BY <1>1, <2>2, <3>1, StoreKinds, Zenon
    <3> QED
      BY <2>2, <3>2 DEF Kinds
  <2>3. CASE UNCHANGED <<disk, currentFileSize, journal>>
    BY <2>3 DEF Kinds
  <2> QED
    BY <2>1, <2>2, <2>3, Zenon DEF Write
<1> QED
  BY <1>4, <1>5 DEF Write, Kinds

\* The port thread.
LEMMA PortKinds ==
  ASSUME Kinds, PortStep
  PROVE  Kinds'
<1> USE DEF flags, file, totals, params, stored
<1>1. CASE Start
  <2>1. starts' \in 0 .. MaxStarts
    BY <1>1, AcquisitionAssumption DEF Start, Kinds
  <2> QED
    BY <1>1, <2>1 DEF Start, Kinds
<1>2. CASE ResetBytes
  BY <1>2 DEF ResetBytes, Kinds
<1>9. CASE ResetFiles
  BY <1>9 DEF ResetFiles, Kinds
<1>3. CASE Enable
  BY <1>3 DEF Enable, Kinds
<1>4. CASE Stop
  BY <1>4 DEF Stop, Kinds
<1>5. CASE Flushed
  BY <1>5 DEF Flushed, Kinds
<1>6. CASE ClampFsize
  <2>1. FSIZE' \in Int
    BY <1>6, AcquisitionAssumption DEF ClampFsize, Kinds
  <2> QED
    BY <1>6, <2>1 DEF ClampFsize, Kinds
<1>7. ASSUME NEW value \in FsizeValues, SetFsize(value) PROVE Kinds'
  <2>1. FSIZE' \in Int
    BY <1>7, AcquisitionAssumption DEF SetFsize
  <2> QED
    BY <1>7, <2>1 DEF SetFsize, Kinds
<1>8. ASSUME NEW value \in RunNumbers, SetRunno(value) PROVE Kinds'
  <2>1. RUNNO' \in {{v} : v \in RunNumbers}
    BY <1>8 DEF SetRunno
  <2> QED
    BY <1>8, <2>1 DEF SetRunno, Kinds
<1> QED
  BY <1>1, <1>2, <1>3, <1>4, <1>5, <1>6, <1>7, <1>8, <1>9 DEF PortStep

\* Who is inside writeDataToFile is the write thread.
LEMMA InsideIsWriter ==
  ASSUME PortInv, NEW t \in Threads, pc[t] \in Inside
  PROVE  t = Writer
BY DEF PortInv, OneFileWriter, Threads

\* Every step.
LEMMA NextKinds == Kinds /\ OrderInv /\ [Next]_vars => Kinds'
<1> SUFFICES ASSUME Kinds, OrderInv, [Next]_vars PROVE Kinds'
  OBVIOUS
<1>1. ASSUME NEW t \in Threads, Write(t) PROVE Kinds'
  <2>1. t = Writer
    BY <1>1, InsideIsWriter DEF OrderInv, Write, Inside
  <2> QED
    BY <1>1, <2>1, WriteKinds
<1>2. ASSUME NEW t \in Threads, WriteDataToFile(t) PROVE Kinds'
  BY <1>1, <1>2, CloseKinds, OpenKinds, Zenon DEF WriteDataToFile, Reads
<1>3. CASE UNCHANGED vars
  BY <1>3 DEF vars, flags, file, totals, params, stored, Kinds
<1> QED
  BY <1>2, <1>3, ArriveKinds, PopKinds, PortKinds, Zenon DEF Next

\* The bytes used are what the packets of the queue cost: a running sum of the costs,
\* from the first to the one behind the last, grows from some value by all of them.
Costs ==
  /\ used <= Capacity
  /\ \E sum \in [Nat -> Nat] :
       /\ \A j, k \in Nat : j <= k => sum[j] <= sum[k]
       /\ \A k \in 1 .. Len(queue) : sum[k + 1] = sum[k] + Overhead + Len(queue[k])
       /\ used = sum[Len(queue) + 1] - sum[1]

\* sum[m + 1] is followed by a sum larger by c.
LEMMA SumExtended ==
  ASSUME NEW sum \in [Nat -> Nat], \A j, k \in Nat : j <= k => sum[j] <= sum[k],
         NEW m \in Nat, NEW c \in Nat
  PROVE  \E new \in [Nat -> Nat] :
           /\ \A j, k \in Nat : j <= k => new[j] <= new[k]
           /\ \A k \in 1 .. m + 1 : new[k] = sum[k]
           /\ new[m + 2] = sum[m + 1] + c
<1> DEFINE new == [k \in Nat |-> IF k <= m + 1 THEN sum[k] ELSE sum[m + 1] + c]
<1>1. new \in [Nat -> Nat]
  OBVIOUS
<1>2. \A j, k \in Nat : j <= k => new[j] <= new[k]
  OBVIOUS
<1>3. \A k \in 1 .. m + 1 : new[k] = sum[k]
  OBVIOUS
<1>4. new[m + 2] = sum[m + 1] + c
  OBVIOUS
<1> HIDE DEF new
<1> QED
  BY <1>1, <1>2, <1>3, <1>4, Zenon

\* The packet that arrives costs what is added.
LEMMA ArriveCosts ==
  ASSUME Costs, OrderInv, NEW n \in Sizes, Arrive(n)
  PROVE  Costs'
<1>1. queue \in Seq(Packets) /\ arrived \in Nat
  BY DEF OrderInv, Shapes
<1>2. CASE UNCHANGED buffer
  BY <1>2 DEF buffer, Costs
<1>3. CASE used + Overhead + n <= Capacity /\ Buffer!Put(PacketOf(arrived + 1, n))
  <2>1. PICK p \in Packets : p = PacketOf(arrived + 1, n)
    BY <1>1, PacketNumber, AcquisitionAssumption DEF Arrive
  <2>2. Len(p) \in Nat /\ Overhead \in Nat
    BY <2>1, PacketBytes, AcquisitionAssumption
  <2>3. PICK sum \in [Nat -> Nat] :
          /\ \A j, k \in Nat : j <= k => sum[j] <= sum[k]
          /\ \A k \in 1 .. Len(queue) : sum[k + 1] = sum[k] + Overhead + Len(queue[k])
          /\ used = sum[Len(queue) + 1] - sum[1]
    BY Zenon DEF Costs
  <2>4. PICK m \in Nat : m = Len(queue)
    BY <1>1, LenProperties
  <2>5. sum[m + 1] \in Nat /\ sum[1] \in Nat
    <3>1. m + 1 \in Nat /\ 1 \in Nat
      OBVIOUS
    <3> QED
      BY <3>1, Zenon
  <2>6. used = sum[m + 1] - sum[1]
    BY <2>3, <2>4, Zenon
  <2>7. queue' = Append(queue, p) /\ used' = used + (Overhead + Len(p))
        /\ used + (Overhead + Len(p)) <= Capacity
    BY <1>3, <2>1, Zenon DEF Buffer!Put, Buffer!Cost
  <2>8. PICK new \in [Nat -> Nat] :
          /\ \A j, k \in Nat : j <= k => new[j] <= new[k]
          /\ \A k \in 1 .. m + 1 : new[k] = sum[k]
          /\ new[m + 2] = sum[m + 1] + (Overhead + Len(p))
    <3>1. Overhead + Len(p) \in Nat
      BY <2>2
    <3> QED
      BY <2>3, <3>1, SumExtended, Zenon
  <2>9. /\ Len(queue') = m + 1 /\ queue'[m + 1] = p
        /\ \A k \in 1 .. m : queue'[k] = queue[k]
    BY <1>1, <2>1, <2>7, <2>4
  <2>10. \A k \in 1 .. m + 1 : new[k + 1] = new[k] + Overhead + Len(queue'[k])
    <3> SUFFICES ASSUME NEW k \in 1 .. m + 1
                 PROVE  new[k + 1] = new[k] + Overhead + Len(queue'[k])
      OBVIOUS
    <3>1. CASE k = m + 1
      <4>1. k + 1 = m + 2
        BY <3>1
      <4>2. new[k + 1] = sum[m + 1] + (Overhead + Len(p)) /\ new[k] = sum[m + 1]
        BY <2>8, <3>1, <4>1, Zenon
      <4>3. queue'[k] = p
        BY <2>9, <3>1, Zenon
      <4>4. \A a, b, c \in Nat : a + (b + c) = a + b + c
        OBVIOUS
      <4>5. sum[m + 1] + (Overhead + Len(p)) = sum[m + 1] + Overhead + Len(p)
        BY <2>2, <2>5, <4>4, Zenon
      <4> QED
        BY <4>2, <4>3, <4>5, Zenon
    <3>2. CASE k \in 1 .. m
      <4>1. k \in 1 .. m + 1 /\ k + 1 \in 1 .. m + 1
        BY <3>2
      <4>2. new[k + 1] = sum[k + 1] /\ new[k] = sum[k]
        BY <2>8, <4>1, Zenon
      <4>3. sum[k + 1] = sum[k] + Overhead + Len(queue[k])
        BY <2>3, <2>4, <3>2, Zenon
      <4> QED
        BY <2>9, <3>2, <4>2, <4>3, Zenon
    <3> QED
      BY <3>1, <3>2
  <2>11. used' = new[m + 2] - new[1]
    <3>1. 1 \in 1 .. m + 1
      OBVIOUS
    <3>2. new[1] = sum[1]
      BY <2>8, <3>1, Zenon
    <3>3. new[m + 2] = sum[m + 1] + (Overhead + Len(p))
      BY <2>8, Zenon
    <3>4. (sum[m + 1] - sum[1]) + (Overhead + Len(p))
            = (sum[m + 1] + (Overhead + Len(p))) - sum[1]
      <4>1. \A a, b, c \in Nat : (a - b) + c = (a + c) - b
        OBVIOUS
      <4>2. Overhead + Len(p) \in Nat
        BY <2>2
      <4> QED
        BY <2>5, <4>1, <4>2, Zenon
    <3> QED
      BY <2>6, <2>7, <3>2, <3>3, <3>4, Zenon
  <2>12. Len(queue') + 1 = m + 2 /\ Len(queue') = m + 1
    BY <2>9
  <2>13. used' <= Capacity
    BY <2>7, Zenon
  <2> QED
    BY <2>8, <2>10, <2>11, <2>12, <2>13, Zenon DEF Costs
<1> QED
  BY <1>2, <1>3, Zenon DEF Arrive

\* The packet that leaves the queue is the first one of the sum.
LEMMA PopCosts ==
  ASSUME Costs, OrderInv, NEW t \in Threads, Pop(t)
  PROVE  Costs'
<1>1. queue \in Seq(Packets) /\ queue # <<>> /\ queue' = Tail(queue)
  BY DEF OrderInv, Shapes, Pop, Buffer!Take
<1>2. used' = used - (Overhead + Len(Head(queue)))
  BY Zenon DEF Pop, Buffer!Take, Buffer!Cost
<1>3. PICK sum \in [Nat -> Nat] :
        /\ \A j, k \in Nat : j <= k => sum[j] <= sum[k]
        /\ \A k \in 1 .. Len(queue) : sum[k + 1] = sum[k] + Overhead + Len(queue[k])
        /\ used = sum[Len(queue) + 1] - sum[1]
  BY Zenon DEF Costs
<1>4. PICK m \in Nat : Len(queue) = m + 1
  <2>1. Len(queue) \in Nat /\ Len(queue) # 0
    BY <1>1
  <2>2. Len(queue) - 1 \in Nat /\ Len(queue) = (Len(queue) - 1) + 1
    BY <2>1
  <2> QED
    BY <2>2, Zenon
<1>5. /\ Len(queue') = m
      /\ \A k \in 1 .. m : queue'[k] = queue[k + 1]
      /\ Head(queue) = queue[1] /\ Head(queue) \in Packets
  BY <1>1, <1>4
<1>6. Len(Head(queue)) \in Nat /\ Overhead \in Nat
  BY <1>5, PacketBytes, AcquisitionAssumption
<1> DEFINE new == [k \in Nat |-> sum[k + 1]]
<1>7. new \in [Nat -> Nat]
  <2>1. \A k \in Nat : k + 1 \in Nat
    OBVIOUS
  <2>2. \A k \in Nat : sum[k + 1] \in Nat
    BY <2>1, Zenon
  <2> QED
    BY <2>2, Zenon
<1>8. \A j, k \in Nat : j <= k => new[j] <= new[k]
  <2> SUFFICES ASSUME NEW j \in Nat, NEW k \in Nat, j <= k PROVE sum[j + 1] <= sum[k + 1]
    OBVIOUS
  <2>1. j + 1 \in Nat /\ k + 1 \in Nat /\ j + 1 <= k + 1
    OBVIOUS
  <2> QED
    BY <1>3, <2>1, Zenon
<1>9. \A k \in 1 .. m : new[k + 1] = new[k] + Overhead + Len(queue'[k])
  <2> SUFFICES ASSUME NEW k \in 1 .. m
               PROVE  new[k + 1] = new[k] + Overhead + Len(queue'[k])
    OBVIOUS
  <2>1. k + 1 \in 1 .. Len(queue)
    BY <1>4
  <2>2. sum[(k + 1) + 1] = sum[k + 1] + Overhead + Len(queue[k + 1])
    BY <1>3, <2>1, Zenon
  <2>3. new[k + 1] = sum[(k + 1) + 1] /\ new[k] = sum[k + 1]
    OBVIOUS
  <2>4. queue'[k] = queue[k + 1]
    BY <1>5, Zenon
  <2> QED
    BY <2>2, <2>3, <2>4, Zenon
<1>10. used' = new[m + 1] - new[1]
  <2>1. 1 \in 1 .. Len(queue)
    BY <1>4
  <2>2. sum[2] = sum[1] + Overhead + Len(Head(queue))
    <3>1. sum[1 + 1] = sum[1] + Overhead + Len(queue[1])
      BY <1>3, <2>1, Zenon
    <3>2. 1 + 1 = 2
      OBVIOUS
    <3> QED
      BY <1>5, <3>1, <3>2, Zenon
  <2>3. used = sum[m + 2] - sum[1]
    <3>1. Len(queue) + 1 = m + 2
      BY <1>4
    <3> QED
      BY <1>3, <3>1, Zenon
  <2>4. new[m + 1] = sum[m + 2] /\ new[1] = sum[2]
    OBVIOUS
  <2>5. sum[m + 2] \in Nat /\ sum[1] \in Nat
    <3>1. m + 2 \in Nat /\ 1 \in Nat
      OBVIOUS
    <3> QED
      BY <3>1, Zenon
  <2>6. PICK a \in Nat, b \in Nat, c \in Nat, d \in Nat :
          a = sum[m + 2] /\ b = sum[1] /\ c = Overhead /\ d = Len(Head(queue))
    BY <1>6, <2>5, Zenon
  <2>7. (a - b) - (c + d) = a - (b + c + d)
    OBVIOUS
  <2>8. (sum[m + 2] - sum[1]) - (Overhead + Len(Head(queue)))
          = sum[m + 2] - (sum[1] + Overhead + Len(Head(queue)))
    BY <2>6, <2>7, Zenon
  <2> HIDE DEF new
  <2> QED
    BY <1>2, <2>2, <2>3, <2>4, <2>8, Zenon
<1>11. used' <= Capacity
  <2>1. used \in Int
    <3>1. Len(queue) + 1 \in Nat /\ 1 \in Nat
      BY <1>4
    <3>2. PICK a \in Nat, b \in Nat : a = sum[Len(queue) + 1] /\ b = sum[1]
      BY <3>1, Zenon
    <3>3. a - b \in Int
      OBVIOUS
    <3> QED
      BY <1>3, <3>2, <3>3, Zenon
  <2>2. used <= Capacity /\ Capacity \in Nat
    BY AcquisitionAssumption, Zenon DEF Costs
  <2>3. Overhead + Len(Head(queue)) \in Nat
    BY <1>6
  <2> QED
    BY <1>2, <2>1, <2>2, <2>3
<1>12. used' = new[Len(queue') + 1] - new[1]
  BY <1>5, <1>10, Zenon
<1>13. \A k \in 1 .. Len(queue') : new[k + 1] = new[k] + Overhead + Len(queue'[k])
  BY <1>5, <1>9, Zenon
<1> HIDE DEF new
<1> QED
  BY <1>7, <1>8, <1>11, <1>12, <1>13, Zenon DEF Costs

\* Nothing else touches the queue.
LEMMA NextCosts == Costs /\ OrderInv /\ [Next]_vars => Costs'
<1> SUFFICES ASSUME Costs, OrderInv, [Next]_vars PROVE Costs'
  OBVIOUS
<1>1. CASE UNCHANGED buffer
  BY <1>1 DEF buffer, Costs
<1>2. ASSUME NEW t \in Threads, WriteDataToFile(t) PROVE UNCHANGED buffer
  BY <1>2 DEF WriteDataToFile, Enter, Measure, Close, CountFile, CountBytes, NextSegment,
              Open, Write, ReadBytes, ReadSegment, ReadNumber, Load
<1>3. ASSUME PortStep PROVE UNCHANGED buffer
  BY <1>3 DEF PortStep, Start, ResetBytes, ResetFiles, Enable, Stop, Flushed, ClampFsize, SetFsize,
              SetRunno
<1>4. CASE UNCHANGED vars
  BY <1>1, <1>4 DEF vars
<1> QED
  BY <1>1, <1>2, <1>3, <1>4, ArriveCosts, PopCosts, Zenon DEF Next

\* The empty queue costs nothing.
LEMMA InitCosts == Init => Costs
<1> SUFFICES ASSUME Init PROVE Costs
  OBVIOUS
<1>1. queue = <<>> /\ used = 0
  BY DEF Init, Buffer!Init
<1> DEFINE sum == [k \in Nat |-> 0]
<1>2. sum \in [Nat -> Nat] /\ \A j, k \in Nat : j <= k => sum[j] <= sum[k]
  OBVIOUS
<1>3. \A k \in 1 .. Len(queue) : sum[k + 1] = sum[k] + Overhead + Len(queue[k])
  BY <1>1
<1>4. used = sum[Len(queue) + 1] - sum[1]
  BY <1>1
<1>5. used <= Capacity
  BY <1>1, AcquisitionAssumption
<1> HIDE DEF sum
<1> QED
  BY <1>2, <1>3, <1>4, <1>5, Zenon DEF Costs

\* What the sum says of the bytes used.
LEMMA CostsBound == Costs /\ OrderInv => used \in 0 .. Capacity
<1> SUFFICES ASSUME Costs, OrderInv PROVE used \in 0 .. Capacity
  OBVIOUS
<1>1. PICK sum \in [Nat -> Nat] :
        /\ \A j, k \in Nat : j <= k => sum[j] <= sum[k]
        /\ used = sum[Len(queue) + 1] - sum[1]
  BY Zenon DEF Costs
<1>2. PICK m \in Nat : m = Len(queue)
  BY LenProperties DEF OrderInv, Shapes
<1>3. 1 \in Nat /\ m + 1 \in Nat /\ 1 <= m + 1
  OBVIOUS
<1>4. sum[1] <= sum[m + 1]
  BY <1>1, <1>3, Zenon
<1>5. sum[1] \in Nat /\ sum[m + 1] \in Nat
  BY <1>3, Zenon
<1>6. used = sum[m + 1] - sum[1]
  BY <1>1, <1>2, Zenon
<1>7. used <= Capacity /\ Capacity \in Nat
  BY AcquisitionAssumption, Zenon DEF Costs
<1> QED
  BY <1>4, <1>5, <1>6, <1>7

\* Both parts of the types, with the order they rest on.
TypesInv == OrderInv /\ Kinds /\ Costs

\* Every step keeps them.
LEMMA NextTypes == TypesInv /\ [Next]_vars => TypesInv'
BY NextOrder, NextKinds, NextCosts DEF TypesInv

\* They are the types of the module.
LEMMA TypesInvIsTypeOK == TypesInv => TypeOK
<1> SUFFICES ASSUME TypesInv PROVE TypeOK
  OBVIOUS
<1>1. queue \in Seq(Packets) /\ pc \in [Threads -> Labels]
  BY DEF TypesInv, OrderInv, Shapes, PortInv
<1>2. used \in 0 .. Capacity
  BY CostsBound DEF TypesInv
<1> QED
  BY <1>1, <1>2, Zenon DEF TypesInv, Kinds, TypeOK, Numbers, Names

\* Types, for any sizes, limits, errors and number of acquisitions, in whatever order
\* the threads run (writeDataToFile, startDataAcquisition, stopDataAcquisition); the
\* write buffer never holds more than its capacity, nor less than nothing.
THEOREM TypesCorrect == Spec => []TypeOK
<1>1. Init => TypesInv
  BY InitOrder, InitKinds, InitCosts DEF TypesInv
<1> QED
  BY <1>1, NextTypes, TypesInvIsTypeOK, PTL DEF Spec
=============================================================================
