---------------------------- MODULE WriteBuffer -----------------------------
(***************************************************************************)
(* The circular buffer between the thread that receives packets and the    *)
(* thread that writes them to disk (germaniumDetectorDataAcq.cpp):         *)
(*                                                                         *)
(*   addDataToWriteBuffer   the data thread stores a packet behind a       *)
(*                          header of Hdr bytes that holds its size;       *)
(*   dataWriteThread        pops packets and hands them to                 *)
(*                          writeDataToFile;                               *)
(*   flushWriteBuffer       the port thread pops what is left when         *)
(*                          acquisition stops.                             *)
(*                                                                         *)
(* Bytes are abstracted to what identifies them: the byte stored in a cell *)
(* is the number of bytes stored before it (its position in the stream of  *)
(* everything ever stored), so a byte that is lost, overwritten or read    *)
(* from the wrong cell is recognised.  The size stored in a header is the  *)
(* size of the record of "accepted" that starts at the header's bytes.     *)
(*                                                                         *)
(* Each critical section of writeBufferMutex is two steps, one for the     *)
(* header and one for the data, so that the reads of writeBufferCount that *)
(* the loops make without the mutex can fall between them.                 *)
(*                                                                         *)
(* addDataToWriteBuffer has no caller at this commit (its caller is        *)
(* commented out in udpDataThread); "Receive" is the call it is written    *)
(* for, on a buffer set up by setupDataAcquisition.                        *)
(***************************************************************************)
EXTENDS Naturals, Sequences, FiniteSets

CONSTANTS
  BufSize,      \* DATA_WRITE_BUFFER_SIZE
  Hdr,          \* sizeof(size_t), the bytes of a header
  Sizes,        \* the sizes of the packets that may arrive
  MaxStream,    \* bound: bytes stored in a behaviour, headers included
  NoByte,       \* content of a cell never written
  Nobody        \* holder of a free mutex

ASSUME BufferAssumption ==
  /\ Hdr \in Nat \ {0}
  /\ BufSize \in Nat
  /\ BufSize >= 2 * Hdr
  /\ Sizes \subseteq Nat
  /\ MaxStream \in Nat
  /\ NoByte \notin Nat
  /\ Nobody \notin {"udpData", "dataWrite", "port"}

Data == "udpData"          \* udpDataThread
Writer == "dataWrite"      \* dataWriteThread
Port == "port"             \* the asyn port thread inside stopDataAcquisition
Consumers == {Writer, Port}
Threads == {Data} \cup Consumers

Cells == 0 .. BufSize - 1

VARIABLES
  dataWriteBuffer,      \* [Cells -> stream position or NoByte]
  writeBufferHead,
  writeBufferTail,
  writeBufferCount,
  writeBufferMutex,     \* the thread that holds it, or Nobody
  dataWriteAvailable,   \* TRUE while the event is signalled
  threadsRunning,
  pc,                   \* where each thread is
  dataSize,             \* the local of that name, of each thread
  wrote,                \* history: bytes stored in all, headers included
  accepted,             \* history: the records stored, [at, size]
  taken                 \* history: the buffers filled by the consumers

vars == <<dataWriteBuffer, writeBufferHead, writeBufferTail, writeBufferCount,
          writeBufferMutex, dataWriteAvailable, threadsRunning, pc, dataSize,
          wrote, accepted, taken>>

ring == <<dataWriteBuffer, writeBufferHead, writeBufferTail, writeBufferCount>>
history == <<wrote, accepted, taken>>

-----------------------------------------------------------------------------
(* Circular addressing of the two-part memcpy.                             *)

FirstPart(start) == BufSize - start

\* Fault: the second memcpy is forgotten.
OffsetOfFirstPart(start, i) == IF i >= start THEN i - start ELSE BufSize

\* The number, within a copy that starts at cell "start", of the byte in cell i.
Offset(start, i) == IF i >= start THEN i - start ELSE i + FirstPart(start)

\* The cell of byte number j of a copy that starts at cell "start".
Place(start, j) == IF j < FirstPart(start) THEN start + j ELSE j - FirstPart(start)

\* Fault: the index is not brought back to the start of the buffer.
AfterUnwrapped(start, n) == start + n

\* The index after a copy of n bytes that starts at cell "start".
After(start, n) ==
  IF start + n <= BufSize THEN (start + n) % BufSize ELSE n - FirstPart(start)

\* The index after the header that starts at cell "start".
AfterHeader(start) == (start + Hdr) % BufSize

\* The stream positions that hold the data of record r.
BytesOf(r) == [j \in 1 .. r.size |-> r.at + Hdr + j - 1]

\* The values a read of the header at cell "start" may return.  The header is
\* read as one word, with no wrap-around: past the last cell, and over bytes
\* that are no header, the value is arbitrary (BufSize stands for any larger one).
HeaderValues(start) ==
  LET hits == {k \in DOMAIN accepted :
                 /\ start + Hdr <= BufSize
                 /\ \A j \in 0 .. Hdr - 1 :
                      dataWriteBuffer[start + j] = accepted[k].at + j}
  IN  IF hits # {} THEN {accepted[k].size : k \in hits} ELSE 0 .. BufSize

-----------------------------------------------------------------------------
Init ==
  /\ dataWriteBuffer = [i \in Cells |-> NoByte]
  /\ writeBufferHead = 0
  /\ writeBufferTail = 0
  /\ writeBufferCount = 0
  /\ writeBufferMutex = Nobody
  /\ dataWriteAvailable = FALSE
  /\ threadsRunning = TRUE
  /\ pc = [t \in Threads |-> IF t = Data THEN "recv"
                             ELSE IF t = Writer THEN "wait" ELSE "idle"]
  /\ dataSize = [t \in Threads |-> 0]
  /\ wrote = 0
  /\ accepted = <<>>
  /\ taken = <<>>

Goto(t, label) == pc' = [pc EXCEPT ![t] = label]

\* The local of thread t is dead.
Forget(t) == dataSize' = [dataSize EXCEPT ![t] = 0]

-----------------------------------------------------------------------------
(* The data thread.                                                        *)

\* A packet of n bytes arrives and addDataToWriteBuffer is called with it.
Receive(n) ==
  /\ pc[Data] = "recv"
  /\ threadsRunning
  /\ wrote + Hdr + n <= MaxStream
  /\ dataSize' = [dataSize EXCEPT ![Data] = n]
  /\ Goto(Data, "add")
  /\ UNCHANGED <<ring, writeBufferMutex, dataWriteAvailable, threadsRunning, history>>

\* The loop of the data thread ends once the threads are told to stop.
DataStopped ==
  /\ pc[Data] = "recv"
  /\ ~threadsRunning
  /\ Goto(Data, "stopped")
  /\ UNCHANGED <<ring, writeBufferMutex, dataWriteAvailable, threadsRunning, dataSize,
                 history>>

Refused(n) == n = 0 \/ n > BufSize \div 4

\* Fault: the bytes of the header are not counted.
FitsWithoutHeader(n) == writeBufferCount + n <= BufSize

Fits(n) == writeBufferCount + n + Hdr <= BufSize

\* The packet is refused before the mutex is taken, or dropped under it.
AddRefused ==
  /\ pc[Data] = "add"
  /\ \/ Refused(dataSize[Data])
     \/ writeBufferMutex = Nobody /\ ~Fits(dataSize[Data])
  /\ Forget(Data)
  /\ Goto(Data, "recv")
  /\ UNCHANGED <<ring, writeBufferMutex, dataWriteAvailable, threadsRunning,
                 history>>

\* Fault: the mutex is not waited for.
AddHeaderUnlocked ==
  /\ pc[Data] = "add"
  /\ ~Refused(dataSize[Data])
  /\ Fits(dataSize[Data])
  /\ writeBufferMutex' = Data
  /\ dataWriteBuffer' =
       [i \in Cells |-> IF writeBufferHead <= i /\ i < writeBufferHead + Hdr
                          THEN wrote + (i - writeBufferHead)
                          ELSE dataWriteBuffer[i]]
  /\ writeBufferHead' = AfterHeader(writeBufferHead)
  /\ writeBufferCount' = writeBufferCount + Hdr
  /\ wrote' = wrote + Hdr
  /\ Goto(Data, "data")
  /\ UNCHANGED <<writeBufferTail, dataWriteAvailable, threadsRunning, dataSize,
                 accepted, taken>>

\* The mutex is taken, the packet fits, and its header is stored in one word:
\* the bytes past the last cell, if any, are outside the buffer.
AddHeader ==
  /\ pc[Data] = "add"
  /\ ~Refused(dataSize[Data])
  /\ writeBufferMutex = Nobody
  /\ Fits(dataSize[Data])
  /\ writeBufferMutex' = Data
  /\ dataWriteBuffer' =
       [i \in Cells |-> IF writeBufferHead <= i /\ i < writeBufferHead + Hdr
                          THEN wrote + (i - writeBufferHead)
                          ELSE dataWriteBuffer[i]]
  /\ writeBufferHead' = AfterHeader(writeBufferHead)
  /\ writeBufferCount' = writeBufferCount + Hdr
  /\ wrote' = wrote + Hdr
  /\ Goto(Data, "data")
  /\ UNCHANGED <<writeBufferTail, dataWriteAvailable, threadsRunning, dataSize,
                 accepted, taken>>

\* The data is copied, around the end if need be, and the mutex released.
AddData ==
  /\ pc[Data] = "data"
  /\ dataWriteBuffer' =
       [i \in Cells |-> IF Offset(writeBufferHead, i) < dataSize[Data]
                          THEN wrote + Offset(writeBufferHead, i)
                          ELSE dataWriteBuffer[i]]
  /\ writeBufferHead' = After(writeBufferHead, dataSize[Data])
  /\ writeBufferCount' = writeBufferCount + dataSize[Data]
  /\ writeBufferMutex' = Nobody
  /\ wrote' = wrote + dataSize[Data]
  /\ accepted' = Append(accepted, [at |-> wrote - Hdr, size |-> dataSize[Data]])
  /\ Forget(Data)
  /\ Goto(Data, "signal")
  /\ UNCHANGED <<writeBufferTail, dataWriteAvailable, threadsRunning, taken>>

\* Fault: the event is not signalled.
AddSilent ==
  /\ pc[Data] = "signal"
  /\ Goto(Data, "recv")
  /\ UNCHANGED <<ring, writeBufferMutex, dataWriteAvailable, threadsRunning, dataSize,
                 history>>

\* epicsEventSignal, after the mutex is released.
AddSignal ==
  /\ pc[Data] = "signal"
  /\ dataWriteAvailable' = TRUE
  /\ Goto(Data, "recv")
  /\ UNCHANGED <<ring, writeBufferMutex, threadsRunning, dataSize, history>>

-----------------------------------------------------------------------------
(* The two consumers.                                                      *)

\* epicsEventWaitWithTimeout returns: the event was signalled or a second passed.
Wake ==
  /\ pc[Writer] = "wait"
  /\ dataWriteAvailable' = FALSE
  /\ Goto(Writer, "test")
  /\ UNCHANGED <<ring, writeBufferMutex, threadsRunning, dataSize, history>>

\* stopDataAcquisition calls flushWriteBuffer.
StartFlush ==
  /\ pc[Port] = "idle"
  /\ Goto(Port, "test")
  /\ UNCHANGED <<ring, writeBufferMutex, dataWriteAvailable, threadsRunning, dataSize,
                 history>>

\* Only the writer's loops test threadsRunning.
MayLoop(c) == c = Writer => threadsRunning

\* Fault: the end of the inner loop ends the write thread.
LoopExitForGood(c) == IF c = Port THEN "idle" ELSE "stopped"

\* Fault: the loop of the flush has no end.
LoopExitNever(c) == IF c = Port THEN "test" ELSE IF threadsRunning THEN "wait" ELSE "stopped"

\* Where a consumer goes when its inner loop ends.
LoopExit(c) ==
  IF c = Port THEN "idle" ELSE IF threadsRunning THEN "wait" ELSE "stopped"

\* The loop condition reads writeBufferCount without the mutex.
Test(c) ==
  /\ pc[c] = "test"
  /\ Goto(c, IF writeBufferCount > 0 /\ MayLoop(c) THEN "lock" ELSE LoopExit(c))
  /\ UNCHANGED <<ring, writeBufferMutex, dataWriteAvailable, threadsRunning, dataSize,
                 history>>

\* Under the mutex there is no header any more: the other consumer was faster.
\* The flush also clears the count.
TakeNothing(c) ==
  /\ pc[c] = "lock"
  /\ writeBufferMutex = Nobody
  /\ writeBufferCount < Hdr
  /\ writeBufferCount' = IF c = Port THEN 0 ELSE writeBufferCount
  /\ Goto(c, LoopExit(c))
  /\ UNCHANGED <<dataWriteBuffer, writeBufferHead, writeBufferTail, writeBufferMutex,
                 dataWriteAvailable, threadsRunning, dataSize, history>>

\* The header promises more bytes than are stored: the writer resets the buffer,
\* the flush only its count.
TakeCorrupt(c) ==
  /\ pc[c] = "lock"
  /\ writeBufferMutex = Nobody
  /\ writeBufferCount >= Hdr
  /\ \E n \in HeaderValues(writeBufferTail) : writeBufferCount - Hdr < n
  /\ writeBufferCount' = 0
  /\ IF c = Writer
       THEN writeBufferHead' = 0 /\ writeBufferTail' = 0
       ELSE UNCHANGED <<writeBufferHead, writeBufferTail>>
  /\ Goto(c, LoopExit(c))
  /\ UNCHANGED <<dataWriteBuffer, writeBufferMutex, dataWriteAvailable,
                 threadsRunning, dataSize, history>>

\* Fault: the size in the header is not compared with the count.
TakeHeaderUnchecked(c) ==
  /\ pc[c] = "lock"
  /\ writeBufferMutex = Nobody
  /\ writeBufferCount >= Hdr
  /\ \E n \in HeaderValues(writeBufferTail) : dataSize' = [dataSize EXCEPT ![c] = n]
  /\ writeBufferMutex' = c
  /\ writeBufferTail' = AfterHeader(writeBufferTail)
  /\ writeBufferCount' = writeBufferCount - Hdr
  /\ Goto(c, "data")
  /\ UNCHANGED <<dataWriteBuffer, writeBufferHead, dataWriteAvailable,
                 threadsRunning, history>>

\* The header is read and passed, the mutex kept.
TakeHeader(c) ==
  /\ pc[c] = "lock"
  /\ writeBufferMutex = Nobody
  /\ writeBufferCount >= Hdr
  /\ \E n \in HeaderValues(writeBufferTail) :
       /\ writeBufferCount - Hdr >= n
       /\ dataSize' = [dataSize EXCEPT ![c] = n]
  /\ writeBufferMutex' = c
  /\ writeBufferTail' = AfterHeader(writeBufferTail)
  /\ writeBufferCount' = writeBufferCount - Hdr
  /\ Goto(c, "data")
  /\ UNCHANGED <<dataWriteBuffer, writeBufferHead, dataWriteAvailable,
                 threadsRunning, history>>

\* Fault: the data read stays in the count.
TakeDataUncounted(c) ==
  /\ pc[c] = "data"
  /\ taken' = Append(taken, [j \in 1 .. dataSize[c] |->
                               dataWriteBuffer[Place(writeBufferTail, j - 1)]])
  /\ writeBufferTail' = After(writeBufferTail, dataSize[c])
  /\ writeBufferMutex' = Nobody
  /\ Forget(c)
  /\ Goto(c, "write")
  /\ UNCHANGED <<dataWriteBuffer, writeBufferHead, writeBufferCount,
                 dataWriteAvailable, threadsRunning, wrote, accepted>>

\* The data is copied to tempBuffer and the mutex released.
TakeData(c) ==
  /\ pc[c] = "data"
  /\ taken' = Append(taken, [j \in 1 .. dataSize[c] |->
                               dataWriteBuffer[Place(writeBufferTail, j - 1)]])
  /\ writeBufferTail' = After(writeBufferTail, dataSize[c])
  /\ writeBufferCount' = writeBufferCount - dataSize[c]
  /\ writeBufferMutex' = Nobody
  /\ Forget(c)
  /\ Goto(c, "write")
  /\ UNCHANGED <<dataWriteBuffer, writeBufferHead, dataWriteAvailable,
                 threadsRunning, wrote, accepted>>

\* writeDataToFile(tempBuffer) returns; module Acquisition has its steps.
Written(c) ==
  /\ pc[c] = "write"
  /\ Goto(c, "test")
  /\ UNCHANGED <<ring, writeBufferMutex, dataWriteAvailable, threadsRunning, dataSize,
                 history>>

-----------------------------------------------------------------------------
\* The destructor tells the threads to stop.
StopThreads ==
  /\ threadsRunning
  /\ threadsRunning' = FALSE
  /\ UNCHANGED <<ring, writeBufferMutex, dataWriteAvailable, pc, dataSize,
                 history>>

Consume(c) ==
  Test(c) \/ TakeNothing(c) \/ TakeCorrupt(c) \/ TakeHeader(c) \/ TakeData(c) \/ Written(c)

Produce == DataStopped \/ AddRefused \/ AddHeader \/ AddData \/ AddSignal

Next ==
  \/ \E n \in Sizes : Receive(n)
  \/ Produce
  \/ Wake
  \/ StartFlush
  \/ \E c \in Consumers : Consume(c)
  \/ StopThreads

Spec == Init /\ [][Next]_vars

\* The operating system keeps running every thread that can run, and the wait
\* of the writer ends after a second at the latest.  Packets need not arrive,
\* acquisition need not stop and the driver need not be destroyed.
Fairness ==
  /\ WF_vars(Produce)
  /\ WF_vars(Wake)
  /\ \A c \in Consumers : WF_vars(Consume(c))

FairSpec == Spec /\ Fairness

-----------------------------------------------------------------------------
(* Properties.                                                             *)

\* Every variable has its type: whatever the packets, the indexes stay in the
\* buffer and the count within its size (addDataToWriteBuffer, dataWriteThread,
\* flushWriteBuffer).
TypeOK ==
  /\ dataWriteBuffer \in [Cells -> Nat \cup {NoByte}]
  /\ writeBufferHead \in Cells
  /\ writeBufferTail \in Cells
  /\ writeBufferCount \in 0 .. BufSize
  /\ writeBufferMutex \in Threads \cup {Nobody}
  /\ dataWriteAvailable \in BOOLEAN
  /\ threadsRunning \in BOOLEAN
  /\ pc \in [Threads -> {"recv", "add", "data", "signal", "stopped",
                         "wait", "test", "lock", "write", "idle"}]
  /\ dataSize \in [Threads -> Nat]
  /\ wrote \in Nat
  /\ accepted \in Seq([at : Nat, size : Nat])
  /\ taken \in Seq(Seq(Nat \cup {NoByte}))

\* The stream position behind record k; 0 when k is 0.
EndOf(k) == IF k = 0 THEN 0 ELSE accepted[k].at + Hdr + accepted[k].size

\* The header's cells are read and written as one word: when the buffer and the
\* packets are made of whole words, no header straddles the end of the buffer.
Multiple(x) == \E q \in 0 .. x : x = q * Hdr
Aligned == Multiple(BufSize) /\ \A n \in Sizes : Multiple(n)

\* The consumers, between them, hand to writeDataToFile what the data thread was
\* given: every packet at most once, whole, unchanged and in the order it came,
\* whoever pops it and wherever it wraps around the end of the buffer
\* (germaniumDetectorDataAcq.cpp, "Add data to circular write buffer for file
\* writing thread").
TakenInOrder ==
  \A k \in 1 .. Len(taken) : k <= Len(accepted) /\ taken[k] = BytesOf(accepted[k])

\* The writer never sleeps through a packet: when a header is stored and it waits,
\* the event is signalled or the data thread is about to signal it, although the
\* loop reads writeBufferCount without the mutex and the flush empties the buffer
\* behind the writer's back.  Misread headers do not break this.
NoLostWakeup ==
  pc[Writer] = "wait" /\ writeBufferCount >= Hdr =>
    dataWriteAvailable \/ pc[Data] \in {"data", "signal"}

\* "Corrupted buffer state" is never found: a consumer that holds the mutex and
\* sees a header sees it whole, with all the bytes it promises.
NeverCorrupt ==
  \A c \in Consumers :
    pc[c] = "lock" /\ writeBufferMutex = Nobody /\ writeBufferCount > 0 =>
      /\ writeBufferCount >= Hdr
      /\ \A n \in HeaderValues(writeBufferTail) : n <= writeBufferCount - Hdr

\* The header is stored within the buffer.  (germaniumDetectorTypes.hpp: "4MB
\* circular buffer for file writing".)
HeaderInBuffer ==
  pc[Data] = "add" /\ ~Refused(dataSize[Data]) /\ Fits(dataSize[Data]) =>
    writeBufferHead + Hdr <= BufSize

\* Every accepted packet is popped at last, unless the driver is destroyed: the
\* writer wakes up and does not stop half-way.
Drained ==
  \A n \in 1 .. MaxStream \div (Hdr + 1) :
    Len(accepted) >= n ~> Len(taken) >= n \/ ~threadsRunning

\* A flush ends once packets stop being stored (MaxStream bounds them): the write
\* thread, popping beside it, neither keeps the mutex from it for ever nor leaves it a
\* count that it cannot bring down to 0.
FlushEnds == pc[Port] # "idle" ~> pc[Port] = "idle"

-----------------------------------------------------------------------------
(* Why TakenInOrder holds, when headers do not straddle: the invariant that *)
(* the steps preserve.                                                      *)

\* The records follow one another without gap, up to a record being stored.
Records ==
  /\ \A k \in 1 .. Len(accepted) : accepted[k].at = EndOf(k - 1)
  /\ \A j, k \in 1 .. Len(accepted) : j < k => EndOf(j) <= accepted[k].at
  /\ wrote = EndOf(Len(accepted)) + (IF pc[Data] = "data" THEN Hdr ELSE 0)

\* What has been popped ends with a record, or behind the header of one.
Popped ==
  /\ Len(taken) <= Len(accepted)
  /\ wrote - writeBufferCount =
       EndOf(Len(taken)) + (IF \E c \in Consumers : pc[c] = "data" THEN Hdr ELSE 0)
  /\ \A c \in Consumers : pc[c] = "data" =>
       /\ Len(taken) < Len(accepted)
       /\ dataSize[c] = accepted[Len(taken) + 1].size

\* The stored bytes lie in order from the tail to the head.
Layout ==
  /\ writeBufferHead = Place(writeBufferTail, writeBufferCount)
  /\ \A i \in 0 .. writeBufferCount - 1 :
       dataWriteBuffer[Place(writeBufferTail, i)] = wrote - writeBufferCount + i

\* The indexes and the sizes are whole words.
Words ==
  /\ Multiple(writeBufferHead)
  /\ Multiple(writeBufferTail)
  /\ \A k \in 1 .. Len(accepted) : Multiple(accepted[k].size)

\* The accepted records, the count, the cells and the buffers popped so far agree
\* at every step of every thread, inside the critical sections too.
BufferCoherent == Records /\ Popped /\ Layout /\ Words /\ TakenInOrder

-----------------------------------------------------------------------------
\* The buffer implements the abstract queue of packets.
Fifo == INSTANCE PacketFifo WITH
  Packets <- {[j \in 1 .. n |-> s + j - 1] : n \in Sizes, s \in 0 .. MaxStream},
  Overhead <- Hdr,
  Capacity <- BufSize,
  queue <- [k \in 1 .. Len(accepted) - Len(taken) |-> BytesOf(accepted[Len(taken) + k])],
  used <- EndOf(Len(accepted)) - EndOf(Len(taken)),
  handed <- taken

\* The circular buffer, its mutex, and the two consumers implement a queue that
\* loses, repeats, reorders and alters nothing.
ImplementsFifo == Fifo!Spec
=============================================================================
