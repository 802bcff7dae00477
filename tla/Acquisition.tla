---------------------------- MODULE Acquisition -----------------------------
(***************************************************************************)
(* Acquisition and file segments (germaniumDetectorDataAcq.cpp).           *)
(*                                                                         *)
(*   the port thread   starts and stops acquisition (writeInt32 of CNT),   *)
(*                     flushes the buffer when it stops, and sets FSIZE    *)
(*                     and RUNNO;                                          *)
(*   the write thread  pops packets and writes them to a file, starting a  *)
(*                     new segment when the file is full;                  *)
(*   the data thread   stores the packets that arrive.                     *)
(*                                                                         *)
(* The buffer between them is the queue of module PacketFifo, which        *)
(* WriteBuffer implements.  A packet is a sequence of bytes that are all   *)
(* the packet's number.  Nothing but the buffer is protected by a mutex:   *)
(* a step reads or writes one variable that both threads use, no more, and *)
(* any number of those that, as OneFileWriter says, one thread has for     *)
(* itself.                                                                 *)
(*                                                                         *)
(* The TRIG commands to the device change no state of the driver and their *)
(* status is ignored; packets may arrive at any time.                      *)
(***************************************************************************)
EXTENDS Integers, FiniteSets, Sequences, SequencesExt

CONSTANTS
  Sizes,        \* sizes of the packets that arrive
  Capacity,     \* bytes the write buffer holds
  Overhead,     \* bytes a stored packet costs beyond its own
  MaxPackets,   \* bound: packets that arrive
  MaxStarts,    \* bound: acquisitions started
  Outcomes,     \* what open and write may do, among "done", "short", "failed"
  FsizeValues,  \* values clients write to FSIZE
  InitialFsize, \* the default of FSIZE
  MaxFsize,     \* the largest FSIZE accepted, 1000
  RunNumbers,   \* values clients write to RUNNO
  NoFile        \* currentFileHandle = -1

ASSUME AcquisitionAssumption ==
  /\ Sizes \subseteq Nat \ {0}
  /\ Capacity \in Nat
  /\ Overhead \in Nat
  /\ MaxPackets \in Nat
  /\ MaxStarts \in Nat
  /\ Outcomes \subseteq {"done", "short", "failed"}
  /\ FsizeValues \subseteq Int
  /\ InitialFsize \in Nat \ {0}
  /\ MaxFsize \in Nat \ {0}
  /\ NoFile \notin RunNumbers \X Nat

Writer == "dataWrite"      \* dataWriteThread
Port == "port"             \* the asyn port thread
Threads == {Writer, Port}

VARIABLES
  queue, used, handed,     \* the write buffer (PacketFifo)
  arrived,                 \* number of the last packet that arrived (bounded)
  starts,                  \* acquisitions started (bounded)
  acquisitionRunning,
  fileWritingEnabled,
  currentFileHandle,       \* the name of the open file, or NoFile
  currentFileSize,
  currentSegmentNumber,
  totalBytesWritten,
  totalFilesWritten,
  FSIZE,                   \* the parameter of that name
  RUNNO,                   \* {} while RUNNO was never written, else {its value}
  disk,                    \* [names of files -> the pieces of packets in them]
  pc,                      \* where each thread is
  packet,                  \* the tempBuffer of each thread
  loaded,                  \* the counter each thread has read for its next step
  opened,                  \* history: names of the files opened, in order
  journal,                 \* history: numbers of the packets written whole, in order
  flushed                  \* history: numbers of the packets the flush popped

buffer == <<queue, used, handed>>
flags == <<acquisitionRunning, fileWritingEnabled>>
file == <<currentFileHandle, currentFileSize>>
totals == <<totalBytesWritten, totalFilesWritten>>
params == <<FSIZE, RUNNO>>
stored == <<disk, opened, journal>>

vars == <<buffer, arrived, starts, flags, file, currentSegmentNumber, totals, params,
          stored, pc, packet, loaded, flushed>>

\* Packet number i, of n bytes.
PacketOf(i, n) == [j \in 1 .. n |-> i]

Packets == {PacketOf(i, n) : i \in 1 .. MaxPackets, n \in Sizes}

Buffer == INSTANCE PacketFifo

Goto(t, label) == pc' = [pc EXCEPT ![t] = label]

-----------------------------------------------------------------------------
Init ==
  /\ Buffer!Init
  /\ arrived = 0
  /\ starts = 0
  /\ acquisitionRunning = FALSE
  /\ fileWritingEnabled = FALSE
  /\ currentFileHandle = NoFile
  /\ currentFileSize = 0
  /\ currentSegmentNumber = 0
  /\ totalBytesWritten = 0
  /\ totalFilesWritten = 0
  /\ FSIZE = InitialFsize
  /\ RUNNO = {}
  /\ disk = [name \in {} |-> <<>>]
  /\ pc = [t \in Threads |-> IF t = Writer THEN "pop" ELSE "idle"]
  /\ packet = [t \in Threads |-> <<>>]
  /\ loaded = [t \in Threads |-> 0]
  /\ opened = <<>>
  /\ journal = <<>>
  /\ flushed = {}

-----------------------------------------------------------------------------
(* The buffer between the threads.                                         *)

\* A packet arrives and is stored, or dropped when it does not fit.
Arrive(n) ==
  /\ arrived < MaxPackets
  /\ arrived' = arrived + 1
  /\ IF used + Overhead + n <= Capacity
       THEN Buffer!Put(PacketOf(arrived + 1, n))
       ELSE UNCHANGED buffer
  /\ UNCHANGED <<starts, flags, file, currentSegmentNumber, totals, params, stored,
                 pc, packet, loaded, flushed>>

\* The loops of dataWriteThread and flushWriteBuffer pop a packet and call
\* writeDataToFile with it.
Pop(t) ==
  /\ pc[t] \in {"pop", "flush"}
  /\ Buffer!Take
  /\ packet' = [packet EXCEPT ![t] = Head(queue)]
  /\ flushed' = IF t = Port THEN flushed \cup {Head(queue)[1]} ELSE flushed
  /\ Goto(t, "enter")
  /\ UNCHANGED <<arrived, starts, flags, file, currentSegmentNumber, totals, params,
                 stored, loaded>>

-----------------------------------------------------------------------------
(* writeDataToFile                                                         *)

\* writeDataToFile returns; nobody looks at its result.
Return(t) ==
  /\ packet' = [packet EXCEPT ![t] = <<>>]
  /\ Goto(t, IF t = Writer THEN "pop" ELSE "flush")

\* Fault: the flag is not tested.
EnterAlways(t) ==
  /\ pc[t] = "enter"
  /\ Goto(t, "measure")
  /\ UNCHANGED <<buffer, arrived, starts, flags, file, currentSegmentNumber, totals,
                 params, stored, packet, loaded, flushed>>

\* The flag is read once, at the beginning.
Enter(t) ==
  /\ pc[t] = "enter"
  /\ IF fileWritingEnabled THEN Goto(t, "measure") /\ UNCHANGED packet ELSE Return(t)
  /\ UNCHANGED <<buffer, arrived, starts, flags, file, currentSegmentNumber, totals,
                 params, stored, loaded, flushed>>

\* Fault: the packet to come is not counted.
AlreadyOverfull(t) == FSIZE >= 0 /\ currentFileSize > FSIZE

\* The packet does not fit in the open file.  The int is cast to size_t: a negative
\* limit is larger than any file.
Overfull(t) == FSIZE >= 0 /\ currentFileSize + Len(packet[t]) > FSIZE

Measure(t) ==
  /\ pc[t] = "measure"
  /\ Goto(t, IF currentFileHandle = NoFile THEN "name"
             ELSE IF Overfull(t) THEN "close" ELSE "write")
  /\ UNCHANGED <<buffer, arrived, starts, flags, file, currentSegmentNumber, totals,
                 params, stored, packet, loaded, flushed>>

\* A counter that the other thread may write is read, for the step that uses it.
Load(t, at, counter, next) ==
  /\ pc[t] = at
  /\ loaded' = [loaded EXCEPT ![t] = counter]
  /\ Goto(t, next)
  /\ UNCHANGED <<buffer, arrived, starts, flags, file, currentSegmentNumber, totals,
                 params, stored, packet, flushed>>

\* The reads of totalBytesWritten += currentFileSize, of currentSegmentNumber++, and of
\* the number openNewDataFile makes the name from.
ReadBytes(t) == Load(t, "read bytes", totalBytesWritten, "sum")
ReadSegment(t) == Load(t, "read segment", currentSegmentNumber, "segment")
ReadNumber(t) == Load(t, "name", currentSegmentNumber, "open")

\* closeCurrentDataFile, up to the read of totalFilesWritten++.
Close(t) ==
  /\ pc[t] = "close"
  /\ currentFileHandle' = NoFile
  /\ loaded' = [loaded EXCEPT ![t] = totalFilesWritten]
  /\ Goto(t, "count")
  /\ UNCHANGED <<buffer, arrived, starts, flags, currentFileSize, currentSegmentNumber,
                 totals, params, stored, packet, flushed>>

\* Its write.
CountFile(t) ==
  /\ pc[t] = "count"
  /\ totalFilesWritten' = loaded[t] + 1
  /\ Goto(t, "read bytes")
  /\ UNCHANGED <<buffer, arrived, starts, flags, file, currentSegmentNumber,
                 totalBytesWritten, params, stored, packet, loaded, flushed>>

\* Fault: the size is reset before it is added.
CountBytesLate(t) ==
  /\ pc[t] = "sum"
  /\ totalBytesWritten' = loaded[t]
  /\ currentFileSize' = 0
  /\ Goto(t, "read segment")
  /\ UNCHANGED <<buffer, arrived, starts, flags, currentFileHandle,
                 currentSegmentNumber, totalFilesWritten, params, stored, packet,
                 loaded, flushed>>

\* The write of totalBytesWritten, and the reset of the size.
CountBytes(t) ==
  /\ pc[t] = "sum"
  /\ totalBytesWritten' = loaded[t] + currentFileSize
  /\ currentFileSize' = 0
  /\ Goto(t, "read segment")
  /\ UNCHANGED <<buffer, arrived, starts, flags, currentFileHandle,
                 currentSegmentNumber, totalFilesWritten, params, stored, packet,
                 loaded, flushed>>

\* Fault: the segment number stays.
SameSegment(t) ==
  /\ pc[t] = "segment"
  /\ Goto(t, "name")
  /\ UNCHANGED <<buffer, arrived, starts, flags, file, currentSegmentNumber, totals,
                 params, stored, packet, loaded, flushed>>

NextSegment(t) ==
  /\ pc[t] = "segment"
  /\ currentSegmentNumber' = loaded[t] + 1
  /\ Goto(t, "name")
  /\ UNCHANGED <<buffer, arrived, starts, flags, file, totals, params, stored, packet,
                 loaded, flushed>>

\* generateFilename; the run number is whatever lies on the stack while RUNNO was
\* never written, as the status of getIntegerParam is not looked at.
Filenames(segment) ==
  {<<run, segment>> : run \in IF RUNNO = {} THEN RunNumbers ELSE RUNNO}

\* Fault: a failed open uses up the segment number.
OpenOrSkip(t) ==
  /\ pc[t] = "open"
  /\ \/ /\ Return(t)
        /\ currentSegmentNumber' = currentSegmentNumber + 1
        /\ UNCHANGED <<file, disk, opened>>
     \/ \E name \in Filenames(loaded[t]) :
          /\ currentFileHandle' = name
          /\ currentFileSize' = 0
          /\ disk' = [f \in DOMAIN disk \cup {name} |-> IF f = name THEN <<>> ELSE disk[f]]
          /\ opened' = Append(opened, name)
          /\ Goto(t, "write")
          /\ UNCHANGED <<packet, currentSegmentNumber>>
  /\ UNCHANGED <<buffer, arrived, starts, flags, totals, params, journal, loaded, flushed>>

\* Fault: the packet that opens a file is not written to it.
OpenOnly(t) ==
  /\ pc[t] = "open"
  /\ \E name \in Filenames(loaded[t]) :
       /\ currentFileHandle' = name
       /\ currentFileSize' = 0
       /\ disk' = [f \in DOMAIN disk \cup {name} |-> IF f = name THEN <<>> ELSE disk[f]]
       /\ opened' = Append(opened, name)
  /\ Return(t)
  /\ UNCHANGED <<buffer, arrived, starts, flags, currentSegmentNumber, totals, params,
                 journal, loaded, flushed>>

\* openNewDataFile; there is no file left for it to close.
Open(t) ==
  /\ pc[t] = "open"
  /\ \/ /\ "failed" \in Outcomes
        /\ Return(t)
        /\ UNCHANGED <<file, disk, opened>>
     \/ \E name \in Filenames(loaded[t]) :
          /\ currentFileHandle' = name
          /\ currentFileSize' = 0
          /\ disk' = [f \in DOMAIN disk \cup {name} |-> IF f = name THEN <<>> ELSE disk[f]]
          /\ opened' = Append(opened, name)
          /\ Goto(t, "write")
          /\ UNCHANGED packet
  /\ UNCHANGED <<buffer, arrived, starts, flags, currentSegmentNumber, totals, params,
                 journal, loaded, flushed>>

\* The first k bytes of the packet reach the open file.
Store(t, k) ==
  disk' = [disk EXCEPT ![currentFileHandle] = Append(@, SubSeq(packet[t], 1, k))]

\* Fault: what write() returns is added to the size, a part of the packet too.
WriteCountingParts(t) ==
  /\ pc[t] = "write"
  /\ \E k \in 1 .. Len(packet[t]) :
       /\ Store(t, k)
       /\ currentFileSize' = currentFileSize + k
       /\ journal' = IF k = Len(packet[t]) THEN Append(journal, packet[t][1]) ELSE journal
  /\ Return(t)
  /\ UNCHANGED <<buffer, arrived, starts, flags, currentFileHandle, opened,
                 currentSegmentNumber, totals, params, loaded, flushed>>

\* Fault: what write() returns is added to the size, the -1 of an error too.
WriteCountingErrors(t) ==
  /\ pc[t] = "write"
  /\ \/ /\ Store(t, Len(packet[t]))
        /\ currentFileSize' = currentFileSize + Len(packet[t])
        /\ journal' = Append(journal, packet[t][1])
     \/ /\ currentFileSize' = currentFileSize - 1
        /\ UNCHANGED <<disk, journal>>
  /\ Return(t)
  /\ UNCHANGED <<buffer, arrived, starts, flags, currentFileHandle, opened,
                 currentSegmentNumber, totals, params, loaded, flushed>>

\* write() takes the packet, a part of it, or nothing; a part stays in the file and
\* is not counted in its size.
Write(t) ==
  /\ pc[t] = "write"
  /\ \/ /\ Store(t, Len(packet[t]))
        /\ currentFileSize' = currentFileSize + Len(packet[t])
        /\ journal' = Append(journal, packet[t][1])
     \/ /\ "short" \in Outcomes
        /\ \E k \in 1 .. Len(packet[t]) - 1 : Store(t, k)
        /\ UNCHANGED <<currentFileSize, journal>>
     \/ /\ "failed" \in Outcomes
        /\ UNCHANGED <<disk, currentFileSize, journal>>
  /\ Return(t)
  /\ UNCHANGED <<buffer, arrived, starts, flags, currentFileHandle, opened,
                 currentSegmentNumber, totals, params, loaded, flushed>>

WriteDataToFile(t) ==
  \/ Enter(t) \/ Measure(t) \/ Close(t) \/ CountFile(t) \/ ReadBytes(t) \/ CountBytes(t)
  \/ ReadSegment(t) \/ NextSegment(t) \/ ReadNumber(t) \/ Open(t) \/ Write(t)

-----------------------------------------------------------------------------
(* The port thread: writeInt32 of CNT, FSIZE and RUNNO.                    *)

\* startDataAcquisition resets the segment number, then each total, then enables the
\* files.  A second start returns at once.
Start ==
  /\ pc[Port] = "idle"
  /\ ~acquisitionRunning
  /\ starts < MaxStarts
  /\ starts' = starts + 1
  /\ currentSegmentNumber' = 0
  /\ Goto(Port, "reset")
  /\ UNCHANGED <<buffer, arrived, flags, file, totals, params, stored, packet, loaded,
                 flushed>>

ResetBytes ==
  /\ pc[Port] = "reset"
  /\ totalBytesWritten' = 0
  /\ Goto(Port, "reset files")
  /\ UNCHANGED <<buffer, arrived, starts, flags, file, currentSegmentNumber,
                 totalFilesWritten, params, stored, packet, loaded, flushed>>

ResetFiles ==
  /\ pc[Port] = "reset files"
  /\ totalFilesWritten' = 0
  /\ Goto(Port, "enable")
  /\ UNCHANGED <<buffer, arrived, starts, flags, file, currentSegmentNumber,
                 totalBytesWritten, params, stored, packet, loaded, flushed>>

Enable ==
  /\ pc[Port] = "enable"
  /\ fileWritingEnabled' = TRUE
  /\ acquisitionRunning' = TRUE
  /\ Goto(Port, "idle")
  /\ UNCHANGED <<buffer, arrived, starts, file, currentSegmentNumber, totals, params,
                 stored, packet, loaded, flushed>>

\* Fault: the buffer is flushed while files are enabled.
StopEnabled ==
  /\ pc[Port] = "idle"
  /\ acquisitionRunning
  /\ acquisitionRunning' = FALSE
  /\ Goto(Port, "flush")
  /\ UNCHANGED <<buffer, arrived, starts, fileWritingEnabled, file,
                 currentSegmentNumber, totals, params, stored, packet, loaded, flushed>>

\* stopDataAcquisition disables the files, then flushes the buffer.  A second stop
\* returns at once.
Stop ==
  /\ pc[Port] = "idle"
  /\ acquisitionRunning
  /\ acquisitionRunning' = FALSE
  /\ fileWritingEnabled' = FALSE
  /\ Goto(Port, "flush")
  /\ UNCHANGED <<buffer, arrived, starts, file, currentSegmentNumber, totals, params,
                 stored, packet, loaded, flushed>>

\* The flush finds the buffer empty.
Flushed ==
  /\ pc[Port] = "flush"
  /\ queue = <<>>
  /\ Goto(Port, "idle")
  /\ UNCHANGED <<buffer, arrived, starts, flags, file, currentSegmentNumber, totals,
                 params, stored, packet, loaded, flushed>>

\* FSIZE takes any value a client writes, and is then brought within its limits.
SetFsize(value) ==
  /\ pc[Port] = "idle"
  /\ FSIZE' = value
  /\ Goto(Port, "clamp")
  /\ UNCHANGED <<buffer, arrived, starts, flags, file, currentSegmentNumber, totals,
                 RUNNO, stored, packet, loaded, flushed>>

ClampFsize ==
  /\ pc[Port] = "clamp"
  /\ FSIZE' = IF FSIZE < 1 THEN 1 ELSE IF FSIZE > MaxFsize THEN MaxFsize ELSE FSIZE
  /\ Goto(Port, "idle")
  /\ UNCHANGED <<buffer, arrived, starts, flags, file, currentSegmentNumber, totals,
                 RUNNO, stored, packet, loaded, flushed>>

\* RUNNO has no branch in writeInt32: it is set, and the write reported as failed.
SetRunno(value) ==
  /\ pc[Port] = "idle"
  /\ RUNNO' = {value}
  /\ UNCHANGED <<buffer, arrived, starts, flags, file, currentSegmentNumber, totals,
                 FSIZE, stored, pc, packet, loaded, flushed>>

PortStep ==
  \/ Start \/ ResetBytes \/ ResetFiles \/ Enable \/ Stop \/ Flushed \/ ClampFsize
  \/ \E value \in FsizeValues : SetFsize(value)
  \/ \E value \in RunNumbers : SetRunno(value)

-----------------------------------------------------------------------------
Next ==
  \/ \E n \in Sizes : Arrive(n)
  \/ \E t \in Threads : Pop(t) \/ WriteDataToFile(t)
  \/ PortStep

Spec == Init /\ [][Next]_vars

-----------------------------------------------------------------------------
(* Properties.                                                             *)

\* Inside writeDataToFile, past its first test.
Inside == {"measure", "close", "count", "read bytes", "sum", "read segment", "segment",
           "name", "open", "write"}

Labels == Inside \cup {"pop", "flush", "idle", "enter", "reset", "reset files", "enable",
                      "clamp"}

\* Every variable has its type, in whatever order the threads run.
TypeOK ==
  /\ queue \in Seq(Packets)
  /\ used \in 0 .. Capacity
  /\ arrived \in 0 .. MaxPackets
  /\ starts \in 0 .. MaxStarts
  /\ acquisitionRunning \in BOOLEAN
  /\ fileWritingEnabled \in BOOLEAN
  /\ currentFileHandle \in (RunNumbers \X Nat) \cup {NoFile}
  /\ currentFileSize \in Nat
  /\ currentSegmentNumber \in Nat
  /\ totalBytesWritten \in Nat
  /\ totalFilesWritten \in Nat
  /\ FSIZE \in Int
  /\ RUNNO \in {{}} \cup {{v} : v \in RunNumbers}
  /\ pc \in [Threads -> Labels]
  /\ packet \in [Threads -> Seq(1 .. MaxPackets)]
  /\ loaded \in [Threads -> Nat]
  /\ opened \in Seq(RunNumbers \X Nat)
  /\ journal \in Seq(1 .. MaxPackets)
  /\ flushed \in SUBSET (1 .. MaxPackets)

\* The files, their sizes and the totals have no mutex, and both threads run
\* writeDataToFile; yet the flush never gets past its first test, so that only the
\* write thread opens, writes and closes files (stopDataAcquisition clears
\* fileWritingEnabled before it flushes).
OneFileWriter == pc[Port] \notin Inside

\* Packets reach the disk in the order in which they arrived, each at most once,
\* over all acquisitions, although the flush pops packets behind one that the write
\* thread is still writing.
JournalInOrder ==
  \A j, k \in 1 .. Len(journal) : j < k => journal[j] < journal[k]

\* Where the bytes of a sequence of packets, or of pieces of them, are: which member,
\* and which byte of it.
Places(s) == UNION {{k} \X (1 .. Len(s[k])) : k \in DOMAIN s}

\* The places in members whose packets were written whole.
WholePlaces(s) == {place \in Places(s) : s[place[1]][1] \in ToSet(journal)}

\* The bytes of such a sequence, and those of its whole packets.
Bytes(s) == Cardinality(Places(s))
WholeBytes(s) == Cardinality(WholePlaces(s))

\* currentFileSize, from which the next segment is decided, is what the open file
\* holds in whole packets: failed writes, failed opens, a restart and a change of
\* FSIZE or RUNNO leave it exact.
SizeExact ==
  currentFileHandle # NoFile => currentFileSize = WholeBytes(disk[currentFileHandle])

\* In the first acquisition the segments are numbered 0, 1, 2... without hole or
\* repeat: a file that cannot be opened does not use up its number.
SegmentsInOrder == starts <= 1 => \A k \in 1 .. Len(opened) : opened[k][2] = k - 1

\* The totals and the size of the open file never account for more than was written
\* whole, nor for more files than were opened, on whatever step of a close a restart
\* falls; in the first acquisition they account for every packet written whole, and for
\* every file, at each step of the close.
Accounted ==
  LET bytes == totalBytesWritten + currentFileSize
      files == totalFilesWritten
                 + (IF currentFileHandle # NoFile \/ pc[Writer] = "count" THEN 1 ELSE 0)
  IN  /\ bytes <= WholeBytes(handed) /\ files <= Len(opened)
      /\ starts <= 1 => bytes = WholeBytes(handed) /\ files = Len(opened)

\* In the first acquisition no file loses what it holds, although every file is opened
\* with O_TRUNC and clients change RUNNO at any time.
NothingOverwritten ==
  [][starts <= 1 => \A name \in DOMAIN disk : IsPrefix(disk[name], disk[name]')]_vars

\* The segments of the first acquisition, read one after the other in the order of
\* their numbers, give the packets, and the parts left by short writes, in the order in
\* which the packets were taken, and every packet counted as written is in one of them,
\* as it was taken.  Inside a file that order holds in every acquisition.
SegmentsReadBack ==
  /\ \A name \in DOMAIN disk : \A j, k \in 1 .. Len(disk[name]) :
       j < k => disk[name][j][1] < disk[name][k][1]
  /\ starts <= 1 =>
       /\ \A a, b \in DOMAIN disk : a[2] < b[2] =>
            \A j \in 1 .. Len(disk[a]), k \in 1 .. Len(disk[b]) : disk[a][j][1] < disk[b][k][1]
       /\ \A i \in 1 .. Len(journal) : \E name \in DOMAIN disk :
            \E k \in 1 .. Len(disk[name]) :
              disk[name][k] \in ToSet(handed) /\ disk[name][k][1] = journal[i]

\* In one acquisition without I/O errors, what is written has no hole: once the
\* first packet popped is written, all are until the acquisition stops, and a new
\* segment loses none.
NoHole ==
  \E first \in 0 .. Len(handed) :
    /\ first + Len(journal) <= Len(handed)
    /\ \A k \in 1 .. Len(journal) : journal[k] = handed[first + k][1]

\* As long as writes are not cut short and FSIZE is not changed, a file exceeds
\* FSIZE only by a single packet that is larger than FSIZE.
SegmentBound ==
  \A name \in DOMAIN disk : Bytes(disk[name]) <= InitialFsize \/ Len(disk[name]) <= 1

\* "Flush any remaining data in write buffer": the packets popped by the flush are
\* written, once the stop has returned and the disk accepts them.
FlushWrites ==
  pc[Port] = "idle" => flushed \subseteq ToSet(journal)
=============================================================================
