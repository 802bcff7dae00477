-------------------------- MODULE AcquisitionFiles --------------------------
(***************************************************************************)
(* Theorems about the files of Acquisition, for all sizes, bounds, limits  *)
(* and errors:                                                             *)
(*   SegmentsCount    [](SegmentsInOrder)                                  *)
(*   FilesKept        NothingOverwritten                                   *)
(*   SizesExact       [](SizeExact)                                        *)
(*   AllAccounted     [](Accounted)                                        *)
(*   SegmentsReadInOrder  [](SegmentsReadBack)                             *)
(* for one acquisition without errors,                                     *)
(*   WrittenWithoutHole  [](NoHole)                                        *)
(* and, when writes are not cut short and FSIZE stays,                     *)
(*   SegmentsBounded  [](SegmentBound)                                     *)
(***************************************************************************)
EXTENDS AcquisitionProofs, FiniteSetTheorems

-----------------------------------------------------------------------------
(* The first acquisition.                                                  *)

\* A start, up to where it enables the files.
Starting == {"reset", "reset files", "enable"}

\* No file can be open yet: the first start has not enabled them.
Fresh == starts = 0 \/ (starts = 1 /\ pc[Port] \in Starting)

\* Between the close of a file and the next segment number.
BetweenFiles ==
  pc[Writer] \in {"count", "read bytes", "sum", "read segment", "segment"}

\* The totals of files: those closed, and the one that is open or being counted.
FilesCounted ==
  starts <= 1 =>
    totalFilesWritten + (IF currentFileHandle # NoFile \/ pc[Writer] = "count" THEN 1 ELSE 0)
      = Len(opened)

\* While nothing is open, nothing has been.
FreshFiles ==
  Fresh => /\ ~fileWritingEnabled
           /\ pc[Writer] \notin Inside
           /\ currentFileHandle = NoFile
           /\ opened = <<>>
           /\ currentSegmentNumber = 0
           /\ totalFilesWritten = 0

\* Where the write thread finds the file open, and where closed.
Handles ==
  /\ pc[Writer] = "close" => currentFileHandle # NoFile
  /\ BetweenFiles \/ pc[Writer] \in {"name", "open"} => currentFileHandle = NoFile

\* The segment number runs behind the files opened by the one that is open or
\* whose number has not been passed yet.
Segments ==
  starts <= 1 =>
    /\ Len(opened) = currentSegmentNumber
                       + (IF currentFileHandle # NoFile \/ BetweenFiles THEN 1 ELSE 0)
    /\ \A k \in 1 .. Len(opened) : opened[k][2] = k - 1
    /\ \A name \in DOMAIN disk : name[2] < Len(opened)
    /\ pc[Writer] \in {"segment", "open"} => loaded[Writer] = currentSegmentNumber
    /\ pc[Writer] = "count" => loaded[Writer] = totalFilesWritten

FilesInv ==
  /\ pc[Port] \in Starting => starts # 0
  /\ FreshFiles
  /\ Handles
  /\ Segments
  /\ FilesCounted

\* The first state.
LEMMA InitFiles == Init => FilesInv
<1> SUFFICES ASSUME Init PROVE FilesInv
  OBVIOUS
<1>1. /\ pc[Writer] = "pop" /\ pc[Port] = "idle" /\ starts = 0 /\ opened = <<>>
      /\ currentFileHandle = NoFile /\ currentSegmentNumber = 0 /\ totalFilesWritten = 0
      /\ fileWritingEnabled = FALSE /\ Len(opened) = 0
  BY DEF Init, Threads, Writer, Port
<1>2. \A name \in DOMAIN disk : FALSE
  BY DEF Init
<1> QED
  BY <1>1, <1>2 DEF FilesInv, FreshFiles, Handles, Segments, FilesCounted, Fresh, Starting,
                    BetweenFiles, Inside

\* Steps that leave the files, their numbers and the places inside alone.
LEMMA QuietFiles ==
  ASSUME FilesInv, TypesInv,
         UNCHANGED <<starts, fileWritingEnabled, currentFileHandle, currentSegmentNumber,
                     totalFilesWritten, disk, opened, loaded>>,
         pc'[Writer] = pc[Writer] \/ {pc[Writer], pc'[Writer]} \cap Inside = {},
         pc'[Port] = pc[Port] \/ {pc[Port], pc'[Port]} \cap Starting = {}
  PROVE  FilesInv'
<1> USE DEF Starting
<1>1. (pc'[Port] \in Starting => starts' # 0) /\ (Fresh' => Fresh)
  BY DEF FilesInv, Fresh
<1>2. \A l \in Inside : pc'[Writer] = l <=> pc[Writer] = l
  OBVIOUS
<1>3. \A l \in {"close", "count", "read bytes", "sum", "read segment", "segment", "name", "open"} :
        pc'[Writer] = l <=> pc[Writer] = l
  BY <1>2 DEF Inside
<1>4. pc'[Writer] \in Inside <=> pc[Writer] \in Inside
  BY <1>2
<1>5. BetweenFiles' <=> BetweenFiles
  BY <1>3 DEF BetweenFiles
<1>6. FreshFiles'
  BY <1>1, <1>4, Zenon DEF FilesInv, FreshFiles
<1>7. Handles'
  BY <1>3, <1>5 DEF FilesInv, Handles
<1>8. Segments'
  BY <1>3, <1>5, Zenon DEF FilesInv, Segments
<1>9. FilesCounted'
  BY <1>3, Zenon DEF FilesInv, FilesCounted
<1> QED
  BY <1>1, <1>6, <1>7, <1>8, <1>9 DEF FilesInv

\* Where a step of the write thread takes it.
LEMMA WriterMoves ==
  ASSUME PortInv, NEW l, pc' = [pc EXCEPT ![Writer] = l]
  PROVE  pc'[Writer] = l /\ pc'[Port] = pc[Port]
BY DEF PortInv, Threads, Writer, Port

\* And of the port thread.
LEMMA PortMoves ==
  ASSUME PortInv, NEW l, pc' = [pc EXCEPT ![Port] = l]
  PROVE  pc'[Port] = l /\ pc'[Writer] = pc[Writer]
BY DEF PortInv, Threads, Writer, Port

\* The queue, and the first test of writeDataToFile.
LEMMA EnterFiles ==
  ASSUME FilesInv, TypesInv, NEW t \in Threads, Pop(t) \/ Enter(t)
  PROVE  FilesInv'
<1> USE DEF Starting
<1>1. PortInv
  BY DEF TypesInv, OrderInv
<1>2. t = Writer \/ t = Port
  BY DEF Threads
<1>3. UNCHANGED <<starts, fileWritingEnabled, currentFileHandle, currentSegmentNumber,
                  totalFilesWritten, disk, opened, loaded>>
  BY DEF Pop, Enter, flags, file, totals, stored
<1>4. CASE Pop(t)
  <2>1. pc[t] \in {"pop", "flush"} /\ pc' = [pc EXCEPT ![t] = "enter"]
    BY <1>4 DEF Pop, Goto
  <2>2. pc'[Writer] = pc[Writer] \/ {pc[Writer], pc'[Writer]} \cap Inside = {}
    BY <1>1, <1>2, <2>1, WriterMoves, PortMoves DEF Inside
  <2>3. pc'[Port] = pc[Port] \/ {pc[Port], pc'[Port]} \cap Starting = {}
    BY <1>1, <1>2, <2>1, WriterMoves, PortMoves
  <2> QED
    BY <1>3, <2>2, <2>3, QuietFiles
<1>5. CASE Enter(t) /\ Return(t)
  <2>1. pc[t] = "enter" /\ pc' = [pc EXCEPT ![t] = IF t = Writer THEN "pop" ELSE "flush"]
    BY <1>5 DEF Enter, Return, Goto
  <2>2. pc'[Writer] = pc[Writer] \/ {pc[Writer], pc'[Writer]} \cap Inside = {}
    BY <1>1, <1>2, <2>1, WriterMoves, PortMoves DEF Inside
  <2>3. pc'[Port] = pc[Port] \/ {pc[Port], pc'[Port]} \cap Starting = {}
    BY <1>1, <1>2, <2>1, WriterMoves, PortMoves
  <2> QED
    BY <1>3, <2>2, <2>3, QuietFiles
<1>6. CASE Enter(t) /\ fileWritingEnabled /\ Goto(t, "measure")
  <2>1. t = Writer
    BY <1>1, <1>2, <1>6 DEF PortInv, FlushDisabled, Enter
  <2>2. pc[Writer] = "enter" /\ pc'[Writer] = "measure" /\ pc'[Port] = pc[Port]
    BY <1>1, <1>6, <2>1, WriterMoves DEF Enter, Goto
  <2>3. ~Fresh /\ ~Fresh'
    BY <1>3, <1>6, <2>2 DEF FilesInv, FreshFiles, Fresh
  <2>4. ~BetweenFiles /\ ~BetweenFiles'
    BY <2>2 DEF BetweenFiles
  <2> QED
    BY <1>3, <2>2, <2>3, <2>4 DEF FilesInv, FreshFiles, Handles, Segments, FilesCounted
<1> QED
  BY <1>4, <1>5, <1>6 DEF Enter

\* The write thread is past the first test: the acquisition is not fresh.
LEMMA NotFresh ==
  ASSUME FilesInv, pc[Writer] \in Inside, UNCHANGED starts, pc'[Port] = pc[Port]
  PROVE  ~Fresh /\ ~Fresh' /\ (pc'[Port] \in Starting => starts' # 0)
BY DEF FilesInv, FreshFiles, Fresh

\* One more, and nothing.
LEMMA OneMore == \A n \in Nat : (n + 1) + 0 = n + 1
OBVIOUS

\* The steps of the write thread up to the new segment number.
LEMMA CloseFiles ==
  ASSUME FilesInv, TypesInv,
         \/ Measure(Writer) \/ Close(Writer) \/ CountFile(Writer) \/ CountBytes(Writer)
         \/ NextSegment(Writer) \/ Reads(Writer)
  PROVE  FilesInv'
<1>1. PortInv /\ loaded \in [Threads -> Nat] /\ Writer \in Threads
      /\ totalFilesWritten \in Nat /\ currentSegmentNumber \in Nat /\ Len(opened) \in Nat
  <2>1. opened \in Seq(Names)
    BY DEF TypesInv, Kinds
  <2> QED
    BY <2>1, LenProperties DEF TypesInv, OrderInv, Kinds, Threads
<1>2. UNCHANGED <<starts, fileWritingEnabled, disk, opened>> /\ pc[Writer] \in Inside
  BY ReadsLoad DEF Measure, Close, CountFile, CountBytes, NextSegment, flags, stored, Inside
<1>3. pc'[Port] = pc[Port]
  BY <1>1, WriterMoves, ReadsLoad
     DEF Measure, Close, CountFile, CountBytes, NextSegment, Goto
<1>4. ~Fresh /\ ~Fresh' /\ (pc'[Port] \in Starting => starts' # 0)
  BY <1>2, <1>3, NotFresh
<1> USE DEF FilesInv, FreshFiles, Handles, Segments, FilesCounted, BetweenFiles
<1>5. CASE Measure(Writer)
  <2>1. /\ pc[Writer] = "measure"
        /\ UNCHANGED <<currentFileHandle, currentSegmentNumber, totalFilesWritten, loaded>>
        /\ pc'[Writer] = IF currentFileHandle = NoFile THEN "name"
                         ELSE IF Overfull(Writer) THEN "close" ELSE "write"
    BY <1>1, <1>5, WriterMoves DEF Measure, Goto, file, totals
  <2> QED
    BY <1>2, <1>4, <2>1
<1>6. CASE Close(Writer)
  <2>1. /\ pc[Writer] = "close" /\ pc'[Writer] = "count"
        /\ UNCHANGED <<currentSegmentNumber, totalFilesWritten>>
        /\ currentFileHandle' = NoFile
        /\ loaded'[Writer] = totalFilesWritten
    BY <1>1, <1>6, WriterMoves DEF Close, Goto, totals
  <2> QED
    BY <1>2, <1>4, <2>1
<1>7. CASE CountFile(Writer)
  <2>1. /\ pc[Writer] = "count" /\ pc'[Writer] = "read bytes"
        /\ UNCHANGED <<currentFileHandle, currentSegmentNumber, loaded>>
    BY <1>1, <1>7, WriterMoves DEF CountFile, Goto, file
  <2>2. starts <= 1 => totalFilesWritten' = totalFilesWritten + 1
    BY <1>7, <2>1, Zenon DEF CountFile
  <2>3. currentFileHandle = NoFile /\ currentFileHandle' = NoFile
    BY <2>1
  <2>4. FilesCounted'
    <3>1. starts <= 1 => totalFilesWritten + 1 = Len(opened)
      BY <2>1
    <3>2. totalFilesWritten' + 0 = totalFilesWritten'
      <4>1. totalFilesWritten' = loaded[Writer] + 1
        BY <1>7, Zenon DEF CountFile
      <4>2. loaded[Writer] \in Nat
        BY <1>1
      <4> QED
        BY <4>1, <4>2, OneMore, Zenon
    <3> QED
      BY <1>2, <2>1, <2>2, <2>3, <3>1, <3>2, Zenon
  <2>5. Segments'
    BY <1>2, <2>1, <2>3, Zenon
  <2> QED
    BY <1>2, <1>4, <2>1, <2>3, <2>4, <2>5
<1>8. CASE CountBytes(Writer)
  <2>1. /\ pc[Writer] = "sum" /\ pc'[Writer] = "read segment"
        /\ UNCHANGED <<currentFileHandle, currentSegmentNumber, totalFilesWritten, loaded>>
    BY <1>1, <1>8, WriterMoves DEF CountBytes, Goto
  <2> QED
    BY <1>2, <1>4, <2>1
<1>9. CASE NextSegment(Writer)
  <2>1. /\ pc[Writer] = "segment" /\ pc'[Writer] = "name"
        /\ UNCHANGED <<currentFileHandle, totalFilesWritten>>
        /\ currentSegmentNumber' = loaded[Writer] + 1
    BY <1>1, <1>9, WriterMoves DEF NextSegment, Goto, file, totals
  <2> QED
    BY <1>1, <1>2, <1>4, <2>1
<1>10. CASE Reads(Writer)
  <2>1. UNCHANGED <<currentFileHandle, currentSegmentNumber, totalFilesWritten>>
    BY <1>10, ReadsLoad DEF file, totals
  <2>2. \/ pc[Writer] = "read bytes" /\ pc'[Writer] = "sum"
        \/ /\ pc[Writer] = "read segment" /\ pc'[Writer] = "segment"
           /\ loaded'[Writer] = currentSegmentNumber
        \/ /\ pc[Writer] = "name" /\ pc'[Writer] = "open"
           /\ loaded'[Writer] = currentSegmentNumber
    BY <1>1, <1>10, ReadsLoad, WriterMoves
  <2> QED
    BY <1>2, <1>4, <2>1, <2>2
<1> QED
  BY <1>5, <1>6, <1>7, <1>8, <1>9, <1>10

\* A new file has the next number.
LEMMA OpenFiles ==
  ASSUME FilesInv, TypesInv, Open(Writer)
  PROVE  FilesInv'
<1>1. /\ PortInv /\ opened \in Seq(Names) /\ Len(opened) \in Nat
      /\ currentSegmentNumber \in Nat /\ totalFilesWritten \in Nat
      /\ Kinds
  <2>1. opened \in Seq(Names)
    BY DEF TypesInv, Kinds
  <2> QED
    BY <2>1, LenProperties DEF TypesInv, OrderInv, Kinds
<1>2. /\ UNCHANGED <<starts, fileWritingEnabled, currentSegmentNumber, totalFilesWritten,
                     loaded>>
      /\ pc[Writer] = "open" /\ pc[Writer] \in Inside
  BY DEF Open, flags, totals, Inside
<1>3. pc'[Port] = pc[Port]
  BY <1>1, WriterMoves DEF Open, Return, Goto
<1>4. ~Fresh /\ ~Fresh' /\ (pc'[Port] \in Starting => starts' # 0)
  BY <1>2, <1>3, NotFresh
<1>5. currentFileHandle = NoFile
  BY <1>2 DEF FilesInv, Handles
<1>6. CASE Return(Writer) /\ UNCHANGED <<file, disk, opened>>
  <2>1. pc'[Writer] = "pop" /\ UNCHANGED <<currentFileHandle, disk, opened>>
    BY <1>1, <1>6, WriterMoves DEF Return, Goto, file
  <2> QED
    BY <1>2, <1>4, <2>1
       DEF FilesInv, FreshFiles, Handles, Segments, FilesCounted, BetweenFiles
<1>7. ASSUME NEW name \in Filenames(loaded[Writer]),
             /\ currentFileHandle' = name
             /\ disk' = [f \in DOMAIN disk \cup {name} |-> IF f = name THEN <<>> ELSE disk[f]]
             /\ opened' = Append(opened, name)
             /\ Goto(Writer, "write")
      PROVE  FilesInv'
  <2>1. pc'[Writer] = "write"
    BY <1>1, <1>7, WriterMoves DEF Goto
  <2>2. name \in Names /\ name[2] = loaded[Writer]
    BY <1>1, FilenamesType DEF Threads
  <2>3. name # NoFile
    BY <2>2, AcquisitionAssumption DEF Names
  <2>4. /\ Len(opened') = Len(opened) + 1 /\ opened'[Len(opened) + 1] = name
        /\ \A k \in 1 .. Len(opened) : opened'[k] = opened[k]
    BY <1>1, <1>7, <2>2
  <2>5. DOMAIN disk' = DOMAIN disk \cup {name}
    BY <1>7
  <2>6. Segments'
    <3> SUFFICES ASSUME starts <= 1
                 PROVE  /\ Len(opened') = currentSegmentNumber' + 1
                        /\ \A k \in 1 .. Len(opened') : opened'[k][2] = k - 1
                        /\ \A f \in DOMAIN disk' : f[2] < Len(opened')
      BY <1>2, <1>7, <2>1, <2>3 DEF Segments
    <3>1. /\ Len(opened) = currentSegmentNumber /\ name[2] = currentSegmentNumber
          /\ \A k \in 1 .. Len(opened) : opened[k][2] = k - 1
          /\ \A f \in DOMAIN disk : f[2] < Len(opened)
      BY <1>1, <1>2, <1>5, <2>2 DEF FilesInv, Segments, BetweenFiles
    <3>2. \A k \in 1 .. Len(opened') : opened'[k][2] = k - 1
      BY <1>1, <2>2, <2>4, <3>1
    <3>3. \A f \in DOMAIN disk : f \in Names /\ f[2] \in Nat
      BY <1>1 DEF Kinds, Names
    <3>4. \A f \in DOMAIN disk' : f[2] < Len(opened')
      BY <1>1, <2>2, <2>4, <2>5, <3>1, <3>3
    <3> QED
      BY <1>2, <2>4, <3>1, <3>2, <3>4
  <2>7. FilesCounted'
    BY <1>1, <1>2, <1>5, <1>7, <2>1, <2>3, <2>4 DEF FilesInv, FilesCounted
  <2>8. FreshFiles' /\ Handles'
    BY <1>4, <2>1, <2>3 DEF FreshFiles, Handles, BetweenFiles
  <2> QED
    BY <1>4, <2>6, <2>7, <2>8 DEF FilesInv
<1> QED
  BY <1>6, <1>7, Zenon DEF Open

\* A write keeps the names.
LEMMA WriteFiles ==
  ASSUME FilesInv, TypesInv, Write(Writer)
  PROVE  FilesInv'
<1>1. PortInv
  BY DEF TypesInv, OrderInv
<1>2. /\ UNCHANGED <<starts, fileWritingEnabled, currentFileHandle, currentSegmentNumber,
                     totalFilesWritten, loaded, opened>>
      /\ pc[Writer] = "write" /\ pc[Writer] \in Inside
  BY DEF Write, flags, totals, Inside
<1>3. pc'[Port] = pc[Port] /\ pc'[Writer] = "pop"
  BY <1>1, WriterMoves DEF Write, Return, Goto
<1>4. ~Fresh /\ ~Fresh' /\ (pc'[Port] \in Starting => starts' # 0)
  BY <1>2, <1>3, NotFresh
<1>5. DOMAIN disk' = DOMAIN disk
  <2>1. ASSUME NEW k, Store(Writer, k) PROVE DOMAIN disk' = DOMAIN disk
    BY <2>1 DEF Store
  <2> QED
    BY <2>1, Zenon DEF Write
<1> QED
  BY <1>2, <1>3, <1>4, <1>5
     DEF FilesInv, FreshFiles, Handles, Segments, FilesCounted, BetweenFiles

\* The port thread: the first start finds nothing to reset, and after the second the
\* numbers begin anew.
LEMMA PortFiles ==
  ASSUME FilesInv, TypesInv, PortStep
  PROVE  FilesInv'
<1> USE DEF Starting
<1>1. PortInv /\ starts \in Nat
  BY AcquisitionAssumption DEF TypesInv, OrderInv, Kinds
<1>2. UNCHANGED <<currentFileHandle, disk, opened, loaded>>
  BY DEF PortStep, Start, ResetBytes, ResetFiles, Enable, Stop, Flushed, ClampFsize, SetFsize,
         SetRunno, file, stored
<1>3. pc'[Writer] = pc[Writer]
  BY <1>1, PortMoves DEF PortStep, Start, ResetBytes, ResetFiles, Enable, Stop, Flushed, ClampFsize,
                         SetFsize, SetRunno, Goto
<1>4. Handles' /\ (BetweenFiles' <=> BetweenFiles)
  BY <1>2, <1>3 DEF FilesInv, Handles, BetweenFiles
<1>5. CASE Start
  <2>1. /\ pc[Port] = "idle" /\ pc'[Port] = "reset" /\ starts' = starts + 1
        /\ currentSegmentNumber' = 0
        /\ UNCHANGED <<fileWritingEnabled, totalFilesWritten>>
    BY <1>1, <1>5, PortMoves DEF Start, Goto, flags, totals
  <2>2. CASE starts = 0
    <3>1. Fresh /\ starts' = 1
      BY <1>1, <2>1, <2>2 DEF Fresh
    <3>2. /\ ~fileWritingEnabled /\ pc[Writer] \notin Inside /\ opened = <<>>
          /\ currentFileHandle = NoFile /\ currentSegmentNumber = 0 /\ totalFilesWritten = 0
      BY <3>1 DEF FilesInv, FreshFiles
    <3>3. UNCHANGED currentSegmentNumber /\ starts <= 1
      BY <2>1, <2>2, <3>2
    <3>4. FreshFiles'
      BY <1>2, <1>3, <2>1, <3>2 DEF FreshFiles
    <3>5. Segments'
      BY <1>2, <1>3, <1>4, <2>1, <3>3, Zenon DEF FilesInv, Segments
    <3>6. FilesCounted'
      BY <1>2, <1>3, <2>1, <3>3, Zenon DEF FilesInv, FilesCounted
    <3> QED
      BY <1>4, <2>1, <3>1, <3>4, <3>5, <3>6 DEF FilesInv
  <2>3. CASE starts # 0
    <3>1. ~(starts' <= 1) /\ starts' # 0 /\ starts' # 1
      BY <1>1, <2>1, <2>3
    <3> QED
      BY <1>4, <3>1 DEF FilesInv, FreshFiles, Segments, FilesCounted, Fresh
  <2> QED
    BY <2>2, <2>3
<1>6. CASE ResetBytes \/ ResetFiles
  <2>1. /\ pc[Port] \in {"reset", "reset files"}
        /\ pc'[Port] \in {"reset files", "enable"}
        /\ totalFilesWritten' \in {totalFilesWritten, 0}
        /\ UNCHANGED <<fileWritingEnabled, starts, currentSegmentNumber>>
    BY <1>1, <1>6, PortMoves DEF ResetBytes, ResetFiles, Goto, flags
  <2>2. starts # 0
    BY <2>1 DEF FilesInv
  <2>3. CASE starts = 1
    <3>1. Fresh
      BY <2>1, <2>3 DEF Fresh
    <3>2. totalFilesWritten' = totalFilesWritten
      BY <2>1, <3>1 DEF FilesInv, FreshFiles
    <3> QED
      BY <1>2, <1>3, <1>4, <2>1, <2>3, <3>1, <3>2
         DEF FilesInv, FreshFiles, Segments, FilesCounted
  <2>4. CASE starts # 1
    <3>1. ~(starts' <= 1) /\ starts' # 0 /\ starts' # 1
      <4>1. starts' = starts
        BY <2>1
      <4> HIDE DEF Starting
      <4> QED
        BY <1>1, <2>2, <2>4, <4>1
    <3> QED
      BY <1>4, <3>1 DEF FilesInv, FreshFiles, Segments, FilesCounted, Fresh
  <2> QED
    BY <2>3, <2>4
<1>7. CASE Enable
  <2>1. /\ pc[Port] = "enable" /\ pc'[Port] = "idle"
        /\ UNCHANGED <<starts, currentSegmentNumber, totalFilesWritten>>
    BY <1>1, <1>7, PortMoves DEF Enable, Goto, totals
  <2>2. starts # 0 /\ ~Fresh'
    BY <2>1 DEF FilesInv, Fresh
  <2> QED
    BY <1>2, <1>3, <1>4, <2>1, <2>2 DEF FilesInv, FreshFiles, Segments, FilesCounted
<1>8. CASE Stop
  <2>1. /\ pc[Port] = "idle" /\ pc'[Port] = "flush" /\ fileWritingEnabled' = FALSE
        /\ UNCHANGED <<starts, currentSegmentNumber, totalFilesWritten>>
    BY <1>1, <1>8, PortMoves DEF Stop, Goto, totals
  <2>2. Fresh' => Fresh
    BY <2>1 DEF Fresh
  <2> QED
    BY <1>2, <1>3, <1>4, <2>1, <2>2 DEF FilesInv, FreshFiles, Segments, FilesCounted
<1>9. CASE \/ Flushed \/ ClampFsize
           \/ \E value \in FsizeValues : SetFsize(value)
           \/ \E value \in RunNumbers : SetRunno(value)
  <2>1. UNCHANGED <<starts, fileWritingEnabled, currentSegmentNumber, totalFilesWritten>>
    BY <1>9 DEF Flushed, ClampFsize, SetFsize, SetRunno, flags, totals
  <2>2. pc'[Port] = pc[Port] \/ {pc[Port], pc'[Port]} \cap Starting = {}
    BY <1>1, <1>9, PortMoves DEF Flushed, ClampFsize, SetFsize, SetRunno, Goto
  <2> QED
    BY <1>2, <1>3, <2>1, <2>2, QuietFiles
<1> QED
  BY <1>5, <1>6, <1>7, <1>8, <1>9 DEF PortStep

\* Every step.
LEMMA NextFiles == FilesInv /\ TypesInv /\ [Next]_vars => FilesInv'
<1> SUFFICES ASSUME FilesInv, TypesInv, [Next]_vars PROVE FilesInv'
  OBVIOUS
<1>1. ASSUME NEW n \in Sizes, Arrive(n) PROVE FilesInv'
  BY <1>1, QuietFiles DEF Arrive, flags, file, totals, stored
<1>2. ASSUME NEW t \in Threads, WriteDataToFile(t) PROVE FilesInv'
  <2>1. CASE Enter(t)
    BY <2>1, EnterFiles
  <2>2. CASE ~Enter(t)
    <3>1. pc[t] \in Inside
      BY <1>2, <2>2 DEF WriteDataToFile, Measure, Close, CountFile, CountBytes,
                        NextSegment, Open, Write, ReadBytes, ReadSegment, ReadNumber, Load,
                        Inside
    <3>2. t = Writer
      BY <3>1, InsideIsWriter DEF TypesInv, OrderInv
    <3> QED
      BY <1>2, <2>2, <3>2, CloseFiles, OpenFiles, WriteFiles DEF WriteDataToFile, Reads
  <2> QED
    BY <2>1, <2>2
<1>3. CASE UNCHANGED vars
  BY <1>3, QuietFiles DEF vars, flags, file, totals, stored
<1> QED
  BY <1>1, <1>2, <1>3, EnterFiles, PortFiles, Zenon DEF Next

\* Files and types together.
LEMMA FilesAlways == Spec => [](FilesInv /\ TypesInv)
<1>1. Init => FilesInv /\ TypesInv
  BY InitFiles, InitOrder, InitKinds, InitCosts DEF TypesInv
<1>2. FilesInv /\ TypesInv /\ [Next]_vars => (FilesInv /\ TypesInv)'
  BY NextFiles, NextTypes
<1> QED
  BY <1>1, <1>2, PTL DEF Spec

\* In the first acquisition segments are numbered 0, 1, 2... although the port thread
\* resets the number and the write thread increments it without a mutex, and although
\* opens fail (openNewDataFile, writeDataToFile).
THEOREM SegmentsCount == Spec => []SegmentsInOrder
<1>1. FilesInv => SegmentsInOrder
  BY DEF FilesInv, Segments, SegmentsInOrder
<1> QED
  BY FilesAlways, <1>1, PTL

-----------------------------------------------------------------------------
(* What files hold.                                                        *)

\* A sequence is a prefix of itself, and of itself with a member more.
LEMMA PrefixKept ==
  ASSUME NEW S, NEW s \in Seq(S), NEW e \in S
  PROVE  IsPrefix(s, s) /\ IsPrefix(s, Append(s, e))
<1>1. Len(s) <= Len(s)
  OBVIOUS
<1>2. IsPrefix(s, s)
  BY <1>1 DEF IsPrefix
<1>3. /\ Append(s, e) \in Seq(S) /\ Len(Append(s, e)) = Len(s) + 1
      /\ \A k \in 1 .. Len(s) : Append(s, e)[k] = s[k]
  OBVIOUS
<1>4. SubSeq(s, 1, Len(s)) = SubSeq(Append(s, e), 1, Len(s))
  BY <1>3
<1>5. Len(s) <= Len(Append(s, e))
  BY <1>3
<1> QED
  BY <1>2, <1>4, <1>5 DEF IsPrefix

\* In the first acquisition a step adds to files, if anything.
LEMMA StepKeepsFiles ==
  ASSUME FilesInv, TypesInv, [Next]_vars, starts <= 1, NEW name \in DOMAIN disk
  PROVE  IsPrefix(disk[name], disk'[name])
<1>1. disk[name] \in Seq(Seq(Numbers)) /\ name \in Names /\ name[2] \in Nat
  BY DEF TypesInv, Kinds, Names
<1>2. CASE UNCHANGED disk
  BY <1>1, <1>2, NoBytes, PrefixKept
<1>3. ASSUME Open(Writer), disk' # disk
      PROVE  IsPrefix(disk[name], disk'[name])
  <2>1. PICK new \in Filenames(loaded[Writer]) :
          disk' = [f \in DOMAIN disk \cup {new} |-> IF f = new THEN <<>> ELSE disk[f]]
    BY <1>3, Zenon DEF Open
  <2>2. new[2] = loaded[Writer]
    BY FilenamesType DEF TypesInv, Threads
  <2>3. Len(opened) = loaded[Writer] /\ name[2] < Len(opened) /\ Len(opened) \in Nat
    <3>1. pc[Writer] = "open" /\ currentSegmentNumber \in Nat
      BY <1>3 DEF Open, TypesInv, Kinds
    <3>2. currentFileHandle = NoFile
      BY <3>1 DEF FilesInv, Handles
    <3> QED
      BY <3>1, <3>2 DEF FilesInv, Segments, BetweenFiles
  <2>4. name # new
    BY <1>1, <2>2, <2>3
  <2>5. disk'[name] = disk[name]
    BY <2>1, <2>4, Zenon
  <2> QED
    BY <1>1, <2>5, NoBytes, PrefixKept
<1>4. ASSUME Write(Writer), disk' # disk
      PROVE  IsPrefix(disk[name], disk'[name])
  <2>1. packet[Writer] \in Packets
    BY <1>4 DEF TypesInv, OrderInv, Shapes, Write, Holding, Inside
  <2>2. packet[Writer] \in Seq(Numbers) /\ Len(packet[Writer]) \in Nat
    BY <2>1, PacketBytes
  <2>3. PICK k \in 0 .. Len(packet[Writer]) : Store(Writer, k)
    <3>1. Len(packet[Writer]) \in 0 .. Len(packet[Writer])
      BY <2>2
    <3>2. 1 .. Len(packet[Writer]) - 1 \subseteq 0 .. Len(packet[Writer])
      BY <2>2
    <3> QED
      BY <1>4, <3>1, <3>2, Zenon DEF Write
  <2>4. SubSeq(packet[Writer], 1, k) \in Seq(Numbers)
    BY <2>2, PieceType
  <2>5. disk'[name] = disk[name] \/ disk'[name] = Append(disk[name], SubSeq(packet[Writer], 1, k))
    BY <2>3, Zenon DEF Store
  <2> QED
    BY <1>1, <2>4, <2>5, PrefixKept
<1>5. ASSUME disk' # disk PROVE Open(Writer) \/ Write(Writer)
  <2>1. PICK t \in Threads : Open(t) \/ Write(t)
    BY <1>5 DEF Next, Arrive, Pop, WriteDataToFile, Enter, Measure, Close, CountFile,
                CountBytes, NextSegment, ReadBytes, ReadSegment, ReadNumber, Load, PortStep,
                Start, ResetBytes, ResetFiles, Enable, Stop, Flushed, ClampFsize, SetFsize,
                SetRunno, vars, stored
  <2>2. t = Writer
    BY <2>1, InsideIsWriter DEF TypesInv, OrderInv, Open, Write, Inside
  <2> QED
    BY <2>1, <2>2
<1> QED
  BY <1>2, <1>3, <1>4, <1>5

\* In the first acquisition no file loses what it holds, although every file is opened
\* with O_TRUNC, clients change RUNNO at any time, and RUNNO may never have been set:
\* no number is used twice (openNewDataFile, generateFilename).
THEOREM FilesKept == Spec => NothingOverwritten
<1>1. FilesInv /\ TypesInv /\ [Next]_vars =>
        [starts <= 1 => \A name \in DOMAIN disk : IsPrefix(disk[name], disk'[name])]_vars
  BY StepKeepsFiles
<1>2. FilesInv /\ TypesInv /\ [Next]_vars =>
        [starts <= 1 => \A name \in DOMAIN disk : IsPrefix(disk[name], disk[name]')]_vars
  BY <1>1
<1> QED
  BY <1>2, FilesAlways, PTL DEF Spec, NothingOverwritten

-----------------------------------------------------------------------------
(* One acquisition without errors.                                         *)

\* No error, and no second start.
Clean == Outcomes = {"done"} /\ MaxStarts = 1

\* Nothing is written before the first acquisition, nor flushed.
FreshBuffer == Fresh => journal = <<>> /\ ~acquisitionRunning

\* Until the stop nobody but the write thread takes packets: what it holds is the last
\* one that was taken.
LastTaken ==
  Fresh \/ fileWritingEnabled =>
    /\ pc[Port] \notin {"flush", "enter"}
    /\ pc[Writer] \in Holding => handed # <<>> /\ packet[Writer] = handed[Len(handed)]

\* The journal is what was handed over behind the first packets, the packet inside
\* comes next, and until the stop there is nothing behind that.
Contiguous(first) ==
  /\ first + Len(journal) <= Len(handed)
  /\ \A k \in 1 .. Len(journal) : journal[k] = handed[first + k][1]
  /\ pc[Writer] \in Inside =>
       /\ first + Len(journal) + 1 <= Len(handed)
       /\ packet[Writer] = handed[first + Len(journal) + 1]
  /\ fileWritingEnabled /\ (journal # <<>> \/ pc[Writer] \in Inside) =>
       first + Len(journal) + (IF pc[Writer] \in Holding THEN 1 ELSE 0) = Len(handed)

HoleInv ==
  /\ handed \in Seq(Packets)
  /\ FreshBuffer
  /\ LastTaken
  /\ \E first \in 0 .. Len(handed) : Contiguous(first)

\* The invariants this one rests on.
Files == FilesInv /\ TypesInv

\* The first state.
LEMMA InitHole == Init => HoleInv
<1> SUFFICES ASSUME Init PROVE HoleInv
  OBVIOUS
<1>1. /\ handed = <<>> /\ journal = <<>> /\ acquisitionRunning = FALSE
      /\ fileWritingEnabled = FALSE /\ pc[Writer] = "pop" /\ pc[Port] = "idle"
  BY DEF Init, Buffer!Init, Threads, Writer, Port
<1>2. Contiguous(0)
  BY <1>1 DEF Contiguous, Inside
<1>3. 0 \in 0 .. Len(handed) /\ handed \in Seq(Packets)
  BY <1>1
<1>4. FreshBuffer /\ LastTaken
  BY <1>1 DEF FreshBuffer, LastTaken, Holding, Inside
<1> QED
  BY <1>2, <1>3, <1>4, Zenon DEF HoleInv

\* What a state of the invariant has.
LEMMA HoleTypes ==
  ASSUME HoleInv, Files
  PROVE  /\ PortInv /\ journal \in Seq(Numbers) /\ Len(journal) \in Nat
         /\ handed \in Seq(Packets) /\ Len(handed) \in Nat
         /\ \A first \in 0 .. Len(handed) : first \in Nat
         /\ pc[Writer] \in Inside => ~Fresh
<1>1. journal \in Seq(Numbers) /\ handed \in Seq(Packets)
  BY DEF Files, TypesInv, Kinds, HoleInv
<1>2. PortInv /\ (pc[Writer] \in Inside => ~Fresh)
  BY DEF Files, TypesInv, OrderInv, FilesInv, FreshFiles
<1> QED
  BY <1>1, <1>2, LenProperties

\* Steps that neither take nor write a packet, nor enable the files.
LEMMA QuietHole ==
  ASSUME HoleInv, Files, UNCHANGED <<handed, journal>>,
         Fresh' => Fresh, fileWritingEnabled' => fileWritingEnabled,
         Fresh' => ~acquisitionRunning',
         pc'[Writer] \in Holding => pc[Writer] \in Holding /\ packet'[Writer] = packet[Writer],
         pc'[Writer] \in Inside <=> pc[Writer] \in Inside,
         fileWritingEnabled' => (pc'[Writer] \in Holding <=> pc[Writer] \in Holding),
         Fresh' \/ fileWritingEnabled' => pc'[Port] \notin {"flush", "enter"}
  PROVE  HoleInv'
<1>1. FreshBuffer' /\ LastTaken'
  BY DEF HoleInv, FreshBuffer, LastTaken
<1>2. PICK first \in 0 .. Len(handed) : Contiguous(first)
  BY DEF HoleInv
<1>3. pc'[Writer] \in Inside => packet'[Writer] = packet[Writer]
  BY DEF Holding
<1>4. Contiguous(first)'
  BY <1>2, <1>3, Zenon DEF Contiguous
<1> QED
  BY <1>1, <1>2, <1>4, Zenon DEF HoleInv

\* A packet is taken.
LEMMA PopHole ==
  ASSUME HoleInv, Files, NEW t \in Threads, Pop(t)
  PROVE  HoleInv'
<1>1. /\ PortInv /\ journal \in Seq(Numbers) /\ Len(journal) \in Nat
      /\ handed \in Seq(Packets) /\ Len(handed) \in Nat
  BY HoleTypes
<1>2. queue \in Seq(Packets) /\ queue # <<>>
  BY DEF Files, TypesInv, OrderInv, Shapes, Pop, Buffer!Take
<1>3. Head(queue) \in Packets
  BY <1>2
<1>4. PICK p \in Packets : p = Head(queue)
  BY <1>3
<1>5. /\ handed' = Append(handed, p) /\ packet' = [packet EXCEPT ![t] = p]
      /\ UNCHANGED <<journal, fileWritingEnabled, acquisitionRunning, starts>>
      /\ pc[t] \in {"pop", "flush"} /\ pc' = [pc EXCEPT ![t] = "enter"]
  BY <1>4 DEF Pop, Goto, Buffer!Take, stored, flags
<1>6. /\ handed' \in Seq(Packets) /\ Len(handed') = Len(handed) + 1
      /\ handed' # <<>> /\ handed'[Len(handed) + 1] = p
      /\ \A k \in 1 .. Len(handed) : handed'[k] = handed[k]
  BY <1>1, <1>4, <1>5
<1>7. t = Writer \/ t = Port
  BY DEF Threads
<1>8. PICK first \in 0 .. Len(handed) : Contiguous(first)
  BY DEF HoleInv
<1>9. first \in 0 .. Len(handed')
  BY <1>1, <1>6, <1>8
<1>10. packet \in [Threads -> Seq(Numbers)] /\ Writer # Port /\ Writer \in Threads
  BY DEF Files, TypesInv, Kinds, Writer, Port, Threads
<1>11. \A k \in 1 .. Len(journal) : journal[k] = handed'[first + k][1]
  <2> SUFFICES ASSUME NEW k \in 1 .. Len(journal) PROVE journal[k] = handed'[first + k][1]
    OBVIOUS
  <2>1. first + Len(journal) <= Len(handed) /\ journal[k] = handed[first + k][1]
    BY <1>8, Zenon DEF Contiguous
  <2>2. first + k \in 1 .. Len(handed)
    BY <1>1, <1>8, <2>1
  <2> QED
    BY <1>6, <2>1, <2>2, Zenon
<1>12. CASE t = Writer
  <2>1. /\ pc[Writer] \notin Holding /\ pc'[Writer] = "enter" /\ pc'[Port] = pc[Port]
        /\ packet'[Writer] = p
    BY <1>1, <1>5, <1>10, <1>12, WriterMoves DEF PortInv, Holding, Inside
  <2>2. pc'[Writer] \notin Inside /\ pc'[Writer] \in Holding
    BY <2>1 DEF Inside, Holding
  <2>3. pc[Writer] \notin Inside
    BY <2>1 DEF Holding
  <2>4. first + Len(journal) <= Len(handed')
    BY <1>1, <1>6, <1>8 DEF Contiguous
  <2>5. fileWritingEnabled /\ journal # <<>> => first + Len(journal) + 1 = Len(handed')
    BY <1>1, <1>6, <1>8, <2>1 DEF Contiguous
  <2>6. Contiguous(first)'
    BY <1>5, <1>11, <2>2, <2>4, <2>5, Zenon DEF Contiguous
  <2>7. LastTaken'
    BY <1>5, <1>6, <2>1, <2>2 DEF HoleInv, LastTaken, Fresh
  <2>8. FreshBuffer'
    BY <1>5, <2>1 DEF HoleInv, FreshBuffer, Fresh
  <2> QED
    BY <1>6, <1>9, <2>6, <2>7, <2>8, Zenon DEF HoleInv
<1>13. CASE t = Port
  <2>1. /\ pc'[Writer] = pc[Writer] /\ pc[Port] = "flush" /\ pc'[Port] = "enter"
        /\ packet'[Writer] = packet[Writer]
    BY <1>1, <1>5, <1>10, <1>13, PortMoves DEF PortInv
  <2>2. ~fileWritingEnabled /\ ~fileWritingEnabled' /\ ~Fresh /\ ~Fresh'
    BY <1>5, <2>1 DEF HoleInv, LastTaken, Fresh, Starting
  <2>3. pc[Writer] \in Inside =>
          /\ first + Len(journal) + 1 <= Len(handed')
          /\ packet[Writer] = handed'[first + Len(journal) + 1]
    <3> SUFFICES ASSUME pc[Writer] \in Inside
                 PROVE  /\ first + Len(journal) + 1 <= Len(handed')
                        /\ packet[Writer] = handed'[first + Len(journal) + 1]
      OBVIOUS
    <3>1. /\ first + Len(journal) + 1 <= Len(handed)
          /\ packet[Writer] = handed[first + Len(journal) + 1]
      BY <1>8, Zenon DEF Contiguous
    <3>2. first + Len(journal) + 1 \in 1 .. Len(handed)
      BY <1>1, <1>8, <3>1
    <3> QED
      BY <1>1, <1>6, <3>1, <3>2
  <2>4. first + Len(journal) <= Len(handed')
    BY <1>1, <1>6, <1>8 DEF Contiguous
  <2>5. Contiguous(first)'
    BY <1>5, <1>11, <2>1, <2>2, <2>3, <2>4, Zenon DEF Contiguous
  <2> QED
    BY <1>6, <1>9, <2>2, <2>5, Zenon DEF HoleInv, LastTaken, FreshBuffer
<1> QED
  BY <1>7, <1>12, <1>13

\* The packet in hand passes the first test: it is the next one.
LEMMA EnterHole ==
  ASSUME HoleInv, Files, NEW t \in Threads, Enter(t)
  PROVE  HoleInv'
<1>1. PortInv /\ packet \in [Threads -> Seq(Numbers)] /\ (t = Writer \/ t = Port)
  BY DEF Files, TypesInv, OrderInv, Kinds, Threads
<1>2. /\ UNCHANGED <<handed, journal, starts, fileWritingEnabled, acquisitionRunning>>
      /\ pc[t] = "enter"
  BY DEF Enter, buffer, stored, flags
<1>3. CASE t = Writer /\ fileWritingEnabled
  <2>1. pc'[Writer] = "measure" /\ pc'[Port] = pc[Port] /\ UNCHANGED packet
    BY <1>1, <1>3, WriterMoves DEF Enter, Goto
  <2>2. Fresh' <=> Fresh
    BY <1>2, <2>1 DEF Fresh
  <2>3. pc[Writer] \in Holding /\ pc[Writer] \notin Inside
        /\ pc'[Writer] \in Holding /\ pc'[Writer] \in Inside
    BY <1>2, <1>3, <2>1 DEF Holding, Inside
  <2>4. FreshBuffer' /\ LastTaken'
    BY <1>2, <2>1, <2>2, <2>3 DEF HoleInv, FreshBuffer, LastTaken
  <2>5. handed # <<>> /\ packet[Writer] = handed[Len(handed)]
    BY <1>3, <2>3 DEF HoleInv, LastTaken
  <2>6. handed \in Seq(Packets) /\ Len(handed) \in Nat \ {0} /\ Len(journal) \in Nat
    BY <2>5, HoleTypes
  <2>7. CASE journal # <<>>
    <3>1. PICK first \in 0 .. Len(handed) : Contiguous(first)
      BY DEF HoleInv
    <3>2. first + Len(journal) + 1 = Len(handed)
      BY <1>3, <2>3, <2>7, <3>1 DEF Contiguous
    <3>3. first + Len(journal) + 1 <= Len(handed)
      BY <2>6, <3>2
    <3>4. Contiguous(first)'
      BY <1>2, <2>1, <2>3, <2>5, <3>1, <3>2, <3>3, Zenon DEF Contiguous
    <3> QED
      BY <1>2, <2>4, <3>1, <3>4, Zenon DEF HoleInv
  <2>8. CASE journal = <<>>
    <3>1. PICK first \in 0 .. Len(handed) : first = Len(handed) - 1
      <4>1. Len(handed) - 1 \in 0 .. Len(handed)
        BY <2>6
      <4> QED
        BY <4>1, Zenon
    <3>2. Len(journal) = 0 /\ first + 0 + 1 = Len(handed) /\ first + 0 <= Len(handed)
      BY <2>6, <2>8, <3>1
    <3>3. Contiguous(first)'
      BY <1>2, <2>1, <2>3, <2>5, <2>6, <3>1, <3>2 DEF Contiguous
    <3> QED
      BY <1>2, <2>4, <3>3, Zenon DEF HoleInv
  <2> QED
    BY <2>7, <2>8
<1>4. CASE t = Writer /\ ~fileWritingEnabled
  <2>1. pc'[Writer] = "pop" /\ pc'[Port] = pc[Port]
    BY <1>1, <1>4, WriterMoves DEF Enter, Return, Goto
  <2>2. /\ Fresh' <=> Fresh
        /\ pc'[Writer] \notin Holding /\ pc'[Writer] \notin Inside /\ pc[Writer] \notin Inside
    BY <1>2, <1>4, <2>1 DEF Fresh, Holding, Inside
  <2> QED
    BY <1>2, <1>4, <2>1, <2>2, QuietHole DEF HoleInv, LastTaken, FreshBuffer
<1>5. CASE t = Port
  <2>1. ~fileWritingEnabled /\ ~Fresh /\ pc[Port] = "enter"
    BY <1>2, <1>5 DEF HoleInv, LastTaken
  <2>2. pc' = [pc EXCEPT ![Port] = "flush"] /\ packet' = [packet EXCEPT ![Port] = <<>>]
    BY <1>5, <2>1 DEF Enter, Return, Goto, Writer, Port
  <2>3. pc'[Writer] = pc[Writer] /\ pc'[Port] = "flush" /\ packet'[Writer] = packet[Writer]
    BY <1>1, <2>2, PortMoves DEF Writer, Port, Threads
  <2>4. ~Fresh'
    BY <1>2, <2>1, <2>3 DEF Fresh, Starting
  <2> QED
    BY <1>2, <2>1, <2>3, <2>4, QuietHole
<1> QED
  BY <1>1, <1>3, <1>4, <1>5

\* Without errors every step from there leads to the write.
LEMMA InsideHole ==
  ASSUME HoleInv, Files, Clean,
         \/ Measure(Writer) \/ Close(Writer) \/ CountFile(Writer) \/ CountBytes(Writer)
         \/ NextSegment(Writer) \/ Open(Writer) \/ Reads(Writer)
  PROVE  HoleInv'
<1>1. PortInv
  BY HoleTypes
<1>2. /\ UNCHANGED <<handed, journal, starts, fileWritingEnabled, acquisitionRunning, packet>>
      /\ pc[Writer] \in Inside
  BY ReadsLoad DEF Clean, Measure, Close, CountFile, CountBytes, NextSegment, Open, buffer,
                   stored, flags, Inside
<1>3. pc'[Writer] \in Inside /\ pc'[Port] = pc[Port]
  BY <1>1, WriterMoves, ReadsLoad
     DEF Clean, Measure, Close, CountFile, CountBytes, NextSegment, Open, Goto, Inside
<1>4. Fresh' <=> Fresh
  BY <1>2, <1>3 DEF Fresh
<1>5. pc[Writer] \in Holding /\ pc'[Writer] \in Holding
  BY <1>2, <1>3 DEF Holding
<1> QED
  BY <1>2, <1>3, <1>4, <1>5, QuietHole DEF HoleInv, LastTaken, FreshBuffer

\* The packet inside joins the journal.
LEMMA WriteHole ==
  ASSUME HoleInv, Files, Clean, Write(Writer)
  PROVE  HoleInv'
<1>1. /\ PortInv /\ journal \in Seq(Numbers) /\ Len(journal) \in Nat
      /\ handed \in Seq(Packets) /\ Len(handed) \in Nat
  BY HoleTypes
<1>2. /\ UNCHANGED <<handed, starts, fileWritingEnabled, acquisitionRunning>>
      /\ pc[Writer] = "write"
      /\ journal' = Append(journal, packet[Writer][1])
  BY DEF Clean, Write, buffer, flags
<1>3. pc'[Writer] = "pop" /\ pc'[Port] = pc[Port]
  BY <1>1, WriterMoves DEF Write, Return, Goto
<1>4. /\ pc[Writer] \in Holding /\ pc[Writer] \in Inside
      /\ pc'[Writer] \notin Holding /\ pc'[Writer] \notin Inside
  BY <1>2, <1>3 DEF Holding, Inside
<1>5. ~Fresh /\ ~Fresh'
  BY <1>2, <1>3, <1>4, HoleTypes DEF Fresh
<1>6. FreshBuffer' /\ LastTaken'
  BY <1>2, <1>3, <1>4, <1>5 DEF HoleInv, FreshBuffer, LastTaken
<1>7. packet[Writer] \in Packets
  BY <1>4 DEF Files, TypesInv, OrderInv, Shapes
<1>8. packet[Writer][1] \in Numbers
  BY <1>7, PacketBytes
<1>9. /\ Len(journal') = Len(journal) + 1
      /\ journal'[Len(journal) + 1] = packet[Writer][1]
      /\ \A k \in 1 .. Len(journal) : journal'[k] = journal[k]
  BY <1>1, <1>2, <1>8
<1>10. PICK first \in 0 .. Len(handed) : Contiguous(first)
  BY DEF HoleInv
<1>11. /\ first + Len(journal) + 1 <= Len(handed)
       /\ packet[Writer] = handed[first + Len(journal) + 1]
       /\ \A k \in 1 .. Len(journal) : journal[k] = handed[first + k][1]
       /\ fileWritingEnabled => first + Len(journal) + 1 = Len(handed)
  BY <1>4, <1>10, Zenon DEF Contiguous
<1>12. first + Len(journal') <= Len(handed)
  BY <1>1, <1>9, <1>11
<1>13. \A k \in 1 .. Len(journal') : journal'[k] = handed[first + k][1]
  <2> SUFFICES ASSUME NEW k \in 1 .. Len(journal') PROVE journal'[k] = handed[first + k][1]
    OBVIOUS
  <2>1. CASE k \in 1 .. Len(journal)
    BY <1>9, <1>11, <2>1, Zenon
  <2>2. CASE k = Len(journal) + 1
    <3>1. first + k = first + Len(journal) + 1
      BY <1>1, <2>2
    <3> QED
      BY <1>9, <1>11, <2>2, <3>1, Zenon
  <2> QED
    BY <1>1, <1>9, <2>1, <2>2
<1>14. fileWritingEnabled => first + Len(journal') + 0 = Len(handed)
  BY <1>1, <1>9, <1>11
<1>15. Contiguous(first)'
  BY <1>2, <1>4, <1>12, <1>13, <1>14, Zenon DEF Contiguous
<1> QED
  BY <1>1, <1>2, <1>6, <1>10, <1>15, Zenon DEF HoleInv

\* With one start, the files are enabled once, before anything is written.
LEMMA PortHole ==
  ASSUME HoleInv, Files, Clean, PortStep
  PROVE  HoleInv'
<1>1. PortInv /\ starts \in 0 .. 1 /\ (pc[Port] \in Starting => starts # 0)
  BY HoleTypes DEF Files, FilesInv, TypesInv, Kinds, Clean
<1>2. /\ UNCHANGED <<handed, journal, packet>>
      /\ pc'[Writer] = pc[Writer]
  <2>1. UNCHANGED <<handed, journal, packet>>
    BY DEF PortStep, Start, ResetBytes, ResetFiles, Enable, Stop, Flushed, ClampFsize, SetFsize,
           SetRunno, buffer, stored
  <2> QED
    BY <1>1, <2>1, PortMoves DEF PortStep, Start, ResetBytes, ResetFiles, Enable, Stop, Flushed,
                                 ClampFsize, SetFsize, SetRunno, Goto
<1>3. (starts = 0 \/ starts = 1) /\ (starts < MaxStarts => starts = 0)
  BY <1>1 DEF Clean
<1> USE DEF Fresh, Starting
<1>4. CASE Start
  <2>1. /\ starts = 0 /\ pc'[Port] = "reset"
        /\ UNCHANGED <<fileWritingEnabled, acquisitionRunning>> /\ ~acquisitionRunning
    BY <1>1, <1>4, <1>3, PortMoves DEF Start, Goto, flags
  <2> QED
    BY <1>2, <2>1, QuietHole
<1>5. CASE ResetBytes \/ ResetFiles
  <2>1. /\ starts' = starts /\ pc[Port] \in {"reset", "reset files"}
        /\ pc'[Port] \in {"reset files", "enable"}
        /\ UNCHANGED <<fileWritingEnabled, acquisitionRunning>>
    BY <1>1, <1>5, PortMoves DEF ResetBytes, ResetFiles, Goto, flags
  <2>2. starts = 1
    BY <1>1, <1>3, <2>1
  <2>3. ~acquisitionRunning
    BY <2>1, <2>2 DEF HoleInv, FreshBuffer
  <2> QED
    BY <1>2, <2>1, <2>2, <2>3, QuietHole
<1>6. CASE Enable
  <2>1. starts' = starts /\ pc[Port] = "enable" /\ pc'[Port] = "idle"
    BY <1>1, <1>6, PortMoves DEF Enable, Goto
  <2>2. starts = 1
    BY <1>1, <1>3, <2>1
  <2>3. Fresh /\ ~Fresh'
    BY <2>1, <2>2
  <2>4. journal = <<>> /\ pc[Writer] \notin Inside
    BY <2>3, HoleTypes DEF HoleInv, FreshBuffer
  <2>5. PICK first \in 0 .. Len(handed) : Contiguous(first)
    BY DEF HoleInv
  <2>6. Contiguous(first)'
    BY <1>2, <2>4, <2>5, Zenon DEF Contiguous
  <2>7. LastTaken' /\ FreshBuffer'
    BY <1>2, <2>1, <2>3 DEF HoleInv, LastTaken, FreshBuffer
  <2> QED
    BY <1>2, <2>5, <2>6, <2>7, Zenon DEF HoleInv
<1>7. CASE Stop
  <2>1. /\ acquisitionRunning /\ starts' = starts /\ fileWritingEnabled' = FALSE
        /\ pc'[Port] = "flush"
    BY <1>1, <1>7, PortMoves DEF Stop, Goto
  <2>2. ~Fresh
    BY <2>1 DEF HoleInv, FreshBuffer
  <2> QED
    BY <1>2, <2>1, <2>2, QuietHole
<1>8. CASE Flushed
  <2>1. /\ pc[Port] = "flush" /\ pc'[Port] = "idle"
        /\ UNCHANGED <<starts, fileWritingEnabled, acquisitionRunning>>
    BY <1>1, <1>8, PortMoves DEF Flushed, Goto, flags
  <2>2. ~Fresh /\ ~fileWritingEnabled
    BY <2>1 DEF HoleInv, LastTaken
  <2> QED
    BY <1>2, <2>1, <2>2, QuietHole
<1>9. CASE \/ ClampFsize
           \/ \E value \in FsizeValues : SetFsize(value)
           \/ \E value \in RunNumbers : SetRunno(value)
  <2>1. UNCHANGED <<starts, fileWritingEnabled, acquisitionRunning>>
    BY <1>9 DEF ClampFsize, SetFsize, SetRunno, flags
  <2>2. \/ pc'[Port] = pc[Port]
        \/ pc[Port] \in {"clamp", "idle"} /\ pc'[Port] \in {"clamp", "idle"}
    BY <1>1, <1>9, PortMoves DEF ClampFsize, SetFsize, SetRunno, Goto
  <2>3. Fresh' <=> Fresh
    BY <2>1, <2>2
  <2>4. Fresh' \/ fileWritingEnabled' => pc'[Port] \notin {"flush", "enter"}
    <3> HIDE DEF Fresh, Starting
    <3> QED
      BY <2>1, <2>2, <2>3 DEF HoleInv, LastTaken
  <2>5. Fresh' => ~acquisitionRunning'
    <3> HIDE DEF Fresh, Starting
    <3> QED
      BY <2>1, <2>3 DEF HoleInv, FreshBuffer
  <2> HIDE DEF Fresh, Starting
  <2> QED
    BY <1>2, <2>1, <2>3, <2>4, <2>5, QuietHole
<1> QED
  BY <1>4, <1>5, <1>6, <1>7, <1>8, <1>9 DEF PortStep

\* Every step.
LEMMA NextHole ==
  ASSUME HoleInv, Files, Clean, [Next]_vars
  PROVE  HoleInv'
<1>1. ASSUME NEW n \in Sizes, Arrive(n) PROVE HoleInv'
  <2>1. UNCHANGED <<handed, journal, packet, pc, starts, fileWritingEnabled,
                    acquisitionRunning>>
    BY <1>1 DEF Arrive, Buffer!Put, buffer, flags, stored
  <2> QED
    BY <2>1, QuietHole DEF HoleInv, LastTaken, FreshBuffer, Fresh
<1>2. ASSUME NEW t \in Threads, WriteDataToFile(t) PROVE HoleInv'
  <2>1. CASE Enter(t)
    BY <2>1, EnterHole
  <2>2. CASE ~Enter(t)
    <3>1. pc[t] \in Inside
      BY <1>2, <2>2 DEF WriteDataToFile, Measure, Close, CountFile, CountBytes,
                        NextSegment, Open, Write, ReadBytes, ReadSegment, ReadNumber, Load,
                        Inside
    <3>2. t = Writer
      BY <3>1, InsideIsWriter, HoleTypes
    <3> QED
      BY <1>2, <2>2, <3>2, InsideHole, WriteHole DEF WriteDataToFile, Reads
  <2> QED
    BY <2>1, <2>2
<1>3. CASE UNCHANGED vars
  <2>1. UNCHANGED <<handed, journal, packet, pc, starts, fileWritingEnabled,
                    acquisitionRunning>>
    BY <1>3 DEF vars, buffer, flags, stored
  <2> QED
    BY <2>1, QuietHole DEF HoleInv, LastTaken, FreshBuffer, Fresh
<1> QED
  BY <1>1, <1>2, <1>3, PopHole, PortHole, Zenon DEF Next

\* In one acquisition without errors what is written is a stretch of what was handed
\* over, whatever the sizes of packets and files: from the first packet written until
\* the stop none is left out, and the change of a segment loses none (dataWriteThread,
\* writeDataToFile, stopDataAcquisition).
THEOREM WrittenWithoutHole == ASSUME Clean PROVE Spec => []NoHole
<1>1. Init => HoleInv
  BY InitHole
<1>2. HoleInv /\ Files /\ [Next]_vars => HoleInv'
  BY NextHole
<1>3. HoleInv => NoHole
  BY Zenon DEF HoleInv, Contiguous, NoHole
<1>4. Spec => []Files
  BY FilesAlways DEF Files
<1> QED
  BY <1>1, <1>2, <1>3, <1>4, PTL DEF Spec

-----------------------------------------------------------------------------
(* Bytes.                                                                  *)

\* The places of the bytes in members whose number is in a set.
PlacesIn(s, numbers) == {place \in Places(s) : s[place[1]][1] \in numbers}

\* The bytes of a sequence are finite.
LEMMA PlacesFinite ==
  ASSUME NEW S, NEW s \in Seq(Seq(S))
  PROVE  IsFiniteSet(Places(s))
<1>1. DOMAIN s = 1 .. Len(s) /\ Len(s) \in Int /\ 1 \in Int
  OBVIOUS
<1>2. IsFiniteSet(DOMAIN s)
  BY <1>1, FS_Interval
<1> DEFINE row == [k \in DOMAIN s |-> {k} \X (1 .. Len(s[k]))]
           rows == {{k} \X (1 .. Len(s[k])) : k \in DOMAIN s}
<1>3. row \in Surjection(DOMAIN s, rows)
  BY DEF Surjection
<1>4. IsFiniteSet(rows)
  BY <1>2, <1>3, FS_Surjection
<1>5. ASSUME NEW T \in rows PROVE IsFiniteSet(T)
  <2>1. PICK k \in DOMAIN s : T = {k} \X (1 .. Len(s[k]))
    OBVIOUS
  <2>2. Len(s[k]) \in Int
    BY <1>1, <2>1
  <2>3. IsFiniteSet({k}) /\ IsFiniteSet(1 .. Len(s[k]))
    BY <1>1, <2>2, FS_Singleton, FS_Interval
  <2> QED
    BY <2>1, <2>3, FS_Product
<1>6. IsFiniteSet(UNION rows)
  BY <1>4, <1>5, FS_UNION
<1> QED
  BY <1>6 DEF Places

\* The bytes of some members are places.
LEMMA PlacesInFinite ==
  ASSUME NEW S, NEW s \in Seq(Seq(S)), NEW numbers
  PROVE  IsFiniteSet(PlacesIn(s, numbers))
<1>1. PlacesIn(s, numbers) \in SUBSET Places(s)
  BY DEF PlacesIn
<1> QED
  BY <1>1, PlacesFinite, FS_Subset

\* A member's places are as many as its bytes.
LEMMA MemberBytes ==
  ASSUME NEW k, NEW n \in Nat
  PROVE  IsFiniteSet({k} \X (1 .. n)) /\ Cardinality({k} \X (1 .. n)) = n
<1>1. IsFiniteSet({k}) /\ Cardinality({k}) = 1
  BY FS_Singleton
<1>2. IsFiniteSet(1 .. n) /\ Cardinality(1 .. n) = n
  BY FS_Interval
<1>3. /\ IsFiniteSet({k} \X (1 .. n))
      /\ Cardinality({k} \X (1 .. n)) = Cardinality({k}) * Cardinality(1 .. n)
  BY <1>1, <1>2, FS_Product, Zenon
<1>4. 1 * n = n
  OBVIOUS
<1> QED
  BY <1>1, <1>2, <1>3, <1>4, Zenon

\* What a sequence of bytes more adds.
LEMMA PlacesAppended ==
  ASSUME NEW S, NEW s \in Seq(Seq(S)), NEW p \in Seq(S)
  PROVE  /\ Places(Append(s, p)) = Places(s) \cup ({Len(s) + 1} \X (1 .. Len(p)))
         /\ Places(s) \cap ({Len(s) + 1} \X (1 .. Len(p))) = {}
         /\ \A place \in Places(s) :
              place[1] \in 1 .. Len(s) /\ Append(s, p)[place[1]] = s[place[1]]
<1> DEFINE t == Append(s, p)
           m == Len(s) + 1
           row(k) == {k} \X (1 .. Len(s[k]))
<1>1. /\ Len(s) \in Nat /\ DOMAIN s = 1 .. Len(s) /\ DOMAIN t = 1 .. m
      /\ t[m] = p /\ \A k \in 1 .. Len(s) : t[k] = s[k]
  OBVIOUS
<1>2. DOMAIN t = DOMAIN s \cup {m} /\ m \notin DOMAIN s
  BY <1>1
<1>3. Places(t) = UNION {{k} \X (1 .. Len(t[k])) : k \in DOMAIN s \cup {m}}
  BY <1>2 DEF Places
<1>4. \A k \in DOMAIN s : t[k] = s[k]
  BY <1>1
<1> HIDE DEF t, m
<1>5. Places(t) = Places(s) \cup ({m} \X (1 .. Len(p)))
  <2>1. ASSUME NEW place \in Places(t) PROVE place \in Places(s) \cup ({m} \X (1 .. Len(p)))
    <3>1. PICK k \in DOMAIN s \cup {m} : place \in {k} \X (1 .. Len(t[k]))
      BY <1>3, <2>1, Zenon
    <3>2. CASE k = m
      BY <1>1, <3>1, <3>2, Zenon
    <3>3. CASE k \in DOMAIN s
      BY <1>4, <3>1, <3>3, Zenon DEF Places
    <3> QED
      BY <3>1, <3>2, <3>3, Zenon
  <2>2. ASSUME NEW place \in Places(s) PROVE place \in Places(t)
    <3>1. PICK k \in DOMAIN s : place \in {k} \X (1 .. Len(s[k]))
      BY <2>2, Zenon DEF Places
    <3> QED
      BY <1>2, <1>4, <3>1, Zenon DEF Places
  <2>3. ASSUME NEW place \in {m} \X (1 .. Len(p)) PROVE place \in Places(t)
    BY <1>1, <1>2, <2>3, Zenon DEF Places
  <2> QED
    BY <2>1, <2>2, <2>3, Zenon
<1>6. \A place \in Places(s) : place[1] \in DOMAIN s
  BY DEF Places
<1>7. Places(s) \cap ({m} \X (1 .. Len(p))) = {}
  BY <1>2, <1>6
<1>8. \A place \in Places(s) : place[1] \in 1 .. Len(s) /\ t[place[1]] = s[place[1]]
  BY <1>1, <1>4, <1>6, Zenon
<1> QED
  BY <1>5, <1>7, <1>8 DEF t, m

\* A sequence of bytes more has its bytes more.
LEMMA BytesAppended ==
  ASSUME NEW S, NEW s \in Seq(Seq(S)), NEW p \in Seq(S)
  PROVE  Bytes(s) \in Nat /\ Bytes(Append(s, p)) = Bytes(s) + Len(p)
<1> DEFINE new == {Len(s) + 1} \X (1 .. Len(p))
<1>1. Len(p) \in Nat /\ IsFiniteSet(new) /\ Cardinality(new) = Len(p)
  <2>1. Len(p) \in Nat
    OBVIOUS
  <2> QED
    BY <2>1, MemberBytes, Zenon
<1>2. IsFiniteSet(Places(s)) /\ Cardinality(Places(s)) \in Nat
  BY PlacesFinite, FS_CardinalityType
<1>3. Places(Append(s, p)) = Places(s) \cup new /\ Places(s) \cap new = {}
  BY PlacesAppended
<1>4. Cardinality(Places(s) \cap new) = 0
  BY <1>3, FS_EmptySet
<1> HIDE DEF new
<1>5. Cardinality(Places(s) \cup new) = Cardinality(Places(s)) + Cardinality(new) - 0
  BY <1>1, <1>2, <1>4, FS_Union
<1> QED
  BY <1>1, <1>2, <1>3, <1>5 DEF Bytes

\* One that is not in the set adds none to those of the set.
LEMMA OtherAppended ==
  ASSUME NEW S, NEW s \in Seq(Seq(S)), NEW p \in Seq(S), NEW numbers, p[1] \notin numbers
  PROVE  PlacesIn(Append(s, p), numbers) = PlacesIn(s, numbers)
<1>1. Append(s, p)[Len(s) + 1] = p
  OBVIOUS
<1>2. \A place \in {Len(s) + 1} \X (1 .. Len(p)) : place[1] = Len(s) + 1
  OBVIOUS
<1> DEFINE t == Append(s, p)
           new == {Len(s) + 1} \X (1 .. Len(p))
<1>3. Places(t) = Places(s) \cup new /\ \A place \in Places(s) : t[place[1]] = s[place[1]]
  BY PlacesAppended
<1>4. \A place \in new : t[place[1]][1] \notin numbers
  BY <1>1, <1>2, Zenon
<1> HIDE DEF t, new
<1>5. {place \in Places(t) : t[place[1]][1] \in numbers}
        = {place \in Places(s) : s[place[1]][1] \in numbers}
  BY <1>3, <1>4
<1> QED
  BY <1>5 DEF PlacesIn, t

\* When a number joins the set that one member alone has, its bytes are added.
LEMMA NumberJoins ==
  ASSUME NEW S, NEW s \in Seq(Seq(S)), NEW numbers, NEW k \in 1 .. Len(s),
         s[k][1] \notin numbers,
         \A j \in 1 .. Len(s) : j # k => s[j][1] # s[k][1]
  PROVE  /\ Cardinality(PlacesIn(s, numbers)) \in Nat
         /\ Cardinality(PlacesIn(s, numbers \cup {s[k][1]}))
              = Cardinality(PlacesIn(s, numbers)) + Len(s[k])
<1> DEFINE row == {k} \X (1 .. Len(s[k]))
           old == PlacesIn(s, numbers)
           new == PlacesIn(s, numbers \cup {s[k][1]})
<1>1. Len(s[k]) \in Nat /\ IsFiniteSet(row) /\ Cardinality(row) = Len(s[k])
  <2>1. Len(s[k]) \in Nat
    OBVIOUS
  <2> QED
    BY <2>1, MemberBytes, Zenon
<1>2. IsFiniteSet(old) /\ Cardinality(old) \in Nat
  BY PlacesInFinite, FS_CardinalityType
<1>3. DOMAIN s = 1 .. Len(s)
  OBVIOUS
<1>4. new = old \cup row
  <2>1. ASSUME NEW place \in new PROVE place \in old \cup row
    <3>1. PICK j \in DOMAIN s : place \in {j} \X (1 .. Len(s[j]))
      BY <2>1, Zenon DEF PlacesIn, Places
    <3>2. place[1] = j
      BY <3>1
    <3>3. s[j][1] \in numbers \cup {s[k][1]} /\ place \in Places(s)
      BY <2>1, <3>2, Zenon DEF PlacesIn
    <3>4. CASE j = k
      BY <3>1, <3>4
    <3>5. CASE j # k
      BY <1>3, <3>2, <3>3, <3>5, Zenon DEF PlacesIn
    <3> QED
      BY <3>4, <3>5
  <2>2. ASSUME NEW place \in row PROVE place \in new
    <3>1. place[1] = k
      BY <2>2
    <3>2. place \in Places(s)
      BY <1>3, <2>2, Zenon DEF Places
    <3> QED
      BY <3>1, <3>2 DEF PlacesIn
  <2>3. old \subseteq new
    BY DEF PlacesIn
  <2> QED
    BY <2>1, <2>2, <2>3, Zenon
<1>5. old \cap row = {}
  <2> SUFFICES ASSUME NEW place \in old, place \in row PROVE FALSE
    OBVIOUS
  <2>1. place[1] = k
    OBVIOUS
  <2> QED
    BY <2>1 DEF PlacesIn
<1>6. Cardinality(old \cap row) = 0
  BY <1>5, FS_EmptySet
<1> HIDE DEF old, row, new
<1>7. Cardinality(old \cup row) = Cardinality(old) + Cardinality(row) - 0
  BY <1>1, <1>2, <1>6, FS_Union
<1>8. Cardinality(new) = Cardinality(old) + Len(s[k])
  BY <1>1, <1>2, <1>4, <1>7
<1> QED
  BY <1>2, <1>8, Zenon DEF old, new

-----------------------------------------------------------------------------
(* The size of the open file.                                              *)

\* A number behind the packet the write thread holds, those of the queue and the last
\* arrival: no packet with that number is to be written any more.
Behind(i) ==
  /\ i \in Nat /\ i <= arrived
  /\ pc[Writer] \in Holding => i < packet[Writer][1]
  /\ \A k \in 1 .. Len(queue) : i < queue[k][1]

\* What a step neither of the data thread nor of the queue leaves alone.
LEMMA HeldKept ==
  ASSUME OrderInv, PortStep \/ (\E t \in Threads : WriteDataToFile(t)) \/ UNCHANGED vars
  PROVE  /\ UNCHANGED <<queue, arrived, handed>>
         /\ pc'[Writer] \in Holding => pc[Writer] \in Holding /\ packet'[Writer] = packet[Writer]
<1>1. PortInv /\ packet \in [Threads -> Seq(Nat)]
  BY DEF OrderInv, Shapes
<1>2. CASE PortStep
  <2>1. UNCHANGED <<queue, arrived, handed, packet>>
    BY <1>2 DEF PortStep, Start, ResetBytes, ResetFiles, Enable, Stop, Flushed, ClampFsize, SetFsize,
                SetRunno, buffer
  <2>2. pc'[Writer] = pc[Writer]
    BY <1>1, <1>2, PortMoves DEF PortStep, Start, ResetBytes, ResetFiles, Enable, Stop, Flushed,
                                 ClampFsize, SetFsize, SetRunno, Goto
  <2> QED
    BY <2>1, <2>2
<1>3. ASSUME NEW t \in Threads, WriteDataToFile(t)
      PROVE  /\ UNCHANGED <<queue, arrived, handed>>
             /\ pc'[Writer] \in Holding => pc[Writer] \in Holding /\ packet'[Writer] = packet[Writer]
  <2>1. UNCHANGED <<queue, arrived, handed>>
    BY <1>3 DEF WriteDataToFile, Enter, Measure, Close, CountFile, CountBytes, NextSegment,
                Open, Write, ReadBytes, ReadSegment, ReadNumber, Load, buffer
  <2>2. /\ pc[t] \in Holding
        /\ packet' = packet \/ Return(t)
    BY <1>3 DEF WriteDataToFile, Enter, Measure, Close, CountFile, CountBytes, NextSegment,
                Open, Write, ReadBytes, ReadSegment, ReadNumber, Load, Holding, Inside
  <2>3. CASE t = Writer
    <3>1. ASSUME Return(Writer) PROVE pc'[Writer] \notin Holding
      <4>1. pc'[Writer] = "pop"
        BY <1>1, <3>1, WriterMoves DEF Return, Goto
      <4> QED
        BY <4>1 DEF Holding, Inside
    <3> QED
      BY <2>1, <2>2, <2>3, <3>1
  <2>4. CASE t = Port
    <3>1. Enter(t)
      BY <1>1, <1>3, <2>4 DEF WriteDataToFile, Measure, Close, CountFile, CountBytes,
                              NextSegment, Open, Write, ReadBytes, ReadSegment,
                              ReadNumber, Load, PortInv, OneFileWriter, Inside
    <3>2. pc'[Writer] = pc[Writer]
      BY <1>1, <2>4, <3>1, PortMoves DEF Enter, Return, Goto
    <3>3. packet'[Writer] = packet[Writer]
      BY <1>1, <2>2, <2>4 DEF Return, Writer, Port, Threads
    <3> QED
      BY <2>1, <3>2, <3>3
  <2> QED
    BY <2>3, <2>4 DEF Threads
<1>4. CASE UNCHANGED vars
  BY <1>4 DEF vars, buffer
<1> QED
  BY <1>2, <1>3, <1>4

\* The cases of a step.
LEMMA StepCases ==
  ASSUME [Next]_vars
  PROVE  \/ \E n \in Sizes : Arrive(n)
         \/ \E t \in Threads : Pop(t)
         \/ PortStep \/ (\E t \in Threads : WriteDataToFile(t)) \/ UNCHANGED vars
BY Zenon DEF Next

\* Such a number stays behind.
LEMMA StaysBehind ==
  ASSUME TypesInv, [Next]_vars, NEW i, Behind(i)
  PROVE  Behind(i)'
<1>1. /\ OrderInv /\ PortInv /\ packet \in [Threads -> Seq(Numbers)]
      /\ queue \in Seq(Packets) /\ arrived \in Nat
  BY DEF TypesInv, OrderInv, Kinds, Shapes
<1>2. ASSUME NEW n \in Sizes, Arrive(n) PROVE Behind(i)'
  <2> DEFINE p == PacketOf(arrived + 1, n)
  <2>1. arrived' = arrived + 1 /\ UNCHANGED <<pc, packet>>
    BY <1>2 DEF Arrive
  <2>2. p \in Packets /\ p[1] = arrived + 1
    BY <1>1, <1>2, PacketNumber, AcquisitionAssumption DEF Arrive
  <2>3. queue' = queue \/ queue' = Append(queue, p)
    BY <1>2 DEF Arrive, Buffer!Put, buffer
  <2> HIDE DEF p
  <2>4. \A k \in 1 .. Len(queue') : queue'[k] = p \/ (k \in 1 .. Len(queue) /\ queue'[k] = queue[k])
    BY <1>1, <2>2, <2>3
  <2> QED
    BY <1>1, <2>1, <2>2, <2>4 DEF Behind
<1>3. ASSUME NEW t \in Threads, Pop(t) PROVE Behind(i)'
  <2>1. /\ queue # <<>> /\ queue' = Tail(queue) /\ arrived' = arrived
        /\ packet' = [packet EXCEPT ![t] = Head(queue)]
        /\ pc' = [pc EXCEPT ![t] = "enter"]
    BY <1>3 DEF Pop, Buffer!Take, Goto
  <2>2. /\ Head(queue) = queue[1] /\ 1 \in 1 .. Len(queue)
        /\ \A k \in 1 .. Len(queue') : k + 1 \in 1 .. Len(queue) /\ queue'[k] = queue[k + 1]
    BY <1>1, <2>1
  <2>3. \A k \in 1 .. Len(queue') : i < queue'[k][1]
    BY <2>2 DEF Behind
  <2>4. CASE t = Writer
    BY <1>1, <2>1, <2>2, <2>3, <2>4 DEF Behind, Threads
  <2>5. CASE t = Port
    BY <1>1, <2>1, <2>3, <2>5 DEF Behind, Threads, Writer, Port, PortInv
  <2> QED
    BY <2>4, <2>5 DEF Threads
<1>4. CASE PortStep \/ (\E t \in Threads : WriteDataToFile(t)) \/ UNCHANGED vars
  BY <1>1, <1>4, HeldKept DEF Behind
<1> QED
  BY <1>2, <1>3, <1>4, StepCases

\* The numbers in the journal are behind; the one in hand is, once it is written.
LEMMA WrittenBehind ==
  ASSUME TypesInv
  PROVE  /\ \A i \in ToSet(journal) : Behind(i)
         /\ Write(Writer) => \A i : i = packet[Writer][1] => Behind(i)'
<1>1. OrderInv /\ PortInv /\ journal \in Seq(Nat)
  BY DEF TypesInv, OrderInv, Shapes
<1>2. \A i \in ToSet(journal) : Behind(i)
  BY <1>1 DEF OrderInv, Ordered, Behind, ToSet
<1>3. ASSUME Write(Writer), NEW i, i = packet[Writer][1] PROVE Behind(i)'
  <2>1. pc[Writer] = "write" /\ UNCHANGED <<queue, arrived>>
    BY <1>3 DEF Write, buffer
  <2>2. pc[Writer] \in Holding
    BY <2>1 DEF Holding, Inside
  <2>3. packet[Writer] \in Packets /\ packet[Writer][1] \in Nat
    BY <1>1, <2>2, PacketFacts DEF OrderInv, Shapes
  <2>4. pc'[Writer] = "pop"
    BY <1>1, <1>3, WriterMoves DEF Write, Return, Goto
  <2>5. pc'[Writer] \notin Holding
    BY <2>4 DEF Holding, Inside
  <2>6. /\ packet[Writer][1] <= arrived
        /\ \A k \in 1 .. Len(queue) : packet[Writer][1] < queue[k][1]
    BY <1>1, <2>2 DEF OrderInv, Ordered
  <2> QED
    BY <1>3, <2>1, <2>3, <2>5, <2>6, Zenon DEF Behind
<1> QED
  BY <1>2, <1>3

\* No piece of a packet still to be written is in a file.
PiecesBehind ==
  \A name \in DOMAIN disk : \A k \in 1 .. Len(disk[name]) : Behind(disk[name][k][1])

\* The open file is there to be written to, and its size is exact.
SizeInv ==
  /\ pc[Writer] = "write" => currentFileHandle # NoFile
  /\ currentFileHandle # NoFile => currentFileHandle \in DOMAIN disk
  /\ SizeExact
  /\ PiecesBehind

\* The bytes of whole packets are those of the packets whose numbers are in the journal.
LEMMA WholeIsIn ==
  ASSUME NEW s
  PROVE  WholeBytes(s) = Cardinality(PlacesIn(s, ToSet(journal)))
BY DEF WholeBytes, WholePlaces, PlacesIn

\* The first state.
LEMMA InitSize == Init => SizeInv
<1> SUFFICES ASSUME Init PROVE SizeInv
  OBVIOUS
<1>1. pc[Writer] = "pop" /\ currentFileHandle = NoFile
  BY DEF Init, Threads, Writer, Port
<1>2. \A name \in DOMAIN disk : FALSE
  BY DEF Init
<1> QED
  BY <1>1, <1>2 DEF SizeInv, SizeExact, PiecesBehind

\* The packet that is written: a new number, and all its bytes have it.
LEMMA PacketWritten ==
  ASSUME Files, SizeInv, Write(Writer)
  PROVE  /\ currentFileHandle \in DOMAIN disk
         /\ disk[currentFileHandle] \in Seq(Seq(Numbers))
         /\ packet[Writer] \in Seq(Numbers)
         /\ Len(packet[Writer]) \in Nat
         /\ packet[Writer][1] \in Numbers
         /\ packet[Writer][1] \notin ToSet(journal)
         /\ \A k \in 1 .. Len(disk[currentFileHandle]) :
              disk[currentFileHandle][k][1] # packet[Writer][1]
<1>1. pc[Writer] = "write" /\ pc[Writer] \in Holding
  BY DEF Write, Holding, Inside
<1>2. currentFileHandle \in DOMAIN disk
  BY <1>1 DEF SizeInv
<1>3. disk[currentFileHandle] \in Seq(Seq(Numbers))
  BY <1>2 DEF Files, TypesInv, Kinds
<1>4. packet[Writer] \in Packets
  BY <1>1 DEF Files, TypesInv, OrderInv, Shapes
<1>5. /\ packet[Writer] \in Seq(Numbers) /\ Len(packet[Writer]) \in Nat
      /\ packet[Writer][1] \in Numbers
  BY <1>4, PacketBytes
<1>6. packet[Writer][1] \notin ToSet(journal)
  BY <1>1, <1>5, WrittenBehind DEF Files, Behind, Numbers
<1>7. \A k \in 1 .. Len(disk[currentFileHandle]) :
        disk[currentFileHandle][k][1] # packet[Writer][1]
  BY <1>1, <1>2, <1>5 DEF SizeInv, PiecesBehind, Behind, Numbers
<1> QED
  BY <1>2, <1>3, <1>5, <1>6, <1>7

\* The journal with one more number, as a set.
LEMMA JournalSet ==
  ASSUME NEW s \in Seq(Numbers), NEW i \in Numbers
  PROVE  ToSet(Append(s, i)) = ToSet(s) \cup {i}
<1> DEFINE t == Append(s, i)
<1>1. /\ DOMAIN s = 1 .. Len(s) /\ DOMAIN t = 1 .. Len(s) + 1
      /\ \A k \in DOMAIN s : k \in DOMAIN t /\ t[k] = s[k]
      /\ Len(s) + 1 \in DOMAIN t /\ t[Len(s) + 1] = i
      /\ \A k \in DOMAIN t : k \in DOMAIN s \/ k = Len(s) + 1
  OBVIOUS
<1> HIDE DEF t
<1>2. {t[k] : k \in DOMAIN t} = {s[k] : k \in DOMAIN s} \cup {i}
  BY <1>1
<1> QED
  BY <1>2 DEF ToSet, t

\* The three outcomes of write().
LEMMA WriteOutcomes ==
  ASSUME Files, SizeInv, Write(Writer)
  PROVE  LET s == disk[currentFileHandle]
             p == packet[Writer]
         IN  \/ /\ disk' = [disk EXCEPT ![currentFileHandle] = Append(s, p)]
                /\ currentFileSize' = currentFileSize + Len(p)
                /\ ToSet(journal') = ToSet(journal) \cup {p[1]}
             \/ /\ "short" \in Outcomes
                /\ \E piece \in Seq(Numbers) :
                     /\ piece[1] = p[1]
                     /\ disk' = [disk EXCEPT ![currentFileHandle] = Append(s, piece)]
                /\ UNCHANGED <<currentFileSize, journal>>
             \/ UNCHANGED <<disk, currentFileSize, journal>>
<1> DEFINE s == disk[currentFileHandle]
           p == packet[Writer]
<1>1. p \in Seq(Numbers) /\ Len(p) \in Nat /\ p[1] \in Numbers
  BY PacketWritten
<1>2. journal \in Seq(Numbers)
  BY DEF Files, TypesInv, Kinds
<1>3. SubSeq(p, 1, Len(p)) = p
  BY <1>1
<1>4. CASE /\ Store(Writer, Len(p))
           /\ currentFileSize' = currentFileSize + Len(p)
           /\ journal' = Append(journal, p[1])
  <2>1. disk' = [disk EXCEPT ![currentFileHandle] = Append(s, p)]
    BY <1>3, <1>4 DEF Store
  <2>2. ToSet(journal') = ToSet(journal) \cup {p[1]}
    BY <1>1, <1>2, <1>4, JournalSet
  <2> QED
    BY <1>4, <2>1, <2>2
<1>5. ASSUME "short" \in Outcomes, NEW k \in 1 .. Len(p) - 1, Store(Writer, k),
             UNCHANGED <<currentFileSize, journal>>
      PROVE  \E piece \in Seq(Numbers) :
               /\ piece[1] = p[1]
               /\ disk' = [disk EXCEPT ![currentFileHandle] = Append(s, piece)]
  <2>1. k \in 1 .. Len(p) /\ k \in 0 .. Len(p)
    BY <1>1
  <2>2. SubSeq(p, 1, k) \in Seq(Numbers) /\ SubSeq(p, 1, k)[1] = p[1]
    BY <1>1, <2>1
  <2>3. disk' = [disk EXCEPT ![currentFileHandle] = Append(s, SubSeq(p, 1, k))]
    BY <1>5 DEF Store
  <2> QED
    BY <2>2, <2>3, Zenon
<1> QED
  BY <1>4, <1>5, Zenon DEF Write

\* A write adds to the size what it adds to the file in whole packets.
LEMMA WriteSize ==
  ASSUME Files, SizeInv, Write(Writer)
  PROVE  SizeInv'
<1> DEFINE s == disk[currentFileHandle]
           p == packet[Writer]
           numbers == ToSet(journal)
<1>1. /\ currentFileHandle \in DOMAIN disk /\ s \in Seq(Seq(Numbers)) /\ p \in Seq(Numbers)
      /\ p[1] \notin numbers /\ \A k \in 1 .. Len(s) : s[k][1] # p[1]
  BY PacketWritten
<1>2. currentFileHandle' = currentFileHandle
  BY DEF Write
<1>3. currentFileHandle # NoFile /\ pc'[Writer] = "pop"
  <2>1. pc[Writer] = "write" /\ PortInv
    BY DEF Write, Files, TypesInv, OrderInv
  <2> QED
    BY <2>1, WriterMoves DEF SizeInv, Write, Return, Goto
<1>4. ASSUME NEW i, Behind(i) \/ i = p[1] PROVE Behind(i)'
  <2>1. [Next]_vars
    BY DEF Next, WriteDataToFile, Threads
  <2> QED
    BY <1>4, <2>1, StaysBehind, WrittenBehind DEF Files
<1>5. currentFileSize = Cardinality(PlacesIn(s, numbers))
  BY <1>3, WholeIsIn DEF SizeInv, SizeExact
<1>6. ASSUME NEW piece \in Seq(Numbers), piece[1] = p[1],
             disk' = [disk EXCEPT ![currentFileHandle] = Append(s, piece)]
      PROVE  /\ PiecesBehind'
             /\ currentFileHandle \in DOMAIN disk'
             /\ disk'[currentFileHandle] = Append(s, piece)
  <2>1. DOMAIN disk' = DOMAIN disk /\ disk'[currentFileHandle] = Append(s, piece)
    BY <1>1, <1>6
  <2>2. ASSUME NEW name \in DOMAIN disk', NEW k \in 1 .. Len(disk'[name]),
               NEW i, i = disk'[name][k][1]
        PROVE  Behind(i)'
    <3>1. CASE name # currentFileHandle
      <4>1. name \in DOMAIN disk /\ disk'[name] = disk[name]
        BY <1>6, <2>1, <3>1
      <4>2. Behind(i)
        BY <2>2, <4>1 DEF SizeInv, PiecesBehind
      <4> QED
        BY <1>4, <4>2
    <3>2. CASE name = currentFileHandle
      <4>1. \/ k \in 1 .. Len(s) /\ disk'[name][k] = s[k]
            \/ disk'[name][k] = piece
        BY <1>1, <1>6, <2>1, <2>2, <3>2
      <4>2. CASE k \in 1 .. Len(s) /\ disk'[name][k] = s[k]
        BY <1>1, <1>4, <2>2, <4>2 DEF SizeInv, PiecesBehind
      <4>3. CASE disk'[name][k] = piece
        BY <1>4, <1>6, <2>2, <4>3
      <4> QED
        BY <4>1, <4>2, <4>3
    <3> QED
      BY <3>1, <3>2
  <2>3. PiecesBehind'
    BY <2>2 DEF PiecesBehind, Behind
  <2> QED
    BY <1>1, <2>1, <2>3
<1>7. ASSUME currentFileHandle \in DOMAIN disk', PiecesBehind',
             currentFileSize' = Cardinality(PlacesIn(disk'[currentFileHandle], ToSet(journal')))
      PROVE  SizeInv'
  <2>1. WholeBytes(disk[currentFileHandle])'
          = Cardinality(PlacesIn(disk'[currentFileHandle'], ToSet(journal')))
    BY DEF WholeBytes, WholePlaces, PlacesIn, Places
  <2> QED
    BY <1>2, <1>3, <1>7, <2>1 DEF SizeInv, SizeExact
<1> HIDE DEF s, p, numbers
<1>8. CASE /\ disk' = [disk EXCEPT ![currentFileHandle] = Append(s, p)]
           /\ currentFileSize' = currentFileSize + Len(p)
           /\ ToSet(journal') = numbers \cup {p[1]}
  <2> DEFINE t == Append(s, p)
             k == Len(s) + 1
  <2>1. /\ t \in Seq(Seq(Numbers)) /\ k \in 1 .. Len(t) /\ t[k] = p
        /\ \A j \in 1 .. Len(t) : j # k => j \in 1 .. Len(s) /\ t[j] = s[j]
    BY <1>1
  <2>2. \A j \in 1 .. Len(t) : j # k => t[j][1] # t[k][1]
    BY <1>1, <2>1
  <2>3. t[k][1] \notin numbers
    BY <1>1, <2>1
  <2>4. PlacesIn(t, numbers) = PlacesIn(s, numbers)
    BY <1>1, OtherAppended
  <2> HIDE DEF t, k
  <2>5. Cardinality(PlacesIn(t, numbers \cup {t[k][1]}))
          = Cardinality(PlacesIn(t, numbers)) + Len(t[k])
    BY <2>1, <2>2, <2>3, NumberJoins
  <2>6. currentFileSize' = Cardinality(PlacesIn(t, ToSet(journal')))
    BY <1>5, <1>8, <2>1, <2>4, <2>5
  <2> QED
    BY <1>1, <1>6, <1>7, <1>8, <2>6 DEF t
<1>9. ASSUME NEW piece \in Seq(Numbers), piece[1] = p[1],
             disk' = [disk EXCEPT ![currentFileHandle] = Append(s, piece)],
             UNCHANGED <<currentFileSize, journal>>
      PROVE  SizeInv'
  <2>1. PlacesIn(Append(s, piece), numbers) = PlacesIn(s, numbers)
    BY <1>1, <1>9, OtherAppended
  <2>2. PiecesBehind' /\ currentFileHandle \in DOMAIN disk'
        /\ disk'[currentFileHandle] = Append(s, piece)
    BY <1>6, <1>9
  <2>3. currentFileSize' = Cardinality(PlacesIn(disk'[currentFileHandle], ToSet(journal')))
    BY <1>5, <1>9, <2>1, <2>2 DEF numbers
  <2> QED
    BY <1>7, <2>2, <2>3
<1>10. CASE UNCHANGED <<disk, currentFileSize, journal>>
  <2>1. PiecesBehind'
    BY <1>4, <1>10 DEF SizeInv, PiecesBehind
  <2>2. currentFileSize' = Cardinality(PlacesIn(disk'[currentFileHandle], ToSet(journal')))
    BY <1>5, <1>10 DEF s, numbers
  <2> QED
    BY <1>1, <1>7, <1>10, <2>1, <2>2
<1> QED
  BY <1>8, <1>9, <1>10, WriteOutcomes, Zenon DEF s, p, numbers

\* A file that is opened is empty.
LEMMA OpenSize ==
  ASSUME Files, SizeInv, Open(Writer)
  PROVE  SizeInv'
<1>1. ASSUME NEW i, Behind(i) PROVE Behind(i)'
  <2>1. [Next]_vars
    BY DEF Next, WriteDataToFile, Threads
  <2> QED
    BY <1>1, <2>1, StaysBehind DEF Files
<1>2. journal' = journal /\ pc[Writer] = "open" /\ currentFileHandle = NoFile
  BY DEF Open, Files, FilesInv, Handles
<1>3. CASE Return(Writer) /\ UNCHANGED <<file, disk, opened>>
  <2>1. pc'[Writer] = "pop"
    BY <1>3, WriterMoves DEF Return, Goto, Files, TypesInv, OrderInv
  <2> QED
    BY <1>1, <1>2, <1>3, <2>1 DEF SizeInv, SizeExact, PiecesBehind, file
<1>4. ASSUME NEW name \in Filenames(loaded[Writer]),
             /\ currentFileHandle' = name
             /\ currentFileSize' = 0
             /\ disk' = [f \in DOMAIN disk \cup {name} |-> IF f = name THEN <<>> ELSE disk[f]]
      PROVE  SizeInv'
  <2>1. name \in DOMAIN disk' /\ disk'[name] = <<>>
    BY <1>4
  <2>2. name # NoFile
    BY FilenamesType, AcquisitionAssumption DEF Files, TypesInv, Names, Threads
  <2>3. Places(<<>>) = {}
    BY DEF Places
  <2>4. WholeBytes(disk[currentFileHandle])' = 0
    <3>1. WholePlaces(disk[currentFileHandle])' = {}
      BY <1>4, <2>1, <2>3 DEF WholePlaces, Places
    <3> QED
      BY <3>1, FS_EmptySet DEF WholeBytes
  <2>5. PiecesBehind'
    BY <1>1, <1>4 DEF SizeInv, PiecesBehind
  <2> QED
    BY <1>4, <2>1, <2>2, <2>4, <2>5 DEF SizeInv, SizeExact
<1> QED
  BY <1>3, <1>4, Zenon DEF Open

\* Steps that leave the open file alone, or close it.
LEMMA QuietSize ==
  ASSUME Files, SizeInv, [Next]_vars, UNCHANGED <<disk, journal>>,
         pc'[Writer] = "write" => currentFileHandle' # NoFile,
         UNCHANGED <<currentFileHandle, currentFileSize>> \/ currentFileHandle' = NoFile
  PROVE  SizeInv'
<1>1. PiecesBehind'
  BY StaysBehind DEF Files, SizeInv, PiecesBehind
<1>2. SizeExact'
  BY DEF SizeInv, SizeExact, WholeBytes, WholePlaces
<1> QED
  BY <1>1, <1>2 DEF SizeInv

\* Every step.
LEMMA NextSize == SizeInv /\ Files /\ [Next]_vars => SizeInv'
<1> SUFFICES ASSUME SizeInv, Files, [Next]_vars PROVE SizeInv'
  OBVIOUS
<1>1. PortInv
  BY DEF Files, TypesInv, OrderInv
<1>2. ASSUME NEW n \in Sizes, Arrive(n) PROVE SizeInv'
  BY <1>2, QuietSize DEF Arrive, file, stored, SizeInv
<1>3. ASSUME NEW t \in Threads, Pop(t) PROVE SizeInv'
  <2>1. pc'[Writer] # "write" \/ pc'[Writer] = pc[Writer]
    BY <1>1, <1>3, WriterMoves, PortMoves DEF Pop, Goto, Threads
  <2> QED
    BY <1>3, <2>1, QuietSize DEF Pop, file, stored, SizeInv
<1>4. ASSUME NEW t \in Threads, Enter(t) PROVE SizeInv'
  <2>1. pc'[Writer] # "write" \/ pc'[Writer] = pc[Writer]
    BY <1>1, <1>4, WriterMoves, PortMoves DEF Enter, Return, Goto, Threads
  <2> QED
    BY <1>4, <2>1, QuietSize DEF Enter, file, stored, SizeInv
<1>5. CASE Measure(Writer)
  <2>1. pc'[Writer] = "write" => currentFileHandle # NoFile
    BY <1>1, <1>5, WriterMoves DEF Measure, Goto
  <2> QED
    BY <1>5, <2>1, QuietSize DEF Measure, file, stored
<1>6. CASE \/ Close(Writer) \/ CountFile(Writer) \/ CountBytes(Writer) \/ NextSegment(Writer)
           \/ Reads(Writer)
  <2>1. currentFileHandle' = NoFile /\ UNCHANGED <<disk, journal>>
    BY <1>6, ReadsLoad DEF Close, CountFile, CountBytes, NextSegment, file, stored, Files,
                           FilesInv, Handles, BetweenFiles
  <2>2. pc'[Writer] # "write"
    BY <1>1, <1>6, WriterMoves, ReadsLoad
       DEF Close, CountFile, CountBytes, NextSegment, Goto
  <2> QED
    BY <2>1, <2>2, QuietSize
<1>7. ASSUME NEW t \in Threads, WriteDataToFile(t) PROVE SizeInv'
  <2>1. CASE Enter(t)
    BY <1>4, <2>1
  <2>2. CASE ~Enter(t)
    <3>1. pc[t] \in Inside
      BY <1>7, <2>2 DEF WriteDataToFile, Measure, Close, CountFile, CountBytes,
                        NextSegment, Open, Write, ReadBytes, ReadSegment, ReadNumber,
                        Load, Inside
    <3>2. t = Writer
      BY <1>1, <3>1, InsideIsWriter
    <3> QED
      BY <1>5, <1>6, <1>7, <2>2, <3>2, OpenSize, WriteSize
         DEF WriteDataToFile, Reads
  <2> QED
    BY <2>1, <2>2
<1>8. CASE PortStep
  <2>1. UNCHANGED <<disk, journal, currentFileHandle, currentFileSize>>
    BY <1>8 DEF PortStep, Start, ResetBytes, ResetFiles, Enable, Stop, Flushed, ClampFsize, SetFsize,
                SetRunno, file, stored
  <2>2. pc'[Writer] = pc[Writer]
    BY <1>1, <1>8, PortMoves DEF PortStep, Start, ResetBytes, ResetFiles, Enable, Stop, Flushed,
                                 ClampFsize, SetFsize, SetRunno, Goto
  <2> QED
    BY <2>1, <2>2, QuietSize DEF SizeInv
<1>9. CASE UNCHANGED vars
  BY <1>9, QuietSize DEF vars, file, stored, SizeInv
<1> QED
  BY <1>2, <1>3, <1>7, <1>8, <1>9, StepCases

\* However often writes and opens fail or are cut short, acquisition is restarted, and
\* FSIZE and RUNNO change: the size from which writeDataToFile decides on a new segment
\* is what the open file holds in whole packets.
THEOREM SizesExact == Spec => []SizeExact
<1>1. SizeInv => SizeExact
  BY DEF SizeInv
<1>2. Spec => []Files
  BY FilesAlways DEF Files
<1> QED
  BY InitSize, NextSize, <1>1, <1>2, PTL DEF Spec

-----------------------------------------------------------------------------
(* The totals of the first acquisition.                                    *)

\* Packets are taken in the order of their numbers, and the packet the write thread
\* holds is one of them.
TakenInOrder ==
  /\ handed \in Seq(Packets)
  /\ \A j, k \in 1 .. Len(handed) : j < k => handed[j][1] < handed[k][1]
  /\ \A k \in 1 .. Len(handed) : handed[k][1] <= arrived
  /\ \A j \in 1 .. Len(handed), k \in 1 .. Len(queue) : handed[j][1] < queue[k][1]
  /\ pc[Writer] \in Holding => \E k \in 1 .. Len(handed) : packet[Writer] = handed[k]

\* The totals and the size of the open file account for all bytes written, and the
\* total read for the addition is still the total; the size is cleared with the file.
TotalsInv ==
  starts <= 1 =>
    /\ totalBytesWritten + currentFileSize = WholeBytes(handed)
    /\ pc[Writer] = "sum" => loaded[Writer] = totalBytesWritten
    /\ currentFileHandle = NoFile /\ pc[Writer] \notin {"count", "read bytes", "sum"} =>
         currentFileSize = 0
    /\ Fresh => totalBytesWritten = 0

\* The first state.
LEMMA InitTotals == Init => TakenInOrder /\ TotalsInv
<1> SUFFICES ASSUME Init PROVE TakenInOrder /\ TotalsInv
  OBVIOUS
<1>1. /\ pc[Writer] = "pop" /\ handed = <<>> /\ currentFileSize = 0
      /\ totalBytesWritten = 0
  BY DEF Init, Buffer!Init, Threads, Writer, Port
<1>2. TakenInOrder
  BY <1>1 DEF TakenInOrder, Holding, Inside
<1>3. WholePlaces(handed) = {}
  BY <1>1 DEF WholePlaces, Places
<1>4. WholeBytes(handed) = 0
  BY <1>3, FS_EmptySet DEF WholeBytes
<1> QED
  BY <1>1, <1>2, <1>4 DEF TotalsInv

\* Packets are sequences of bytes with a number.
LEMMA PacketsAreBytes ==
  ASSUME NEW s \in Seq(Packets)
  PROVE  /\ s \in Seq(Seq(Numbers)) /\ Len(s) \in Nat
         /\ \A k \in 1 .. Len(s) : s[k] \in Packets /\ s[k][1] \in Numbers /\ s[k][1] \in Nat
<1>1. Packets \subseteq Seq(Numbers)
  BY PacketBytes
<1>2. \A k \in 1 .. Len(s) : s[k] \in Packets
  OBVIOUS
<1>3. \A k \in 1 .. Len(s) : s[k][1] \in Numbers /\ s[k][1] \in Nat
  BY <1>2, PacketBytes DEF Numbers
<1> QED
  BY <1>1, <1>2, <1>3

\* The order in which packets are taken.
LEMMA NextTaken == TakenInOrder /\ TypesInv /\ [Next]_vars => TakenInOrder'
<1> SUFFICES ASSUME TakenInOrder, TypesInv, [Next]_vars PROVE TakenInOrder'
  OBVIOUS
<1>1. /\ OrderInv /\ PortInv /\ packet \in [Threads -> Seq(Numbers)]
      /\ queue \in Seq(Packets) /\ arrived \in Nat
      /\ \A k \in 1 .. Len(queue) : queue[k] \in Packets /\ queue[k][1] \in Nat
  BY PacketsAreBytes DEF TypesInv, OrderInv, Kinds, Shapes
<1>2. /\ handed \in Seq(Packets) /\ Len(handed) \in Nat
      /\ \A k \in 1 .. Len(handed) : handed[k][1] \in Nat
  BY PacketsAreBytes DEF TakenInOrder
<1>3. ASSUME NEW n \in Sizes, Arrive(n) PROVE TakenInOrder'
  <2> DEFINE p == PacketOf(arrived + 1, n)
  <2>1. arrived' = arrived + 1 /\ UNCHANGED <<pc, packet, handed>>
    BY <1>3 DEF Arrive, Buffer!Put, buffer
  <2>2. p \in Packets /\ p[1] = arrived + 1
    BY <1>1, <1>3, PacketNumber, AcquisitionAssumption DEF Arrive
  <2>3. queue' = queue \/ queue' = Append(queue, p)
    BY <1>3 DEF Arrive, Buffer!Put, buffer
  <2> HIDE DEF p
  <2>4. \A k \in 1 .. Len(queue') : queue'[k] = p \/ (k \in 1 .. Len(queue) /\ queue'[k] = queue[k])
    BY <1>1, <2>2, <2>3
  <2>5. \A j \in 1 .. Len(handed), k \in 1 .. Len(queue') : handed[j][1] < queue'[k][1]
    BY <1>1, <1>2, <2>2, <2>4 DEF TakenInOrder
  <2>6. \A k \in 1 .. Len(handed) : handed[k][1] <= arrived'
    BY <1>1, <1>2, <2>1 DEF TakenInOrder
  <2> QED
    BY <2>1, <2>5, <2>6 DEF TakenInOrder
<1>4. ASSUME NEW t \in Threads, Pop(t) PROVE TakenInOrder'
  <2>1. /\ queue # <<>> /\ queue' = Tail(queue) /\ arrived' = arrived
        /\ handed' = Append(handed, Head(queue))
        /\ packet' = [packet EXCEPT ![t] = Head(queue)]
        /\ pc' = [pc EXCEPT ![t] = "enter"]
    BY <1>4 DEF Pop, Buffer!Take, Goto
  <2>2. /\ Head(queue) = queue[1] /\ Head(queue) \in Packets /\ 1 \in 1 .. Len(queue)
        /\ \A k \in 1 .. Len(queue') :
             k + 1 \in 1 .. Len(queue) /\ queue'[k] = queue[k + 1] /\ 1 < k + 1
    BY <1>1, <2>1
  <2>3. /\ handed' \in Seq(Packets) /\ Len(handed') = Len(handed) + 1
        /\ \A k \in 1 .. Len(handed) : handed'[k] = handed[k]
        /\ handed'[Len(handed) + 1] = queue[1]
        /\ \A k \in 1 .. Len(handed') : k \in 1 .. Len(handed) \/ k = Len(handed) + 1
    BY <1>2, <2>1, <2>2
  <2>4. ASSUME NEW j \in 1 .. Len(handed'), NEW k \in 1 .. Len(handed'), j < k
        PROVE  handed'[j][1] < handed'[k][1]
    <3>1. j \in 1 .. Len(handed)
      BY <1>2, <2>3, <2>4
    <3> QED
      BY <2>2, <2>3, <2>4, <3>1 DEF TakenInOrder
  <2>5. \A k \in 1 .. Len(handed') : handed'[k][1] <= arrived'
    BY <1>1, <2>1, <2>2, <2>3 DEF TakenInOrder, OrderInv, Ordered
  <2>6. ASSUME NEW j \in 1 .. Len(handed'), NEW k \in 1 .. Len(queue')
        PROVE  handed'[j][1] < queue'[k][1]
    <3>1. k + 1 \in 1 .. Len(queue) /\ queue'[k] = queue[k + 1] /\ 1 < k + 1
      BY <2>2
    <3>2. CASE j \in 1 .. Len(handed)
      BY <2>3, <3>1, <3>2 DEF TakenInOrder
    <3>3. CASE j = Len(handed) + 1
      <4>1. queue[1][1] < queue[k + 1][1]
        BY <1>1, <2>2, <3>1 DEF OrderInv, Ordered
      <4> QED
        BY <2>3, <3>1, <3>3, <4>1
    <3> QED
      BY <2>3, <3>2, <3>3
  <2>7. pc'[Writer] \in Holding => \E k \in 1 .. Len(handed') : packet'[Writer] = handed'[k]
    <3>1. CASE t = Writer
      <4>1. packet'[Writer] = queue[1] /\ Len(handed) + 1 \in 1 .. Len(handed')
        BY <1>1, <1>2, <2>1, <2>2, <2>3, <3>1 DEF Threads
      <4> QED
        BY <2>3, <4>1
    <3>2. CASE t = Port
      <4>1. packet'[Writer] = packet[Writer] /\ pc'[Writer] = pc[Writer]
        BY <1>1, <2>1, <3>2, PortMoves DEF Threads, Writer, Port
      <4>2. \A k \in 1 .. Len(handed) : k \in 1 .. Len(handed')
        BY <1>2, <2>3
      <4> QED
        BY <2>3, <4>1, <4>2, Zenon DEF TakenInOrder
    <3> QED
      BY <3>1, <3>2 DEF Threads
  <2> QED
    BY <2>3, <2>4, <2>5, <2>6, <2>7 DEF TakenInOrder
<1>5. CASE PortStep \/ (\E t \in Threads : WriteDataToFile(t)) \/ UNCHANGED vars
  BY <1>1, <1>5, HeldKept DEF TakenInOrder
<1> QED
  BY <1>3, <1>4, <1>5, StepCases

\* Steps that count and write nothing.
LEMMA QuietTotals ==
  ASSUME TotalsInv, UNCHANGED <<totalBytesWritten, currentFileSize, journal, handed>>,
         starts' <= 1 => starts <= 1,
         Fresh' => Fresh,
         pc'[Writer] = "sum" =>
           loaded'[Writer] = totalBytesWritten
             \/ (pc[Writer] = "sum" /\ loaded'[Writer] = loaded[Writer]),
         currentFileHandle' = NoFile /\ pc'[Writer] \notin {"count", "read bytes", "sum"} =>
           currentFileHandle = NoFile /\ pc[Writer] \notin {"count", "read bytes", "sum"}
  PROVE  TotalsInv'
<1>1. WholeBytes(handed)' = WholeBytes(handed)
  BY DEF WholeBytes, WholePlaces
<1> QED
  BY <1>1 DEF TotalsInv

\* A packet that is taken is not written yet.
LEMMA PopWhole ==
  ASSUME TakenInOrder, Files, NEW t \in Threads, Pop(t)
  PROVE  WholeBytes(handed)' = WholeBytes(handed)
<1>1. PortInv /\ OrderInv /\ queue \in Seq(Packets) /\ queue # <<>>
  BY DEF Files, TypesInv, OrderInv, Shapes, Pop, Buffer!Take
<1>2. PICK p \in Packets : p = Head(queue) /\ p = queue[1]
  BY <1>1
<1>3. p \in Seq(Numbers) /\ handed \in Seq(Seq(Numbers)) /\ 1 \in 1 .. Len(queue)
  BY <1>1, <1>2, PacketBytes, PacketsAreBytes DEF TakenInOrder
<1>4. p[1] \notin ToSet(journal)
  <2>1. p[1] \in Nat
    BY PacketFacts
  <2>2. \A i \in ToSet(journal) : Behind(i)
    BY WrittenBehind DEF Files
  <2> QED
    BY <1>2, <1>3, <2>1, <2>2 DEF Behind
<1>5. PlacesIn(Append(handed, p), ToSet(journal)) = PlacesIn(handed, ToSet(journal))
  BY <1>3, <1>4, OtherAppended
<1>6. handed' = Append(handed, p) /\ journal' = journal
  BY <1>2 DEF Pop, Buffer!Take, stored
<1> QED
  BY <1>5, <1>6 DEF WholeBytes, WholePlaces, PlacesIn

\* The bytes that are written join those of the packets that were taken.
LEMMA WriteWhole ==
  ASSUME TakenInOrder, SizeInv, Files, Write(Writer)
  PROVE  /\ WholeBytes(handed) \in Nat
         /\ \E n \in Nat : /\ currentFileSize' = currentFileSize + n
                           /\ WholeBytes(handed)' = WholeBytes(handed) + n
<1> DEFINE p == packet[Writer]
<1>1. pc[Writer] \in Holding /\ handed' = handed
  BY DEF Write, Holding, Inside, buffer
<1>2. PICK k \in 1 .. Len(handed) : handed[k] = p
  BY <1>1 DEF TakenInOrder
<1>3. /\ handed \in Seq(Seq(Numbers)) /\ Len(handed) \in Nat
      /\ \A j \in 1 .. Len(handed) : handed[j][1] \in Nat
  BY PacketsAreBytes DEF TakenInOrder
<1>4. ASSUME NEW j \in 1 .. Len(handed), j # k PROVE handed[j][1] # handed[k][1]
  <2>1. j < k \/ k < j
    BY <1>3, <1>4
  <2>2. \A i, l \in 1 .. Len(handed) : i < l => handed[i][1] < handed[l][1]
    BY Zenon DEF TakenInOrder
  <2>3. handed[j][1] < handed[k][1] \/ handed[k][1] < handed[j][1]
    BY <2>1, <2>2, Zenon
  <2>4. handed[j][1] \in Nat /\ handed[k][1] \in Nat
    BY <1>3, Zenon
  <2> QED
    BY <2>3, <2>4
<1>5. p[1] \notin ToSet(journal) /\ Len(p) \in Nat
  BY PacketWritten
<1>6. /\ Cardinality(PlacesIn(handed, ToSet(journal))) \in Nat
      /\ Cardinality(PlacesIn(handed, ToSet(journal) \cup {p[1]}))
           = Cardinality(PlacesIn(handed, ToSet(journal))) + Len(p)
  BY <1>2, <1>3, <1>4, <1>5, NumberJoins
<1>7. WholeBytes(handed) = Cardinality(PlacesIn(handed, ToSet(journal)))
  BY WholeIsIn
<1>8. WholeBytes(handed)' = Cardinality(PlacesIn(handed, ToSet(journal')))
  BY <1>1 DEF WholeBytes, WholePlaces, PlacesIn
<1>9. CASE /\ currentFileSize' = currentFileSize + Len(p)
           /\ ToSet(journal') = ToSet(journal) \cup {p[1]}
  BY <1>5, <1>6, <1>7, <1>8, <1>9
<1>10. CASE UNCHANGED <<currentFileSize, journal>>
  <2>1. currentFileSize \in Nat /\ 0 \in Nat
    BY DEF Files, TypesInv, Kinds
  <2> QED
    BY <1>6, <1>7, <1>8, <1>10, <2>1
<1> QED
  BY <1>9, <1>10, WriteOutcomes

\* The totals when a packet is taken.
LEMMA PopTotals ==
  ASSUME TotalsInv, TakenInOrder, Files, NEW t \in Threads, Pop(t)
  PROVE  TotalsInv'
<1>1. PortInv
  BY DEF Files, TypesInv, OrderInv
<1>2. /\ UNCHANGED <<totalBytesWritten, currentFileSize, currentFileHandle, starts, loaded>>
      /\ pc[t] \in {"pop", "flush"} /\ pc' = [pc EXCEPT ![t] = "enter"]
  BY DEF Pop, Goto, totals, file
<1>3. /\ Fresh' => Fresh
      /\ pc'[Writer] = "sum" => pc[Writer] = "sum"
      /\ pc'[Writer] \notin {"count", "read bytes", "sum"} =>
           pc[Writer] \notin {"count", "read bytes", "sum"}
  <2>1. CASE t = Writer
    BY <1>1, <1>2, <2>1, WriterMoves DEF Fresh
  <2>2. CASE t = Port
    BY <1>1, <1>2, <2>2, PortMoves DEF Fresh, Starting
  <2> QED
    BY <2>1, <2>2 DEF Threads
<1> QED
  BY <1>2, <1>3, PopWhole DEF TotalsInv

\* And when it is written.
LEMMA WriteTotals ==
  ASSUME TotalsInv, TakenInOrder, SizeInv, Files, Write(Writer)
  PROVE  TotalsInv'
<1>1. /\ PortInv /\ currentFileHandle # NoFile /\ pc[Writer] \in Inside
      /\ UNCHANGED <<totalBytesWritten, currentFileHandle, starts>>
      /\ totalBytesWritten \in Nat /\ currentFileSize \in Nat
  BY DEF Files, TypesInv, OrderInv, Kinds, SizeInv, Write, Inside, totals
<1>2. pc'[Writer] = "pop" /\ pc'[Port] = pc[Port]
  BY <1>1, WriterMoves DEF Write, Return, Goto
<1>3. ~Fresh'
  BY <1>1, <1>2, NotFresh DEF Files
<1>4. PICK n \in Nat : /\ currentFileSize' = currentFileSize + n
                       /\ WholeBytes(handed)' = WholeBytes(handed) + n
  BY WriteWhole
<1>5. starts <= 1 => totalBytesWritten' + currentFileSize' = WholeBytes(handed)'
  <2>1. WholeBytes(handed) \in Nat
    BY WriteWhole
  <2>2. starts <= 1 => totalBytesWritten + currentFileSize = WholeBytes(handed)
    BY DEF TotalsInv
  <2> QED
    BY <1>1, <1>4, <2>1, <2>2
<1> QED
  BY <1>1, <1>2, <1>3, <1>5 DEF TotalsInv

\* The steps of a close, and an open, by the write thread.
LEMMA CloseTotals ==
  ASSUME TotalsInv, Files,
         \/ Measure(Writer) \/ Close(Writer) \/ CountFile(Writer) \/ CountBytes(Writer)
         \/ NextSegment(Writer) \/ Open(Writer) \/ Reads(Writer)
  PROVE  TotalsInv'
<1>1. /\ PortInv /\ Writer \in Threads /\ loaded \in [Threads -> Nat]
      /\ totalBytesWritten \in Nat /\ currentFileSize \in Nat
  BY DEF Files, TypesInv, OrderInv, Kinds, Threads
<1>2. UNCHANGED <<handed, journal, starts>> /\ pc[Writer] \in Inside
  BY ReadsLoad DEF Measure, Close, CountFile, CountBytes, NextSegment, Open, buffer, stored,
                   Inside
<1>3. pc'[Port] = pc[Port]
  BY <1>1, WriterMoves, ReadsLoad
     DEF Measure, Close, CountFile, CountBytes, NextSegment, Open, Return, Goto
<1>4. ~Fresh'
  BY <1>2, <1>3, NotFresh DEF Files
<1>5. CASE Measure(Writer)
  <2>1. /\ UNCHANGED <<totalBytesWritten, currentFileSize, currentFileHandle, loaded>>
        /\ pc[Writer] = "measure" /\ pc'[Writer] \in {"name", "close", "write"}
    BY <1>1, <1>5, WriterMoves DEF Measure, Goto, totals, file
  <2> QED
    BY <1>2, <1>4, <2>1, QuietTotals
<1>6. CASE Close(Writer)
  <2>1. pc'[Writer] = "count" /\ UNCHANGED <<totalBytesWritten, currentFileSize>>
    BY <1>1, <1>6, WriterMoves DEF Close, Goto, totals
  <2> QED
    BY <1>2, <1>4, <2>1, QuietTotals
<1>7. CASE CountFile(Writer)
  <2>1. /\ pc[Writer] = "count" /\ pc'[Writer] = "read bytes"
        /\ UNCHANGED <<totalBytesWritten, currentFileSize>>
    BY <1>1, <1>7, WriterMoves DEF CountFile, Goto, file
  <2> QED
    BY <1>2, <1>4, <2>1, QuietTotals
<1>8. CASE CountBytes(Writer)
  <2>1. /\ pc[Writer] = "sum" /\ pc'[Writer] = "read segment"
        /\ totalBytesWritten' = loaded[Writer] + currentFileSize /\ currentFileSize' = 0
    BY <1>1, <1>8, WriterMoves DEF CountBytes, Goto
  <2>2. starts <= 1 => totalBytesWritten' + currentFileSize' = totalBytesWritten + currentFileSize
    <3>1. starts <= 1 => totalBytesWritten' = totalBytesWritten + currentFileSize
      BY <2>1, Zenon DEF TotalsInv
    <3>2. currentFileSize' = 0
      BY <2>1
    <3> QED
      BY <1>1, <3>1, <3>2
  <2>3. WholeBytes(handed)' = WholeBytes(handed)
    BY <1>2 DEF WholeBytes, WholePlaces
  <2> QED
    BY <1>2, <1>4, <2>1, <2>2, <2>3 DEF TotalsInv
<1>9. CASE NextSegment(Writer)
  <2>1. /\ pc[Writer] = "segment" /\ pc'[Writer] = "name"
        /\ UNCHANGED <<totalBytesWritten, currentFileSize, currentFileHandle>>
    BY <1>1, <1>9, WriterMoves DEF NextSegment, Goto, totals, file
  <2> QED
    BY <1>2, <1>4, <2>1, QuietTotals
<1>10. CASE Open(Writer)
  <2>1. /\ pc[Writer] = "open" /\ pc'[Writer] \in {"pop", "write"}
        /\ currentFileHandle = NoFile /\ totalBytesWritten' = totalBytesWritten
        /\ currentFileSize' = currentFileSize \/ currentFileSize' = 0
    <3>1. pc'[Writer] \in {"pop", "write"}
      BY <1>1, <1>10, WriterMoves DEF Open, Return, Goto
    <3> QED
      BY <1>10, <3>1 DEF Open, Files, FilesInv, Handles, totals, file
  <2>2. starts <= 1 => currentFileSize' = currentFileSize /\ currentFileSize = 0
    BY <2>1 DEF TotalsInv
  <2>3. WholeBytes(handed)' = WholeBytes(handed)
    BY <1>2 DEF WholeBytes, WholePlaces
  <2> QED
    BY <1>2, <1>4, <2>1, <2>2, <2>3 DEF TotalsInv
<1>11. CASE Reads(Writer)
  <2>1. UNCHANGED <<totalBytesWritten, currentFileSize, currentFileHandle>>
    BY <1>11, ReadsLoad DEF totals, file
  <2>2. \/ /\ pc[Writer] = "read bytes" /\ pc'[Writer] = "sum"
           /\ loaded'[Writer] = totalBytesWritten
        \/ pc[Writer] = "read segment" /\ pc'[Writer] = "segment"
        \/ pc[Writer] = "name" /\ pc'[Writer] = "open"
    BY <1>1, <1>11, ReadsLoad, WriterMoves
  <2> QED
    BY <1>2, <1>4, <2>1, <2>2, QuietTotals
<1> QED
  BY <1>5, <1>6, <1>7, <1>8, <1>9, <1>10, <1>11

\* The port thread: what the first start resets is zero.
LEMMA PortTotals ==
  ASSUME TotalsInv, Files, PortStep
  PROVE  TotalsInv'
<1>1. /\ PortInv /\ starts \in Nat /\ (pc[Port] \in Starting => starts # 0)
  BY AcquisitionAssumption DEF Files, FilesInv, TypesInv, OrderInv, Kinds
<1>2. UNCHANGED <<currentFileHandle, currentFileSize, handed, journal, loaded>>
  BY DEF PortStep, Start, ResetBytes, ResetFiles, Enable, Stop, Flushed, ClampFsize, SetFsize,
         SetRunno, file, stored, buffer
<1>3. pc'[Writer] = pc[Writer]
  BY <1>1, PortMoves DEF PortStep, Start, ResetBytes, ResetFiles, Enable, Stop, Flushed, ClampFsize,
                         SetFsize, SetRunno, Goto
<1>4. starts' <= 1 => starts <= 1
  <2>1. starts' = starts \/ starts' = starts + 1
    BY DEF PortStep, Start, ResetBytes, ResetFiles, Enable, Stop, Flushed, ClampFsize, SetFsize,
           SetRunno
  <2>2. starts \in Nat
    BY <1>1
  <2> QED
    BY <2>1, <2>2
<1> USE DEF Starting
<1>5. Fresh' => Fresh
  <2>1. CASE Start
    <3>1. starts' = starts + 1 /\ starts \in Nat
      BY <1>1, <2>1 DEF Start
    <3>2. starts' \in {0, 1} => starts = 0
      BY <3>1
    <3> QED
      BY <3>2 DEF Fresh
  <2>2. CASE ResetBytes \/ ResetFiles
    BY <1>1, <2>2, PortMoves DEF ResetBytes, ResetFiles, Goto, Fresh
  <2>3. CASE ~Start /\ ~ResetBytes /\ ~ResetFiles
    <3>1. starts' = starts /\ (pc'[Port] \in {"idle", "flush", "clamp"})
      BY <1>1, <2>3, PortMoves DEF PortStep, Enable, Stop, Flushed, ClampFsize, SetFsize,
                                   SetRunno, Goto
    <3> QED
      BY <3>1 DEF Fresh
  <2> QED
    BY <2>1, <2>2, <2>3
<1>6. starts' <= 1 => totalBytesWritten' = totalBytesWritten
  <2>1. CASE ResetBytes
    <3>1. pc[Port] = "reset" /\ starts' = starts /\ totalBytesWritten' = 0
      BY <2>1 DEF ResetBytes
    <3>2. starts <= 1 => Fresh
      BY <1>1, <3>1 DEF Fresh
    <3> QED
      BY <3>1, <3>2 DEF TotalsInv
  <2>2. CASE ~ResetBytes
    BY <2>2 DEF PortStep, Start, ResetFiles, Enable, Stop, Flushed, ClampFsize, SetFsize,
                SetRunno, totals
  <2> QED
    BY <2>1, <2>2
<1>7. WholeBytes(handed)' = WholeBytes(handed)
  BY <1>2 DEF WholeBytes, WholePlaces
<1> QED
  BY <1>2, <1>3, <1>4, <1>5, <1>6, <1>7 DEF TotalsInv

\* Every step.
LEMMA NextTotals ==
  TotalsInv /\ TakenInOrder /\ SizeInv /\ Files /\ [Next]_vars => TotalsInv'
<1> SUFFICES ASSUME TotalsInv, TakenInOrder, SizeInv, Files, [Next]_vars PROVE TotalsInv'
  OBVIOUS
<1>1. PortInv
  BY DEF Files, TypesInv, OrderInv
<1>2. ASSUME NEW n \in Sizes, Arrive(n) PROVE TotalsInv'
  BY <1>2, QuietTotals DEF Arrive, Buffer!Put, buffer, totals, file, stored, Fresh
<1>3. ASSUME NEW t \in Threads, Enter(t) PROVE TotalsInv'
  <2>1. /\ UNCHANGED <<totalBytesWritten, currentFileSize, currentFileHandle, handed,
                       journal, starts, loaded>>
        /\ pc[t] = "enter"
    BY <1>3 DEF Enter, buffer, totals, file, stored
  <2>2. \E l \in {"measure", "pop", "flush"} : pc' = [pc EXCEPT ![t] = l]
    BY <1>3 DEF Enter, Return, Goto
  <2>3. /\ Fresh' => Fresh
        /\ pc'[Writer] = "sum" => pc[Writer] = "sum"
        /\ pc'[Writer] \notin {"count", "read bytes", "sum"} =>
             pc[Writer] \notin {"count", "read bytes", "sum"}
    <3>1. CASE t = Writer
      BY <1>1, <2>1, <2>2, <3>1, WriterMoves DEF Fresh
    <3>2. CASE t = Port
      BY <1>1, <2>1, <2>2, <3>2, PortMoves DEF Fresh, Starting
    <3> QED
      BY <3>1, <3>2 DEF Threads
  <2> QED
    BY <2>1, <2>3, QuietTotals
<1>4. ASSUME NEW t \in Threads, WriteDataToFile(t) PROVE TotalsInv'
  <2>1. CASE Enter(t)
    BY <1>3, <2>1
  <2>2. CASE ~Enter(t)
    <3>1. pc[t] \in Inside
      BY <1>4, <2>2 DEF WriteDataToFile, Measure, Close, CountFile, CountBytes,
                        NextSegment, Open, Write, ReadBytes, ReadSegment, ReadNumber,
                        Load, Inside
    <3>2. t = Writer
      BY <1>1, <3>1, InsideIsWriter
    <3> QED
      BY <1>4, <2>2, <3>2, CloseTotals, WriteTotals
         DEF WriteDataToFile, Reads
  <2> QED
    BY <2>1, <2>2
<1>5. CASE UNCHANGED vars
  BY <1>5, QuietTotals DEF vars, buffer, totals, file, stored, Fresh
<1> QED
  BY <1>2, <1>4, <1>5, PopTotals, PortTotals, StepCases

\* In every acquisition, whatever step a restart falls on, the totals are at most what
\* was written, and so will they be when what was read before the restart is added.
AtMostWritten ==
  /\ totalBytesWritten + currentFileSize <= WholeBytes(handed)
  /\ pc[Writer] = "sum" => loaded[Writer] + currentFileSize <= WholeBytes(handed)
  /\ totalFilesWritten + (IF currentFileHandle # NoFile \/ pc[Writer] = "count" THEN 1 ELSE 0)
       <= Len(opened)
  /\ pc[Writer] = "count" => loaded[Writer] + 1 <= Len(opened)
  /\ WholeBytes(handed) \in Nat

\* The first state.
LEMMA InitAtMost == Init => AtMostWritten
<1> SUFFICES ASSUME Init PROVE AtMostWritten
  OBVIOUS
<1>1. /\ pc[Writer] = "pop" /\ handed = <<>> /\ currentFileSize = 0 /\ totalBytesWritten = 0
      /\ totalFilesWritten = 0 /\ Len(opened) = 0 /\ currentFileHandle = NoFile
  BY DEF Init, Buffer!Init, Threads, Writer, Port
<1>2. WholePlaces(handed) = {}
  BY <1>1 DEF WholePlaces, Places
<1>3. WholeBytes(handed) = 0
  BY <1>2, FS_EmptySet DEF WholeBytes
<1> QED
  BY <1>1, <1>3 DEF AtMostWritten

\* What is counted is numbers.
LEMMA CountsAreNumbers ==
  ASSUME Files
  PROVE  /\ totalBytesWritten \in Nat /\ totalFilesWritten \in Nat /\ currentFileSize \in Nat
         /\ Len(opened) \in Nat
<1>1. opened \in Seq(Names)
  BY DEF Files, TypesInv, Kinds
<1> QED
  BY <1>1, LenProperties DEF Files, TypesInv, Kinds

\* Steps that count nothing.
LEMMA QuietAtMost ==
  ASSUME AtMostWritten, Files,
         UNCHANGED <<totalBytesWritten, totalFilesWritten, currentFileSize, currentFileHandle,
                     opened>>,
         WholeBytes(handed)' = WholeBytes(handed),
         pc'[Writer] = "count" => pc[Writer] = "count" /\ loaded'[Writer] = loaded[Writer],
         pc'[Writer] = "sum" =>
           loaded'[Writer] = totalBytesWritten
             \/ (pc[Writer] = "sum" /\ loaded'[Writer] = loaded[Writer])
  PROVE  AtMostWritten'
<1> DEFINE open == IF currentFileHandle # NoFile \/ pc[Writer] = "count" THEN 1 ELSE 0
<1>1. open \in 0 .. 1 /\ open' \in 0 .. 1 /\ open' <= open
  OBVIOUS
<1>2. totalFilesWritten + open <= Len(opened)
  BY DEF AtMostWritten
<1>3. totalFilesWritten \in Nat /\ Len(opened) \in Nat
  BY CountsAreNumbers
<1>4. totalFilesWritten' + open' <= Len(opened')
  <2> HIDE DEF open
  <2> QED
    BY <1>1, <1>2, <1>3
<1> QED
  BY <1>4 DEF AtMostWritten

\* The steps of a close, and an open: a total is written only after it was read.
LEMMA CloseAtMost ==
  ASSUME AtMostWritten, Files,
         \/ Measure(Writer) \/ Close(Writer) \/ CountFile(Writer) \/ CountBytes(Writer)
         \/ NextSegment(Writer) \/ Open(Writer) \/ Reads(Writer)
  PROVE  AtMostWritten'
<1>1. /\ PortInv /\ Writer \in Threads /\ loaded \in [Threads -> Nat]
      /\ totalBytesWritten \in Nat /\ currentFileSize \in Nat /\ totalFilesWritten \in Nat
      /\ opened \in Seq(Names) /\ Len(opened) \in Nat
  <2>1. opened \in Seq(Names)
    BY DEF Files, TypesInv, Kinds
  <2> QED
    BY <2>1, LenProperties DEF Files, TypesInv, OrderInv, Kinds, Threads
<1>2. UNCHANGED <<handed, journal>>
  BY ReadsLoad DEF Measure, Close, CountFile, CountBytes, NextSegment, Open, buffer, stored
<1>3. WholeBytes(handed)' = WholeBytes(handed)
  BY <1>2 DEF WholeBytes, WholePlaces
<1>4. CASE Measure(Writer)
  <2>1. /\ UNCHANGED <<totalBytesWritten, totalFilesWritten, currentFileSize,
                       currentFileHandle, opened>>
        /\ pc'[Writer] \in {"name", "close", "write"}
    BY <1>1, <1>4, WriterMoves DEF Measure, Goto, totals, file, stored
  <2> QED
    BY <1>3, <2>1, QuietAtMost
<1>5. CASE Close(Writer)
  <2>1. /\ pc[Writer] = "close" /\ pc'[Writer] = "count" /\ currentFileHandle' = NoFile
        /\ UNCHANGED <<totalBytesWritten, totalFilesWritten, currentFileSize, opened>>
        /\ loaded'[Writer] = totalFilesWritten
    BY <1>1, <1>5, WriterMoves DEF Close, Goto, totals, stored
  <2>2. currentFileHandle # NoFile
    BY <2>1 DEF Files, FilesInv, Handles
  <2> QED
    BY <1>1, <1>3, <2>1, <2>2 DEF AtMostWritten
<1>6. CASE CountFile(Writer)
  <2>1. /\ pc[Writer] = "count" /\ pc'[Writer] = "read bytes"
        /\ totalFilesWritten' = loaded[Writer] + 1
        /\ UNCHANGED <<totalBytesWritten, currentFileSize, currentFileHandle, opened>>
    BY <1>1, <1>6, WriterMoves DEF CountFile, Goto, file, stored
  <2>2. currentFileHandle = NoFile
    BY <2>1 DEF Files, FilesInv, Handles, BetweenFiles
  <2>3. PICK n \in Nat : n = loaded[Writer]
    BY <1>1
  <2>4. n + 1 <= Len(opened) /\ totalFilesWritten' = n + 1
    BY <2>1, <2>3, Zenon DEF AtMostWritten
  <2>5. /\ totalBytesWritten + currentFileSize <= WholeBytes(handed)
        /\ WholeBytes(handed) \in Nat
    BY DEF AtMostWritten
  <2>6. totalFilesWritten' + 0 <= Len(opened')
    <3>1. opened' = opened
      BY <2>1
    <3> QED
      BY <1>1, <2>4, <3>1
  <2> QED
    BY <1>3, <2>1, <2>2, <2>5, <2>6 DEF AtMostWritten
<1>7. CASE CountBytes(Writer)
  <2>1. /\ pc[Writer] = "sum" /\ pc'[Writer] = "read segment"
        /\ totalBytesWritten' = loaded[Writer] + currentFileSize /\ currentFileSize' = 0
        /\ UNCHANGED <<totalFilesWritten, currentFileHandle, opened>>
    BY <1>1, <1>7, WriterMoves DEF CountBytes, Goto, stored
  <2>2. PICK n \in Nat : n = loaded[Writer]
    BY <1>1
  <2>3. n + currentFileSize <= WholeBytes(handed) /\ totalBytesWritten' = n + currentFileSize
    BY <2>1, <2>2, Zenon DEF AtMostWritten
  <2>4. totalBytesWritten' + currentFileSize' <= WholeBytes(handed)
    <3>1. currentFileSize' = 0
      BY <2>1
    <3>2. WholeBytes(handed) \in Nat
      BY DEF AtMostWritten
    <3> QED
      BY <1>1, <2>3, <3>1, <3>2
  <2>5. /\ totalFilesWritten + (IF currentFileHandle # NoFile THEN 1 ELSE 0) <= Len(opened)
        /\ WholeBytes(handed) \in Nat
    BY <2>1 DEF AtMostWritten
  <2> QED
    BY <1>3, <2>1, <2>4, <2>5 DEF AtMostWritten
<1>8. CASE NextSegment(Writer)
  <2>1. /\ UNCHANGED <<totalBytesWritten, totalFilesWritten, currentFileSize,
                       currentFileHandle, opened>>
        /\ pc'[Writer] = "name"
    BY <1>1, <1>8, WriterMoves DEF NextSegment, Goto, totals, file, stored
  <2> QED
    BY <1>3, <2>1, QuietAtMost
<1>9. CASE Open(Writer)
  <2>1. /\ pc[Writer] = "open" /\ pc'[Writer] \in {"pop", "write"}
        /\ UNCHANGED <<totalBytesWritten, totalFilesWritten>>
    BY <1>1, <1>9, WriterMoves DEF Open, Return, Goto, totals
  <2>2. currentFileHandle = NoFile
    BY <2>1 DEF Files, FilesInv, Handles
  <2>3. CASE UNCHANGED <<file, opened>>
    BY <1>3, <2>1, <2>3, QuietAtMost DEF file
  <2>4. ASSUME NEW name \in Filenames(loaded[Writer]), currentFileSize' = 0,
               opened' = Append(opened, name)
        PROVE  AtMostWritten'
    <3>1. Len(opened') = Len(opened) + 1
      BY <1>1, <2>4
    <3> QED
      BY <1>1, <1>3, <2>1, <2>2, <2>4, <3>1 DEF AtMostWritten
  <2> QED
    BY <1>9, <2>3, <2>4, Zenon DEF Open
<1>10. CASE Reads(Writer)
  <2>1. UNCHANGED <<totalBytesWritten, totalFilesWritten, currentFileSize,
                    currentFileHandle, opened>>
    BY <1>10, ReadsLoad DEF totals, file, stored
  <2>2. pc'[Writer] # "count" /\ (pc'[Writer] = "sum" => loaded'[Writer] = totalBytesWritten)
    BY <1>1, <1>10, ReadsLoad, WriterMoves
  <2> QED
    BY <1>3, <2>1, <2>2, QuietAtMost
<1> QED
  BY <1>4, <1>5, <1>6, <1>7, <1>8, <1>9, <1>10

\* A restart only lowers the totals.
LEMMA PortAtMost ==
  ASSUME AtMostWritten, Files, PortStep
  PROVE  AtMostWritten'
<1>1. /\ PortInv /\ totalBytesWritten \in Nat /\ totalFilesWritten \in Nat
      /\ currentFileSize \in Nat /\ Len(opened) \in Nat
  BY CountsAreNumbers DEF Files, TypesInv, OrderInv
<1>2. UNCHANGED <<currentFileHandle, currentFileSize, handed, journal, loaded, opened>>
  BY DEF PortStep, Start, ResetBytes, ResetFiles, Enable, Stop, Flushed, ClampFsize, SetFsize,
         SetRunno, file, stored, buffer
<1>3. pc'[Writer] = pc[Writer]
  BY <1>1, PortMoves DEF PortStep, Start, ResetBytes, ResetFiles, Enable, Stop, Flushed, ClampFsize,
                         SetFsize, SetRunno, Goto
<1>4. WholeBytes(handed)' = WholeBytes(handed)
  BY <1>2 DEF WholeBytes, WholePlaces
<1>5. CASE ResetBytes \/ ResetFiles
  <2>1. /\ totalBytesWritten' \in {totalBytesWritten, 0}
        /\ totalFilesWritten' \in {totalFilesWritten, 0}
    BY <1>5 DEF ResetBytes, ResetFiles
  <2> QED
    BY <1>1, <1>2, <1>3, <1>4, <2>1 DEF AtMostWritten
<1>6. CASE ~ResetBytes /\ ~ResetFiles
  <2>1. UNCHANGED <<totalBytesWritten, totalFilesWritten>>
    BY <1>6 DEF PortStep, Start, Enable, Stop, Flushed, ClampFsize, SetFsize, SetRunno,
                totals
  <2> QED
    BY <1>2, <1>3, <1>4, <2>1, QuietAtMost
<1> QED
  BY <1>5, <1>6

\* Every step.
LEMMA NextAtMost ==
  AtMostWritten /\ TakenInOrder /\ SizeInv /\ Files /\ [Next]_vars => AtMostWritten'
<1> SUFFICES ASSUME AtMostWritten, TakenInOrder, SizeInv, Files, [Next]_vars
             PROVE  AtMostWritten'
  OBVIOUS
<1>1. PortInv
  BY DEF Files, TypesInv, OrderInv
<1>2. ASSUME NEW n \in Sizes, Arrive(n) PROVE AtMostWritten'
  <2>1. WholeBytes(handed)' = WholeBytes(handed)
    BY <1>2 DEF Arrive, Buffer!Put, buffer, stored, WholeBytes, WholePlaces
  <2> QED
    BY <1>2, <2>1, QuietAtMost DEF Arrive, totals, file, stored
<1>3. ASSUME NEW t \in Threads, Pop(t) \/ Enter(t) PROVE AtMostWritten'
  <2>1. /\ UNCHANGED <<totalBytesWritten, totalFilesWritten, currentFileSize,
                       currentFileHandle, opened, loaded>>
        /\ \E l \in {"enter", "measure", "pop", "flush"} : pc' = [pc EXCEPT ![t] = l]
    BY <1>3 DEF Pop, Enter, Return, Goto, totals, file, stored
  <2>2. WholeBytes(handed)' = WholeBytes(handed)
    <3>1. CASE Enter(t)
      BY <3>1 DEF Enter, buffer, stored, WholeBytes, WholePlaces
    <3> QED
      BY <1>3, <3>1, PopWhole
  <2>3. \A l \in {"count", "sum"} : pc'[Writer] = l => pc[Writer] = l
    <3>1. CASE t = Writer
      BY <1>1, <2>1, <3>1, WriterMoves
    <3>2. CASE t = Port
      BY <1>1, <2>1, <3>2, PortMoves
    <3> QED
      BY <3>1, <3>2 DEF Threads
  <2> QED
    BY <2>1, <2>2, <2>3, QuietAtMost
<1>4. CASE Write(Writer)
  <2>1. /\ pc'[Writer] = "pop" /\ currentFileSize \in Nat /\ totalBytesWritten \in Nat
        /\ pc[Writer] = "write"
        /\ UNCHANGED <<totalBytesWritten, totalFilesWritten, currentFileHandle, opened>>
    BY <1>1, <1>4, WriterMoves DEF Write, Return, Goto, totals, Files, TypesInv, Kinds
  <2>2. PICK n \in Nat : /\ currentFileSize' = currentFileSize + n
                         /\ WholeBytes(handed)' = WholeBytes(handed) + n
    BY <1>4, WriteWhole
  <2> QED
    BY <2>1, <2>2 DEF AtMostWritten
<1>5. ASSUME NEW t \in Threads, WriteDataToFile(t) PROVE AtMostWritten'
  <2>1. CASE ~Enter(t)
    <3>1. pc[t] \in Inside
      BY <1>5, <2>1 DEF WriteDataToFile, Measure, Close, CountFile, CountBytes,
                        NextSegment, Open, Write, ReadBytes, ReadSegment, ReadNumber,
                        Load, Inside
    <3>2. t = Writer
      BY <1>1, <3>1, InsideIsWriter
    <3> QED
      BY <1>4, <1>5, <2>1, <3>2, CloseAtMost DEF WriteDataToFile, Reads
  <2> QED
    BY <1>3, <2>1
<1>6. CASE UNCHANGED vars
  <2>1. WholeBytes(handed)' = WholeBytes(handed)
    BY <1>6 DEF vars, buffer, stored, WholeBytes, WholePlaces
  <2> QED
    BY <1>6, <2>1, QuietAtMost DEF vars, totals, file, stored
<1> QED
  BY <1>2, <1>3, <1>5, <1>6, PortAtMost, StepCases

\* In the first acquisition the bytes of the closed files and the size of the open one
\* are those of the packets taken and written whole, and the files closed and open
\* those opened, at each step of the close, whatever fails; in later ones they are never
\* more (closeCurrentDataFile, writeDataToFile, startDataAcquisition).
THEOREM AllAccounted == Spec => []Accounted
<1>1. TotalsInv /\ AtMostWritten /\ Files => Accounted
  BY DEF TotalsInv, AtMostWritten, Accounted, Files, FilesInv, FilesCounted
<1>2. Spec => []Files
  BY FilesAlways DEF Files
<1>3. Init => SizeInv /\ TakenInOrder /\ TotalsInv /\ AtMostWritten
  BY InitSize, InitTotals, InitAtMost
<1>4. SizeInv /\ TakenInOrder /\ TotalsInv /\ AtMostWritten /\ Files /\ [Next]_vars
        => (SizeInv /\ TakenInOrder /\ TotalsInv /\ AtMostWritten)'
  BY NextSize, NextTaken, NextTotals, NextAtMost DEF Files
<1> QED
  BY <1>1, <1>2, <1>3, <1>4, PTL DEF Spec

-----------------------------------------------------------------------------
(* The bound on a file.                                                    *)

\* Writes are not cut short, and clients leave FSIZE alone.
Steady == "short" \notin Outcomes /\ FsizeValues = {}

\* The size is what the open file holds, and a packet about to be written fits or is
\* the first.
BoundInv ==
  /\ FSIZE = InitialFsize /\ pc[Port] # "clamp"
  /\ currentFileHandle # NoFile =>
       /\ currentFileHandle \in DOMAIN disk
       /\ currentFileSize = Bytes(disk[currentFileHandle])
  /\ pc[Writer] = "write" =>
       /\ currentFileHandle # NoFile
       /\ disk[currentFileHandle] # <<>> =>
            currentFileSize + Len(packet[Writer]) <= InitialFsize
  /\ SegmentBound

\* The first state.
LEMMA InitBound == Init => BoundInv
<1> SUFFICES ASSUME Init PROVE BoundInv
  OBVIOUS
<1>1. /\ pc[Writer] = "pop" /\ pc[Port] = "idle" /\ currentFileHandle = NoFile
      /\ FSIZE = InitialFsize
  BY DEF Init, Threads, Writer, Port
<1>2. \A name \in DOMAIN disk : FALSE
  BY DEF Init
<1> QED
  BY <1>1, <1>2 DEF BoundInv, SegmentBound

\* Steps that write nothing, and do not decide to.
LEMMA QuietBound ==
  ASSUME BoundInv, UNCHANGED <<disk, FSIZE>>,
         pc'[Port] # "clamp",
         UNCHANGED <<currentFileHandle, currentFileSize>> \/ currentFileHandle' = NoFile,
         pc'[Writer] = "write" =>
           /\ pc[Writer] = "write"
           /\ UNCHANGED <<currentFileHandle, currentFileSize>>
           /\ packet'[Writer] = packet[Writer]
  PROVE  BoundInv'
<1>1. SegmentBound'
  BY DEF BoundInv, SegmentBound, Bytes
<1>2. currentFileHandle' # NoFile =>
        /\ currentFileHandle' \in DOMAIN disk'
        /\ currentFileSize' = Bytes(disk[currentFileHandle])'
  BY DEF BoundInv, Bytes
<1>3. pc'[Writer] = "write" =>
        /\ currentFileHandle' # NoFile
        /\ disk'[currentFileHandle'] # <<>> =>
             currentFileSize' + Len(packet'[Writer]) <= InitialFsize
  BY DEF BoundInv
<1> QED
  BY <1>1, <1>2, <1>3 DEF BoundInv

\* The decision: what is written to a file that holds something fits.
LEMMA MeasureBound ==
  ASSUME BoundInv, Files, Measure(Writer)
  PROVE  BoundInv'
<1>1. PortInv /\ currentFileSize \in Nat /\ InitialFsize \in Nat
  BY AcquisitionAssumption DEF Files, TypesInv, OrderInv, Kinds
<1>2. UNCHANGED <<disk, FSIZE, currentFileHandle, currentFileSize, packet>>
  BY DEF Measure, stored, params, file
<1>3. pc'[Port] = pc[Port]
  BY <1>1, WriterMoves DEF Measure, Goto
<1>4. pc'[Writer] = "write" => currentFileHandle # NoFile /\ ~Overfull(Writer)
  BY <1>1, WriterMoves DEF Measure, Goto
<1>5. pc[Writer] = "measure"
  BY DEF Measure
<1>6. packet[Writer] \in Packets
  BY <1>5 DEF Files, TypesInv, OrderInv, Shapes, Holding, Inside
<1>7. Len(packet[Writer]) \in Nat
  BY <1>6, PacketBytes
<1>8. FSIZE = InitialFsize
  BY DEF BoundInv
<1>9. ~Overfull(Writer) => currentFileSize + Len(packet[Writer]) <= InitialFsize
  BY <1>1, <1>7, <1>8 DEF Overfull
<1>10. SegmentBound'
  BY <1>2 DEF BoundInv, SegmentBound, Bytes
<1>11. Bytes(disk[currentFileHandle])' = Bytes(disk[currentFileHandle])
  BY <1>2 DEF Bytes
<1> QED
  BY <1>2, <1>3, <1>4, <1>9, <1>10, <1>11 DEF BoundInv

\* A file that is opened holds nothing.
LEMMA OpenBound ==
  ASSUME BoundInv, Files, Open(Writer)
  PROVE  BoundInv'
<1>1. PortInv /\ FSIZE' = FSIZE
  BY DEF Files, TypesInv, OrderInv, Open, params
<1>2. CASE Return(Writer) /\ UNCHANGED <<file, disk, opened>>
  <2>1. pc'[Writer] = "pop" /\ pc'[Port] = pc[Port]
    BY <1>1, <1>2, WriterMoves DEF Return, Goto
  <2> QED
    BY <1>1, <1>2, <2>1, QuietBound DEF BoundInv, file
<1>3. ASSUME NEW name \in Filenames(loaded[Writer]),
             /\ currentFileHandle' = name
             /\ currentFileSize' = 0
             /\ disk' = [f \in DOMAIN disk \cup {name} |-> IF f = name THEN <<>> ELSE disk[f]]
             /\ Goto(Writer, "write")
      PROVE  BoundInv'
  <2>1. pc'[Port] = pc[Port]
    BY <1>1, <1>3, WriterMoves DEF Goto
  <2>2. name # NoFile
    BY FilenamesType, AcquisitionAssumption DEF Files, TypesInv, Names, Threads
  <2>3. disk'[name] = <<>> /\ name \in DOMAIN disk'
    BY <1>3
  <2>4. Places(<<>>) = {}
    BY DEF Places
  <2>5. Bytes(disk[currentFileHandle])' = 0
    BY <1>3, <2>3, <2>4, FS_EmptySet DEF Bytes, Places
  <2>6. ASSUME NEW f \in DOMAIN disk'
        PROVE  Cardinality(Places(disk'[f])) <= InitialFsize \/ Len(disk'[f]) <= 1
    <3>1. CASE f = name
      BY <2>3, <3>1
    <3>2. CASE f # name
      <4>1. f \in DOMAIN disk /\ disk'[f] = disk[f]
        BY <1>3, <3>2
      <4> QED
        BY <4>1 DEF BoundInv, SegmentBound, Bytes
    <3> QED
      BY <3>1, <3>2
  <2>7. SegmentBound'
    BY <2>6 DEF SegmentBound, Bytes, Places
  <2> QED
    BY <1>1, <1>3, <2>1, <2>2, <2>3, <2>5, <2>7 DEF BoundInv
<1> QED
  BY <1>2, <1>3, Zenon DEF Open

\* The packet is added whole, or not at all.
LEMMA WriteBound ==
  ASSUME Steady, BoundInv, SizeInv, Files, Write(Writer)
  PROVE  BoundInv'
<1> DEFINE s == disk[currentFileHandle]
           p == packet[Writer]
<1>1. /\ currentFileHandle \in DOMAIN disk /\ s \in Seq(Seq(Numbers))
      /\ p \in Seq(Numbers) /\ Len(p) \in Nat
  BY PacketWritten
<1>2. PortInv /\ pc[Writer] = "write" /\ UNCHANGED <<currentFileHandle, FSIZE>>
  BY DEF Files, TypesInv, OrderInv, Write, params
<1>3. pc'[Writer] = "pop" /\ pc'[Port] = pc[Port]
  BY <1>2, WriterMoves DEF Write, Return, Goto
<1>4. CASE UNCHANGED <<disk, currentFileSize, journal>>
  BY <1>2, <1>3, <1>4, QuietBound DEF BoundInv
<1>5. CASE /\ disk' = [disk EXCEPT ![currentFileHandle] = Append(s, p)]
           /\ currentFileSize' = currentFileSize + Len(p)
  <2>1. Bytes(Append(s, p)) = Bytes(s) + Len(p) /\ Bytes(s) \in Nat
    BY <1>1, BytesAppended
  <2>2. currentFileHandle # NoFile /\ currentFileSize = Bytes(s)
    BY <1>2 DEF BoundInv
  <2>3. s # <<>> => Bytes(s) + Len(p) <= InitialFsize
    BY <1>2, <2>2 DEF BoundInv
  <2>4. s = <<>> => Len(Append(s, p)) <= 1
    BY <1>1
  <2>5. DOMAIN disk' = DOMAIN disk /\ disk'[currentFileHandle] = Append(s, p)
    BY <1>1, <1>5
  <2> HIDE DEF s, p
  <2>6. Bytes(disk[currentFileHandle])' = currentFileSize'
    <3>1. Bytes(disk[currentFileHandle])' = Bytes(Append(s, p))
      BY <1>2, <2>5 DEF Bytes, Places
    <3> QED
      BY <1>5, <2>1, <2>2, <3>1
  <2>7. ASSUME NEW f \in DOMAIN disk'
        PROVE  Cardinality(Places(disk'[f])) <= InitialFsize \/ Len(disk'[f]) <= 1
    <3>1. CASE f = currentFileHandle
      BY <2>1, <2>3, <2>4, <2>5, <3>1 DEF Bytes
    <3>2. CASE f # currentFileHandle
      <4>1. f \in DOMAIN disk /\ disk'[f] = disk[f]
        BY <1>5, <2>5, <3>2
      <4> QED
        BY <4>1 DEF BoundInv, SegmentBound, Bytes
    <3> QED
      BY <3>1, <3>2
  <2>8. SegmentBound'
    BY <2>7 DEF SegmentBound, Bytes, Places
  <2> QED
    BY <1>1, <1>2, <1>3, <2>2, <2>5, <2>6, <2>8 DEF BoundInv
<1> QED
  BY <1>4, <1>5, WriteOutcomes, Zenon DEF Steady

\* Every step.
LEMMA NextBound ==
  ASSUME Steady, BoundInv, SizeInv, Files, [Next]_vars
  PROVE  BoundInv'
<1>1. PortInv /\ OrderInv
  BY DEF Files, TypesInv, OrderInv
<1>2. ASSUME NEW n \in Sizes, Arrive(n) PROVE BoundInv'
  BY <1>2, QuietBound DEF Arrive, stored, params, file, BoundInv
<1>3. ASSUME NEW t \in Threads, Pop(t) \/ Enter(t) PROVE BoundInv'
  <2>1. UNCHANGED <<disk, FSIZE, currentFileHandle, currentFileSize>>
        /\ pc[t] \in {"pop", "flush", "enter"}
    BY <1>3 DEF Pop, Enter, stored, params, file
  <2>2. \E l \in {"enter", "measure", "pop", "flush"} : pc' = [pc EXCEPT ![t] = l]
    BY <1>3 DEF Pop, Enter, Return, Goto
  <2>3. CASE t = Writer
    <3>1. pc'[Writer] # "write" /\ pc'[Port] = pc[Port]
      BY <1>1, <2>2, <2>3, WriterMoves
    <3> QED
      BY <2>1, <3>1, QuietBound DEF BoundInv
  <2>4. CASE t = Port
    <3>1. pc'[Writer] = pc[Writer] /\ pc'[Port] # "clamp"
      BY <1>1, <2>2, <2>4, PortMoves
    <3>2. packet'[Writer] = packet[Writer]
      <4>1. packet \in [Threads -> Seq(Numbers)]
        BY DEF Files, TypesInv, Kinds
      <4>2. packet' = packet \/ \E v : packet' = [packet EXCEPT ![t] = v]
        BY <1>3 DEF Pop, Enter, Return
      <4> QED
        BY <2>4, <4>1, <4>2 DEF Threads, Writer, Port
    <3> QED
      BY <2>1, <3>1, <3>2, QuietBound
  <2> QED
    BY <2>3, <2>4 DEF Threads
<1>4. CASE \/ Close(Writer) \/ CountFile(Writer) \/ CountBytes(Writer) \/ NextSegment(Writer)
           \/ Reads(Writer)
  <2>1. currentFileHandle' = NoFile /\ UNCHANGED <<disk, FSIZE>>
    BY <1>4, ReadsLoad DEF Close, CountFile, CountBytes, NextSegment, file, stored, params,
                           Files, FilesInv, Handles, BetweenFiles
  <2>2. pc'[Writer] # "write" /\ pc'[Port] = pc[Port]
    BY <1>1, <1>4, WriterMoves, ReadsLoad
       DEF Close, CountFile, CountBytes, NextSegment, Goto
  <2> QED
    BY <2>1, <2>2, QuietBound DEF BoundInv
<1>5. ASSUME NEW t \in Threads, WriteDataToFile(t) PROVE BoundInv'
  <2>1. CASE Enter(t)
    BY <1>3, <2>1
  <2>2. CASE ~Enter(t)
    <3>1. pc[t] \in Inside
      BY <1>5, <2>2 DEF WriteDataToFile, Measure, Close, CountFile, CountBytes,
                        NextSegment, Open, Write, ReadBytes, ReadSegment, ReadNumber,
                        Load, Inside
    <3>2. t = Writer
      BY <1>1, <3>1, InsideIsWriter
    <3> QED
      BY <1>4, <1>5, <2>2, <3>2, MeasureBound, OpenBound, WriteBound
         DEF WriteDataToFile, Reads
  <2> QED
    BY <2>1, <2>2
<1>6. CASE PortStep
  <2>1. /\ Start \/ ResetBytes \/ ResetFiles \/ Enable \/ Stop \/ Flushed
           \/ \E value \in RunNumbers : SetRunno(value)
        /\ pc[Port] # "clamp"
    BY <1>6 DEF PortStep, Steady, BoundInv, ClampFsize
  <2>2. UNCHANGED <<disk, FSIZE, currentFileHandle, currentFileSize, packet>>
    BY <2>1 DEF Start, ResetBytes, ResetFiles, Enable, Stop, Flushed, SetRunno, stored, params, file
  <2>3. pc'[Writer] = pc[Writer] /\ pc'[Port] # "clamp"
    BY <1>1, <2>1, PortMoves DEF Start, ResetBytes, ResetFiles, Enable, Stop, Flushed, SetRunno, Goto
  <2> QED
    BY <2>2, <2>3, QuietBound
<1>7. CASE UNCHANGED vars
  BY <1>7, QuietBound DEF vars, stored, params, file, BoundInv
<1> QED
  BY <1>2, <1>3, <1>5, <1>6, <1>7, StepCases

\* With FSIZE left at its value and no write cut short, however often acquisition is
\* restarted and opens and writes fail: a file holds at most FSIZE bytes, or a single
\* packet (writeDataToFile compares before it writes).
THEOREM SegmentsBounded == ASSUME Steady PROVE Spec => []SegmentBound
<1>1. BoundInv => SegmentBound
  BY DEF BoundInv
<1>2. Spec => []Files
  BY FilesAlways DEF Files
<1>3. Init => SizeInv /\ BoundInv
  BY InitSize, InitBound
<1>4. SizeInv /\ BoundInv /\ Files /\ [Next]_vars => (SizeInv /\ BoundInv)'
  BY NextSize, NextBound
<1> QED
  BY <1>1, <1>2, <1>3, <1>4, PTL DEF Spec

-----------------------------------------------------------------------------
(* Reading the segments back.                                              *)

\* In the first acquisition the open file has the current segment number.
LastOpen ==
  starts <= 1 /\ currentFileHandle # NoFile => currentFileHandle[2] = currentSegmentNumber

\* The numbers grow inside every file.
PiecesInOrder ==
  \A name \in DOMAIN disk : \A j, k \in 1 .. Len(disk[name]) :
    j < k => disk[name][j][1] < disk[name][k][1]

\* In the first acquisition they grow from file to file, and nothing written is missing.
FilesInOrder ==
  starts <= 1 =>
    \A a, b \in DOMAIN disk : a[2] < b[2] =>
      \A j \in 1 .. Len(disk[a]), k \in 1 .. Len(disk[b]) : disk[a][j][1] < disk[b][k][1]

OnDisk(i) ==
  \E name \in DOMAIN disk : \E k \in 1 .. Len(disk[name]) :
    disk[name][k] \in ToSet(handed) /\ disk[name][k][1] = i

JournalOnDisk == starts <= 1 => \A i \in ToSet(journal) : OnDisk(i)

ReadInv == LastOpen /\ PiecesInOrder /\ FilesInOrder /\ JournalOnDisk

\* The first state.
LEMMA InitRead == Init => ReadInv
<1> SUFFICES ASSUME Init PROVE ReadInv
  OBVIOUS
<1>1. currentFileHandle = NoFile /\ journal = <<>>
  BY DEF Init
<1>2. \A name \in DOMAIN disk : FALSE
  BY DEF Init
<1>3. ToSet(journal) = {}
  BY <1>1 DEF ToSet
<1> QED
  BY <1>1, <1>2, <1>3 DEF ReadInv, LastOpen, PiecesInOrder, FilesInOrder, JournalOnDisk

\* The number of the open file.
LEMMA NextLastOpen ==
  ASSUME LastOpen, Files, [Next]_vars
  PROVE  LastOpen'
<1>1. PortInv /\ starts \in Nat
  BY AcquisitionAssumption DEF Files, TypesInv, OrderInv, Kinds
<1>2. CASE UNCHANGED <<currentFileHandle, currentSegmentNumber, starts>>
  BY <1>2 DEF LastOpen
<1>3. ASSUME NEW t \in Threads, WriteDataToFile(t),
             ~UNCHANGED <<currentFileHandle, currentSegmentNumber, starts>>
      PROVE  LastOpen'
  <2>1. Close(t) \/ NextSegment(t) \/ Open(t)
    BY <1>3 DEF WriteDataToFile, Enter, Measure, CountFile, CountBytes, Write, ReadBytes,
                ReadSegment, ReadNumber, Load, file
  <2>2. pc[t] \in Inside
    BY <2>1 DEF Close, NextSegment, Open, Inside
  <2>3. t = Writer
    BY <1>1, <2>2, InsideIsWriter
  <2>4. CASE Close(t)
    BY <2>4 DEF Close, LastOpen
  <2>5. CASE NextSegment(t)
    BY <2>3, <2>5 DEF NextSegment, file, Files, FilesInv, Handles, BetweenFiles, LastOpen
  <2>6. CASE Open(t)
    <3>1. currentSegmentNumber' = currentSegmentNumber /\ starts' = starts
      BY <2>6 DEF Open
    <3>2. UNCHANGED currentFileHandle
            \/ \E name \in Filenames(loaded[Writer]) : currentFileHandle' = name
      BY <2>3, <2>6, Zenon DEF Open, file
    <3>3. \A name \in Filenames(loaded[Writer]) : name[2] = loaded[Writer]
      BY FilenamesType DEF Files, TypesInv, Threads
    <3>4. starts <= 1 => loaded[Writer] = currentSegmentNumber
      BY <2>3, <2>6 DEF Open, Files, FilesInv, Segments
    <3> QED
      BY <3>1, <3>2, <3>3, <3>4 DEF LastOpen
  <2> QED
    BY <2>1, <2>4, <2>5, <2>6
<1>4. CASE PortStep
  <2>1. CASE Start
    <3>1. starts' = starts + 1 /\ UNCHANGED currentFileHandle
      BY <2>1 DEF Start, file
    <3>2. starts' <= 1 => starts = 0
      BY <1>1, <3>1
    <3>3. starts = 0 => currentFileHandle = NoFile
      BY DEF Files, FilesInv, FreshFiles, Fresh
    <3> QED
      BY <3>1, <3>2, <3>3 DEF LastOpen
  <2>2. CASE ~Start
    BY <1>2, <1>4, <2>2 DEF PortStep, ResetBytes, ResetFiles, Enable, Stop, Flushed, ClampFsize,
                            SetFsize, SetRunno, file
  <2> QED
    BY <2>1, <2>2
<1>5. ASSUME (\E n \in Sizes : Arrive(n)) \/ (\E t \in Threads : Pop(t)) \/ UNCHANGED vars
      PROVE  LastOpen'
  BY <1>2, <1>5 DEF Arrive, Pop, vars, file
<1> QED
  BY <1>2, <1>3, <1>4, <1>5, StepCases

\* Steps that leave the disk and the journal alone.
LEMMA QuietRead ==
  ASSUME ReadInv, UNCHANGED <<disk, journal>>, starts' <= 1 => starts <= 1,
         ToSet(handed) \subseteq ToSet(handed')
  PROVE  (PiecesInOrder /\ FilesInOrder /\ JournalOnDisk)'
<1>1. PiecesInOrder' /\ FilesInOrder'
  BY DEF ReadInv, PiecesInOrder, FilesInOrder
<1>2. \A i : OnDisk(i) => OnDisk(i)'
  BY DEF OnDisk
<1>3. JournalOnDisk'
  BY <1>2 DEF ReadInv, JournalOnDisk
<1> QED
  BY <1>1, <1>3

\* A new file is empty and has a number of its own.
LEMMA OpenRead ==
  ASSUME ReadInv, Files, Open(Writer)
  PROVE  (PiecesInOrder /\ FilesInOrder /\ JournalOnDisk)'
<1>1. UNCHANGED <<journal, handed, starts>> /\ pc[Writer] = "open"
  BY DEF Open, buffer
<1>2. CASE UNCHANGED disk
  BY <1>1, <1>2, QuietRead
<1>3. ASSUME NEW name \in Filenames(loaded[Writer]),
             disk' = [f \in DOMAIN disk \cup {name} |-> IF f = name THEN <<>> ELSE disk[f]]
      PROVE  (PiecesInOrder /\ FilesInOrder /\ JournalOnDisk)'
  <2>1. /\ DOMAIN disk' = DOMAIN disk \cup {name}
        /\ \A f \in DOMAIN disk' :
             \/ Len(disk'[f]) = 0
             \/ f \in DOMAIN disk /\ disk'[f] = disk[f]
    BY <1>3
  <2>2. PiecesInOrder'
    BY <2>1 DEF ReadInv, PiecesInOrder
  <2>3. FilesInOrder'
    BY <1>1, <2>1 DEF ReadInv, FilesInOrder
  <2>4. starts <= 1 => name \notin DOMAIN disk
    <3> SUFFICES ASSUME starts <= 1 PROVE name \notin DOMAIN disk
      OBVIOUS
    <3>1. name[2] = currentSegmentNumber /\ currentSegmentNumber \in Nat
      <4>1. name[2] = loaded[Writer]
        BY FilenamesType DEF Files, TypesInv, Threads
      <4> QED
        BY <1>1, <4>1 DEF Files, FilesInv, Segments, TypesInv, Kinds
    <3>2. currentFileHandle = NoFile
      BY <1>1 DEF Files, FilesInv, Handles
    <3>3. Len(opened) = currentSegmentNumber /\ \A f \in DOMAIN disk : f[2] < Len(opened)
      BY <1>1, <3>1, <3>2 DEF Files, FilesInv, Segments, BetweenFiles
    <3> QED
      BY <3>1, <3>3
  <2>5. starts <= 1 => \A f \in DOMAIN disk : f \in DOMAIN disk' /\ disk'[f] = disk[f]
    BY <1>3, <2>4
  <2>6. starts <= 1 => \A i : OnDisk(i) => OnDisk(i)'
    BY <1>1, <2>5 DEF OnDisk
  <2>7. JournalOnDisk'
    BY <1>1, <2>6 DEF ReadInv, JournalOnDisk
  <2> QED
    BY <2>2, <2>3, <2>7
<1> QED
  BY <1>2, <1>3, Zenon DEF Open

\* A piece is added behind those of the last file.
LEMMA PieceRead ==
  ASSUME ReadInv, SizeInv, Files, Write(Writer), NEW piece \in Seq(Numbers),
         piece[1] = packet[Writer][1],
         disk' = [disk EXCEPT ![currentFileHandle] = Append(disk[currentFileHandle], piece)]
  PROVE  /\ PiecesInOrder' /\ FilesInOrder'
         /\ starts <= 1 => \A i : OnDisk(i) => OnDisk(i)'
         /\ piece \in ToSet(handed) => \A i : i = piece[1] => OnDisk(i)'
<1> DEFINE h == currentFileHandle
           s == disk[h]
           i0 == packet[Writer][1]
           m == Len(s) + 1
<1>1. h \in DOMAIN disk /\ s \in Seq(Seq(Numbers)) /\ Len(s) \in Nat
  BY PacketWritten
<1>2. /\ pc[Writer] = "write" /\ pc[Writer] \in Holding /\ UNCHANGED <<starts, handed>>
  BY DEF Write, Holding, Inside, buffer
<1>3. \A name \in DOMAIN disk : \A k \in 1 .. Len(disk[name]) : disk[name][k][1] < i0
  BY <1>2 DEF SizeInv, PiecesBehind, Behind
<1>4. /\ DOMAIN disk' = DOMAIN disk
      /\ \A name \in DOMAIN disk : name # h => disk'[name] = disk[name]
      /\ disk'[h] = Append(s, piece)
  BY <1>1
<1>5. /\ Len(disk'[h]) = m /\ disk'[h][m] = piece /\ m \in 1 .. m
      /\ \A k \in 1 .. Len(s) : k \in 1 .. m /\ disk'[h][k] = s[k]
      /\ \A k \in 1 .. m : k \in 1 .. Len(s) \/ k = m
  BY <1>1, <1>4
<1>6. \A name \in DOMAIN disk' : \A k \in 1 .. Len(disk'[name]) :
        \/ k \in 1 .. Len(disk[name]) /\ disk'[name][k] = disk[name][k]
        \/ name = h /\ k = m /\ disk'[name][k] = piece
  BY <1>4, <1>5
<1>7. PiecesInOrder'
  <2> SUFFICES ASSUME NEW name \in DOMAIN disk', NEW j \in 1 .. Len(disk'[name]),
                      NEW k \in 1 .. Len(disk'[name]), j < k
               PROVE  disk'[name][j][1] < disk'[name][k][1]
    BY DEF PiecesInOrder
  <2>1. CASE name # h
    BY <1>4, <2>1 DEF ReadInv, PiecesInOrder
  <2>2. CASE name = h
    <3>1. j \in 1 .. Len(s) /\ disk'[h][j] = s[j]
      BY <1>1, <1>5, <2>2
    <3>2. CASE k \in 1 .. Len(s)
      BY <1>1, <1>5, <2>2, <3>1, <3>2 DEF ReadInv, PiecesInOrder
    <3>3. CASE k = m
      BY <1>1, <1>3, <1>5, <2>2, <3>1, <3>3
    <3> QED
      BY <1>5, <2>2, <3>2, <3>3
  <2> QED
    BY <2>1, <2>2
<1>8. FilesInOrder'
  <2> SUFFICES ASSUME starts <= 1, NEW a \in DOMAIN disk', NEW b \in DOMAIN disk',
                      a[2] < b[2],
                      NEW j \in 1 .. Len(disk'[a]), NEW k \in 1 .. Len(disk'[b])
               PROVE  disk'[a][j][1] < disk'[b][k][1]
    BY <1>2 DEF FilesInOrder
  <2>1. a # h
    <3>1. h # NoFile
      BY <1>2 DEF SizeInv
    <3>2. h[2] = currentSegmentNumber /\ currentSegmentNumber \in Nat
      BY <3>1 DEF ReadInv, LastOpen, Files, TypesInv, Kinds
    <3>3. Len(opened) = currentSegmentNumber + 1 /\ b[2] < Len(opened)
      BY <1>4, <3>1, <3>2 DEF Files, FilesInv, Segments
    <3>4. b[2] \in Nat
      BY <1>4 DEF Files, TypesInv, Kinds, Names
    <3> QED
      BY <3>2, <3>3, <3>4
  <2>2. j \in 1 .. Len(disk[a]) /\ disk'[a][j] = disk[a][j]
    BY <1>4, <2>1
  <2>3. CASE k \in 1 .. Len(disk[b]) /\ disk'[b][k] = disk[b][k]
    BY <1>4, <2>2, <2>3 DEF ReadInv, FilesInOrder
  <2>4. CASE disk'[b][k] = piece
    BY <1>3, <1>4, <2>2, <2>4
  <2> QED
    BY <1>6, <2>3, <2>4
<1>9. ASSUME NEW i, OnDisk(i) PROVE OnDisk(i)'
  <2>1. PICK name \in DOMAIN disk : \E k \in 1 .. Len(disk[name]) :
               disk[name][k] \in ToSet(handed) /\ disk[name][k][1] = i
    BY <1>9 DEF OnDisk
  <2>2. PICK k \in 1 .. Len(disk[name]) :
               disk[name][k] \in ToSet(handed) /\ disk[name][k][1] = i
    BY <2>1
  <2>3. name \in DOMAIN disk' /\ k \in 1 .. Len(disk'[name]) /\ disk'[name][k] = disk[name][k]
    BY <1>4, <1>5
  <2> QED
    BY <1>2, <2>2, <2>3, Zenon DEF OnDisk
<1>10. ASSUME piece \in ToSet(handed), NEW i, i = piece[1] PROVE OnDisk(i)'
  <2>1. /\ h \in DOMAIN disk' /\ m \in 1 .. Len(disk'[h])
        /\ disk'[h][m] \in ToSet(handed') /\ disk'[h][m][1] = i
    BY <1>1, <1>2, <1>4, <1>5, <1>10
  <2> QED
    BY <2>1, Zenon DEF OnDisk
<1> QED
  BY <1>7, <1>8, <1>9, <1>10

\* The packet that joins the journal is the one that was taken, whole, on the disk.
LEMMA WriteRead ==
  ASSUME ReadInv, TakenInOrder, SizeInv, Files, Write(Writer)
  PROVE  (PiecesInOrder /\ FilesInOrder /\ JournalOnDisk)'
<1> DEFINE s == disk[currentFileHandle]
           p == packet[Writer]
<1>1. /\ pc[Writer] \in Holding /\ UNCHANGED <<starts, handed>>
      /\ p \in Seq(Numbers)
  BY PacketWritten DEF Write, Holding, Inside, buffer
<1>2. p \in ToSet(handed)
  <2>1. DOMAIN handed = 1 .. Len(handed)
    BY DEF TakenInOrder
  <2> QED
    BY <1>1, <2>1 DEF TakenInOrder, ToSet
<1>3. CASE /\ disk' = [disk EXCEPT ![currentFileHandle] = Append(s, p)]
           /\ ToSet(journal') = ToSet(journal) \cup {p[1]}
  <2>1. /\ PiecesInOrder' /\ FilesInOrder'
        /\ starts <= 1 => \A i : OnDisk(i) => OnDisk(i)'
        /\ \A i : i = p[1] => OnDisk(i)'
    BY <1>1, <1>2, <1>3, PieceRead
  <2>2. ASSUME starts' <= 1, NEW i \in ToSet(journal') PROVE OnDisk(i)'
    <3>1. i \in ToSet(journal) \/ i = p[1]
      BY <1>3, <2>2
    <3>2. i \in ToSet(journal) => OnDisk(i)
      BY <1>1, <2>2 DEF ReadInv, JournalOnDisk
    <3> QED
      BY <1>1, <2>1, <2>2, <3>1, <3>2
  <2>3. JournalOnDisk'
    BY <2>2 DEF JournalOnDisk
  <2> QED
    BY <2>1, <2>3
<1>4. ASSUME NEW piece \in Seq(Numbers), piece[1] = p[1],
             disk' = [disk EXCEPT ![currentFileHandle] = Append(s, piece)],
             journal' = journal
      PROVE  (PiecesInOrder /\ FilesInOrder /\ JournalOnDisk)'
  <2>1. /\ PiecesInOrder' /\ FilesInOrder'
        /\ starts <= 1 => \A i : OnDisk(i) => OnDisk(i)'
    BY <1>4, PieceRead
  <2>2. JournalOnDisk'
    BY <1>1, <1>4, <2>1 DEF ReadInv, JournalOnDisk
  <2> QED
    BY <2>1, <2>2
<1>5. CASE UNCHANGED <<disk, journal>>
  BY <1>1, <1>5, QuietRead
<1> QED
  BY <1>3, <1>4, <1>5, WriteOutcomes, Zenon

\* Every step.
LEMMA NextRead ==
  ASSUME ReadInv, TakenInOrder, SizeInv, Files, [Next]_vars
  PROVE  ReadInv'
<1> SUFFICES (PiecesInOrder /\ FilesInOrder /\ JournalOnDisk)'
  BY NextLastOpen DEF ReadInv
<1>1. PortInv /\ OrderInv /\ starts \in Nat
  BY AcquisitionAssumption DEF Files, TypesInv, OrderInv, Kinds
<1>2. ASSUME NEW n \in Sizes, Arrive(n) PROVE (PiecesInOrder /\ FilesInOrder /\ JournalOnDisk)'
  BY <1>2, QuietRead DEF Arrive, Buffer!Put, buffer, stored
<1>3. ASSUME NEW t \in Threads, Pop(t) PROVE (PiecesInOrder /\ FilesInOrder /\ JournalOnDisk)'
  <2>1. queue \in Seq(Packets) /\ queue # <<>> /\ handed' = Append(handed, Head(queue))
    BY <1>1, <1>3 DEF OrderInv, Shapes, Pop, Buffer!Take
  <2>2. PICK p \in Packets : p = Head(queue)
    BY <2>1
  <2>3. handed \in Seq(Packets)
    BY DEF TakenInOrder
  <2>4. /\ DOMAIN handed \subseteq DOMAIN handed'
        /\ \A k \in DOMAIN handed : handed'[k] = handed[k]
    BY <2>1, <2>2, <2>3
  <2>5. ToSet(handed) \subseteq ToSet(handed')
    BY <2>4 DEF ToSet
  <2> QED
    BY <1>3, <2>5, QuietRead DEF Pop, stored
<1>4. ASSUME PortStep \/ (\E t \in Threads : WriteDataToFile(t)) \/ UNCHANGED vars,
             UNCHANGED <<disk, journal>>
      PROVE  (PiecesInOrder /\ FilesInOrder /\ JournalOnDisk)'
  <2>1. handed' = handed
    BY <1>1, <1>4, HeldKept
  <2>2. starts' <= 1 => starts <= 1
    <3>1. starts' = starts \/ starts' = starts + 1
      BY <1>4 DEF PortStep, Start, ResetBytes, ResetFiles, Enable, Stop, Flushed, ClampFsize,
         SetFsize, SetRunno, WriteDataToFile, Enter, Measure, Close, CountFile, CountBytes,
         NextSegment, Open, Write, ReadBytes, ReadSegment, ReadNumber, Load, vars
    <3> QED
      BY <1>1, <3>1
  <2> QED
    BY <1>4, <2>1, <2>2, QuietRead
<1>5. ASSUME NEW t \in Threads, WriteDataToFile(t)
      PROVE  (PiecesInOrder /\ FilesInOrder /\ JournalOnDisk)'
  <2>1. CASE Open(t) \/ Write(t)
    <3>1. t = Writer
      BY <1>1, <2>1, InsideIsWriter DEF Open, Write, Inside
    <3> QED
      BY <2>1, <3>1, OpenRead, WriteRead
  <2>2. CASE ~Open(t) /\ ~Write(t)
    BY <1>4, <1>5, <2>2 DEF WriteDataToFile, Enter, Measure, Close, CountFile, CountBytes,
                            NextSegment, ReadBytes, ReadSegment, ReadNumber, Load, stored
  <2> QED
    BY <2>1, <2>2
<1>6. CASE PortStep
  BY <1>4, <1>6 DEF PortStep, Start, ResetBytes, ResetFiles, Enable, Stop, Flushed, ClampFsize,
                    SetFsize, SetRunno, stored
<1>7. CASE UNCHANGED vars
  BY <1>4, <1>7 DEF vars, stored
<1> QED
  BY <1>2, <1>3, <1>5, <1>6, <1>7, StepCases

\* Whatever fails or is cut short: the segments of the first acquisition, read in the
\* order of their numbers, give the packets in the order in which they were taken, and
\* no packet counted as written is missing or damaged; each file is in order in every
\* acquisition (dataWriteThread, writeDataToFile, generateFilename).
THEOREM SegmentsReadInOrder == Spec => []SegmentsReadBack
<1>1. ASSUME ReadInv, Files PROVE SegmentsReadBack
  <2>1. \A i \in 1 .. Len(journal) : journal[i] \in ToSet(journal)
    <3>1. journal \in Seq(Numbers)
      BY <1>1 DEF Files, TypesInv, Kinds
    <3> QED
      BY <3>1 DEF ToSet
  <2>2. starts <= 1 => \A i \in 1 .. Len(journal) : OnDisk(journal[i])
    BY <1>1, <2>1 DEF ReadInv, JournalOnDisk
  <2> QED
    BY <1>1, <2>2, Zenon
       DEF ReadInv, PiecesInOrder, FilesInOrder, OnDisk, SegmentsReadBack
<1>2. Spec => []Files
  BY FilesAlways DEF Files
<1>3. Init => SizeInv /\ TakenInOrder /\ ReadInv
  BY InitSize, InitTotals, InitRead
<1>4. SizeInv /\ TakenInOrder /\ ReadInv /\ Files /\ [Next]_vars
        => (SizeInv /\ TakenInOrder /\ ReadInv)'
  BY NextSize, NextTaken, NextRead DEF Files
<1> QED
  BY <1>1, <1>2, <1>3, <1>4, PTL DEF Spec
=============================================================================
