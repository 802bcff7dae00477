------------------------- MODULE WriteBufferProofs --------------------------
(***************************************************************************)
(* Theorems about WriteBuffer, for every size of the buffer, of the header *)
(* and of the packets.                                                     *)
(***************************************************************************)
EXTENDS WriteBuffer, SequenceTheorems, TLAPS

-----------------------------------------------------------------------------
(* Circular addressing.                                                    *)

\* An index that reached the size wraps to 0.
LEMMA ModWithin ==
  ASSUME NEW n \in Nat \ {0}, NEW x \in 0 .. n
  PROVE  x % n = IF x = n THEN 0 ELSE x
  BY SMT

\* The index behind a copy of data is one of the buffer.
LEMMA AfterInCells ==
  ASSUME NEW start \in Cells, NEW n \in 0 .. BufSize
  PROVE  After(start, n) \in Cells
  BY BufferAssumption, ModWithin, SMT DEF After, Cells, FirstPart

\* So is the one behind a header.
LEMMA AfterHeaderInCells ==
  ASSUME NEW start \in Cells
  PROVE  AfterHeader(start) \in Cells
  BY BufferAssumption, SMT DEF AfterHeader, Cells

\* Every byte of a copy of data goes to a cell.
LEMMA PlaceInCells ==
  ASSUME NEW start \in Cells, NEW j \in 0 .. BufSize - 1
  PROVE  Place(start, j) \in Cells
  BY BufferAssumption, SMT DEF Place, Cells, FirstPart

\* A header, whole or misread, is a number.
LEMMA HeaderValuesNat ==
  ASSUME TypeOK, NEW start, NEW n \in HeaderValues(start)
  PROVE  n \in Nat
  <1> DEFINE hits == {k \in DOMAIN accepted :
                       /\ start + Hdr <= BufSize
                       /\ \A j \in 0 .. Hdr - 1 :
                            dataWriteBuffer[start + j] = accepted[k].at + j}
  <1>1. \A k \in DOMAIN accepted : accepted[k].size \in Nat
    <2>1. accepted \in [1 .. Len(accepted) -> [at : Nat, size : Nat]]
      BY LenProperties DEF TypeOK
    <2> QED
      BY <2>1, SMT
  <1>2. CASE hits # {}
    <2>1. n \in {accepted[k].size : k \in hits}
      BY <1>2, Zenon DEF HeaderValues
    <2> QED
      BY <1>1, <2>1, Zenon
  <1>3. CASE hits = {}
    <2>1. n \in 0 .. BufSize
      BY <1>3, Zenon DEF HeaderValues
    <2> QED
      BY <2>1, BufferAssumption, SMT
  <1> QED
    BY <1>2, <1>3

-----------------------------------------------------------------------------
(* What holds whatever the packets are.                                    *)

\* A thread is in its critical section exactly while it holds the mutex.
MutexHeld == \A t \in Threads : pc[t] = "data" <=> writeBufferMutex = t

\* Where each thread may be.
Places ==
  /\ pc[Data] \in {"recv", "add", "data", "signal", "stopped"}
  /\ pc[Writer] \in {"wait", "test", "lock", "data", "write", "stopped"}
  /\ pc[Port] \in {"idle", "test", "lock", "data", "write"}

\* Between header and data, there is room for the data, or it is there.
Room ==
  /\ pc[Data] \in {"add", "data"} => dataSize[Data] \in Sizes
  /\ pc[Data] = "data" => writeBufferCount + dataSize[Data] <= BufSize
  /\ pc[Data] = "data" => wrote >= Hdr
  /\ \A c \in Consumers : pc[c] = "data" => dataSize[c] <= writeBufferCount

SafeInv == TypeOK /\ MutexHeld /\ Places /\ Room /\ NoLostWakeup

\* An empty buffer is safe.
LEMMA InitSafe == Init => SafeInv
  <1> SUFFICES ASSUME Init PROVE SafeInv
    OBVIOUS
  <1> USE BufferAssumption DEF Init, Threads, Consumers, Data, Writer, Port
  <1>1. TypeOK
    <2>1. dataWriteAvailable \in BOOLEAN /\ threadsRunning \in BOOLEAN
      BY Zenon
    <2>2. 0 \in Cells /\ 0 \in 0 .. BufSize
      BY SMT DEF Cells
    <2>3. pc \in [Threads -> {"recv", "add", "data", "signal", "stopped",
                             "wait", "test", "lock", "write", "idle"}]
      BY SMT
    <2> QED
      BY <2>1, <2>2, <2>3, SMT DEF TypeOK
  <1>2. MutexHeld
    BY SMT DEF MutexHeld
  <1>3. Places
    BY SMT DEF Places
  <1>4. Room /\ NoLostWakeup
    BY SMT DEF Room, NoLostWakeup
  <1> QED
    BY <1>1, <1>2, <1>3, <1>4 DEF SafeInv

\* Every step keeps the indexes, the mutex and the room for data as they should be.
LEMMA NextSafe == SafeInv /\ [Next]_vars => SafeInv'
  <1> SUFFICES ASSUME SafeInv, [Next]_vars PROVE SafeInv'
    OBVIOUS
  <1> USE BufferAssumption
      DEF SafeInv, TypeOK, MutexHeld, Places, Room, NoLostWakeup,
          Threads, Consumers, Data, Writer, Port, ring, history, Goto, Forget
  <1>1. ASSUME NEW n \in Sizes, Receive(n) PROVE SafeInv'
    BY <1>1, SMT DEF Receive
  <1>2. ASSUME DataStopped PROVE SafeInv'
    BY <1>2, SMT DEF DataStopped
  <1>3. ASSUME AddRefused PROVE SafeInv'
    BY <1>3, SMT DEF AddRefused, Refused, Fits
  <1>4. ASSUME AddHeader PROVE SafeInv'
    <2> USE <1>4 DEF AddHeader
    <2>1. dataWriteBuffer' \in [Cells -> Nat \cup {NoByte}]
      BY SMT DEF Cells
    <2>2. /\ writeBufferHead' \in Cells
          /\ writeBufferCount' + dataSize[Data] <= BufSize
      BY AfterHeaderInCells, SMT DEF Fits
    <2>3. TypeOK'
      BY <2>1, <2>2, SMT
    <2>4. MutexHeld' /\ Places'
      BY SMT
    <2>5. Room' /\ NoLostWakeup'
      BY <2>2, SMT
    <2> QED
      BY <2>3, <2>4, <2>5
  <1>5. ASSUME AddData PROVE SafeInv'
    <2> USE <1>5 DEF AddData
    <2>1. dataWriteBuffer' \in [Cells -> Nat \cup {NoByte}]
      BY SMT DEF Cells, Offset, FirstPart
    <2>2. writeBufferHead' \in Cells /\ writeBufferCount' \in 0 .. BufSize
      BY AfterInCells, SMT
    <2>3. accepted' \in Seq([at : Nat, size : Nat]) /\ wrote' \in Nat
      <3>1. wrote - Hdr \in Nat /\ dataSize[Data] \in Nat
        BY SMT
      <3>2. [at |-> wrote - Hdr, size |-> dataSize[Data]] \in [at : Nat, size : Nat]
        BY <3>1, Zenon
      <3> QED
        BY <3>1, <3>2, AppendProperties, SMT
    <2>4. TypeOK'
      BY <2>1, <2>2, <2>3, SMT
    <2>5. MutexHeld' /\ Places'
      BY SMT
    <2>6. Room' /\ NoLostWakeup'
      BY SMT
    <2> QED
      BY <2>4, <2>5, <2>6
  <1>6. ASSUME AddSignal PROVE SafeInv'
    BY <1>6, SMT DEF AddSignal
  <1>7. ASSUME Wake PROVE SafeInv'
    <2>1. dataWriteAvailable' \in BOOLEAN
      BY <1>7, Zenon DEF Wake
    <2> QED
      BY <1>7, <2>1, SMT DEF Wake
  <1>8. ASSUME StartFlush PROVE SafeInv'
    BY <1>8, SMT DEF StartFlush
  <1>9. ASSUME NEW c \in Consumers, Test(c) PROVE SafeInv'
    BY <1>9, SMT DEF Test, MayLoop, LoopExit
  <1>10. ASSUME NEW c \in Consumers, TakeNothing(c) PROVE SafeInv'
    BY <1>10, SMT DEF TakeNothing, LoopExit
  <1>11. ASSUME NEW c \in Consumers, TakeCorrupt(c) PROVE SafeInv'
    BY <1>11, SMT DEF TakeCorrupt, LoopExit, Cells
  <1>12. ASSUME NEW c \in Consumers, TakeHeader(c) PROVE SafeInv'
    <2> USE <1>12 DEF TakeHeader
    <2>1. PICK n \in HeaderValues(writeBufferTail) :
            /\ writeBufferCount - Hdr >= n
            /\ dataSize' = [dataSize EXCEPT ![c] = n]
      BY Zenon
    <2>2. n \in Nat
      BY HeaderValuesNat
    <2>3. writeBufferTail' \in Cells /\ writeBufferCount' \in 0 .. BufSize
      BY AfterHeaderInCells, SMT
    <2>4. TypeOK'
      BY <2>1, <2>2, <2>3, SMT
    <2>5. MutexHeld' /\ Places'
      BY SMT
    <2>6. Room' /\ NoLostWakeup'
      BY <2>1, <2>2, SMT
    <2> QED
      BY <2>4, <2>5, <2>6
  <1>13. ASSUME NEW c \in Consumers, TakeData(c) PROVE SafeInv'
    <2> USE <1>13 DEF TakeData
    <2>1. dataSize[c] \in 0 .. writeBufferCount
      BY SMT
    <2>2. writeBufferTail' \in Cells /\ writeBufferCount' \in 0 .. BufSize
      BY <2>1, AfterInCells, SMT
    <2>3. [j \in 1 .. dataSize[c] |-> dataWriteBuffer[Place(writeBufferTail, j - 1)]]
            \in Seq(Nat \cup {NoByte})
      <3>1. ASSUME NEW j \in 1 .. dataSize[c]
            PROVE  dataWriteBuffer[Place(writeBufferTail, j - 1)] \in Nat \cup {NoByte}
        BY <2>1, PlaceInCells, SMT
      <3> DEFINE f == [j \in 1 .. dataSize[c] |->
                         dataWriteBuffer[Place(writeBufferTail, j - 1)]]
      <3>2. f \in [1 .. dataSize[c] -> Nat \cup {NoByte}]
        BY <3>1, Zenon
      <3>3. dataSize[c] \in Nat
        BY SMT
      <3>4. UNION {[1 .. k -> Nat \cup {NoByte}] : k \in Nat} = Seq(Nat \cup {NoByte})
        BY SeqDef, Zenon
      <3> QED
        BY <3>2, <3>3, <3>4, Zenon
    <2>4. TypeOK'
      BY <2>2, <2>3, SMT
    <2>5. MutexHeld' /\ Places'
      BY SMT
    <2>6. Room' /\ NoLostWakeup'
      BY <2>1, SMT
    <2> QED
      BY <2>4, <2>5, <2>6
  <1>14. ASSUME NEW c \in Consumers, Written(c) PROVE SafeInv'
    BY <1>14, SMT DEF Written
  <1>15. ASSUME StopThreads PROVE SafeInv'
    <2>1. threadsRunning' \in BOOLEAN
      BY <1>15, Zenon DEF StopThreads
    <2> QED
      BY <1>15, <2>1, SMT DEF StopThreads
  <1>16. ASSUME UNCHANGED vars PROVE SafeInv'
    BY <1>16, SMT DEF vars
  <1> QED
    BY <1>1, <1>2, <1>3, <1>4, <1>5, <1>6, <1>7, <1>8, <1>9, <1>10, <1>11, <1>12, <1>13, <1>14, <1>15, <1>16, Zenon DEF Next, Produce, Consume

\* The mutex of the buffer excludes (writeBufferMutex), there is room for what is being
\* stored and something to take for who is taking, in every state.
THEOREM SafeAlways == Spec => []SafeInv
  BY InitSafe, NextSafe, PTL DEF Spec

\* Whatever the sizes of the packets, the indexes and the count stay within the
\* buffer: no copy of data leaves it (addDataToWriteBuffer, dataWriteThread,
\* flushWriteBuffer).
THEOREM TypeCorrect == Spec => []TypeOK
  BY SafeAlways, PTL DEF SafeInv

\* Whatever the sizes of the packets, the writer never sleeps through a packet
\* (the unlocked reads of writeBufferCount in dataWriteThread).
THEOREM WakeupNotLost == Spec => []NoLostWakeup
  BY SafeAlways, PTL DEF SafeInv

-----------------------------------------------------------------------------
(* More circular addressing: copies that follow one another.               *)

\* The index behind n bytes is the place of the next one.
LEMMA AfterIsPlace ==
  ASSUME NEW start \in Cells, NEW n \in 0 .. BufSize
  PROVE  After(start, n) = Place(start, n) /\ Place(start, n) \in Cells
  BY BufferAssumption, ModWithin, SMT DEF After, Place, Cells, FirstPart

\* Behind a header that does not reach beyond the end, too.
LEMMA AfterHeaderIsPlace ==
  ASSUME NEW start \in Cells, start + Hdr <= BufSize
  PROVE  AfterHeader(start) = Place(start, Hdr)
  <1>1. BufSize \in Nat \ {0} /\ start + Hdr \in 0 .. BufSize
    BY BufferAssumption, SMT DEF Cells
  <1>2. (start + Hdr) % BufSize = IF start + Hdr = BufSize THEN 0 ELSE start + Hdr
    BY <1>1, ModWithin
  <1> QED
    BY <1>1, <1>2, BufferAssumption, SMT DEF AfterHeader, Place, Cells, FirstPart

\* Places add up.
LEMMA PlaceOfPlace ==
  ASSUME NEW start \in Cells, NEW a \in 0 .. BufSize, NEW b \in 0 .. BufSize,
         a + b <= BufSize
  PROVE  Place(Place(start, a), b) = Place(start, a + b)
  BY BufferAssumption, SMT DEF Place, Cells, FirstPart

\* A cell of the stored bytes is none of a copy behind them, and the other way round.
LEMMA OffsetOfPlace ==
  ASSUME NEW start \in Cells, NEW a \in 0 .. BufSize, NEW i \in 0 .. BufSize - 1
  PROVE  Offset(Place(start, a), Place(start, i)) =
           IF i < a THEN BufSize - a + i ELSE i - a
  BY BufferAssumption, SMT DEF Offset, Place, Cells, FirstPart

-----------------------------------------------------------------------------
(* Whole words.                                                            *)

\* Sums of whole words are whole words.
LEMMA MultipleSum ==
  ASSUME NEW x \in Nat, NEW y \in Nat, Multiple(x), Multiple(y)
  PROVE  Multiple(x + y)
  <1>1. PICK p \in 0 .. x : x = p * Hdr
    BY Zenon DEF Multiple
  <1>2. PICK q \in 0 .. y : y = q * Hdr
    BY Zenon DEF Multiple
  <1>3. p + q \in 0 .. x + y /\ x + y = (p + q) * Hdr
    BY <1>1, <1>2, BufferAssumption, SMT
  <1> QED
    BY <1>3, Zenon DEF Multiple

\* Between two multiples of a word lies a word.
LEMMA MultipleLess ==
  ASSUME NEW x \in Nat, NEW y \in Nat, Multiple(x), Multiple(y), x < y
  PROVE  x + Hdr <= y /\ Multiple(y - x)
  <1>1. PICK p \in 0 .. x : x = p * Hdr
    BY Zenon DEF Multiple
  <1>2. PICK q \in 0 .. y : y = q * Hdr
    BY Zenon DEF Multiple
  <1>3. p < q
    BY <1>1, <1>2, BufferAssumption, SMT
  <1>4. PICK d \in Nat : q = p + 1 + d
    BY <1>3, SMT
  <1>5. y = x + Hdr + d * Hdr /\ d * Hdr \in Nat
    BY <1>1, <1>2, <1>4, BufferAssumption, SMT
  <1>6. y - x = (d + 1) * Hdr
    BY <1>5, BufferAssumption, SMT
  <1>7. d + 1 <= (d + 1) * Hdr
    BY BufferAssumption, SMT
  <1>8. d + 1 \in 0 .. y - x /\ x + Hdr <= y
    BY <1>5, <1>6, <1>7, BufferAssumption, SMT
  <1> QED
    BY <1>6, <1>8, Zenon DEF Multiple

\* Nothing and one word are whole words.
LEMMA MultipleBase == Multiple(0) /\ Multiple(Hdr)
  <1>1. 0 = 0 * Hdr /\ 0 \in 0 .. 0
    BY BufferAssumption, SMT
  <1>2. Hdr = 1 * Hdr /\ 1 \in 0 .. Hdr
    BY BufferAssumption, SMT
  <1> QED
    BY <1>1, <1>2, Zenon DEF Multiple

\* The place a whole number of words behind another is on a word boundary.
LEMMA MultiplePlace ==
  ASSUME Aligned, NEW start \in Cells, NEW n \in 0 .. BufSize,
         Multiple(start), Multiple(n)
  PROVE  Multiple(Place(start, n))
  <1>1. CASE n < BufSize - start
    <2>1. Place(start, n) = start + n
      BY <1>1 DEF Place, FirstPart
    <2> QED
      BY <2>1, MultipleSum, BufferAssumption, SMT DEF Cells
  <1>2. CASE ~(n < BufSize - start)
    <2>1. Place(start, n) = (start + n) - BufSize
      BY <1>2, BufferAssumption, SMT DEF Place, FirstPart, Cells
    <2>2. Multiple(start + n) /\ Multiple(BufSize)
      BY MultipleSum, BufferAssumption, SMT DEF Cells, Aligned
    <2>3. start + n \in Nat /\ BufSize \in Nat /\ BufSize <= start + n
      BY <1>2, BufferAssumption, SMT DEF Cells
    <2>4. CASE BufSize = start + n
      <3>1. Place(start, n) = 0
        BY <2>1, <2>4, BufferAssumption, SMT
      <3> QED
        BY <3>1, MultipleBase
    <2>5. CASE BufSize < start + n
      BY <2>1, <2>2, <2>3, <2>5, MultipleLess
    <2> QED
      BY <2>3, <2>4, <2>5, SMT
  <1> QED
    BY <1>1, <1>2

-----------------------------------------------------------------------------
(* What holds when no header straddles the end of the buffer.              *)

\* Types of the history, for use below.
LEMMA HistoryTypes ==
  ASSUME TypeOK
  PROVE  /\ Len(accepted) \in Nat
         /\ Len(taken) \in Nat
         /\ \A k \in 1 .. Len(accepted) :
              /\ accepted[k] \in [at : Nat, size : Nat]
              /\ accepted[k].at \in Nat
              /\ accepted[k].size \in Nat
         /\ \A k \in 0 .. Len(accepted) : EndOf(k) \in Nat
  <1>1. /\ Len(accepted) \in Nat
        /\ accepted \in [1 .. Len(accepted) -> [at : Nat, size : Nat]]
    BY LenProperties DEF TypeOK
  <1>2. Len(taken) \in Nat
    BY LenProperties DEF TypeOK
  <1>3. \A k \in 1 .. Len(accepted) : /\ accepted[k] \in [at : Nat, size : Nat]
                                      /\ accepted[k].at \in Nat
                                      /\ accepted[k].size \in Nat
    BY <1>1, SMT
  <1>4. \A k \in 0 .. Len(accepted) : EndOf(k) \in Nat
    BY <1>1, <1>3, BufferAssumption, SMT DEF EndOf
  <1> QED
    BY <1>1, <1>2, <1>3, <1>4

\* With the mutex free, a non-empty buffer starts with the header of the next record,
\* which is stored whole; the header is found and read.
LEMMA NextRecord ==
  ASSUME Aligned, SafeInv, BufferCoherent,
         writeBufferMutex = Nobody, writeBufferCount > 0
  PROVE  /\ Len(taken) < Len(accepted)
         /\ writeBufferTail + Hdr <= BufSize
         /\ HeaderValues(writeBufferTail) = {accepted[Len(taken) + 1].size}
         /\ writeBufferCount >= Hdr + accepted[Len(taken) + 1].size
  <1> USE BufferAssumption DEF SafeInv, BufferCoherent
  <1> DEFINE m == Len(taken) + 1
             hits == {k \in DOMAIN accepted :
                       /\ writeBufferTail + Hdr <= BufSize
                       /\ \A j \in 0 .. Hdr - 1 :
                            dataWriteBuffer[writeBufferTail + j] = accepted[k].at + j}
             last == Len(accepted)
  <1>0. /\ wrote \in Nat /\ writeBufferCount \in Nat
        /\ Len(taken) \in Nat /\ last \in Nat
        /\ \A k \in 0 .. last : EndOf(k) \in Nat
        /\ \A k \in 1 .. last : /\ accepted[k].at \in Nat /\ accepted[k].size \in Nat
                                /\ EndOf(k) = accepted[k].at + Hdr + accepted[k].size
    BY HistoryTypes, SMT DEF TypeOK, EndOf
  <1>1. \A t \in Threads : pc[t] # "data"
    BY SMT DEF MutexHeld, Threads, Consumers, Data, Writer, Port
  <1>2. /\ wrote = EndOf(last)
        /\ wrote - writeBufferCount = EndOf(Len(taken))
        /\ Len(taken) <= last
    <2>1. wrote = EndOf(last) + 0
      BY <1>1, SMT DEF Records, Threads
    <2>2. wrote - writeBufferCount = EndOf(Len(taken)) + 0 /\ Len(taken) <= last
      BY <1>1, SMT DEF Popped, Threads
    <2>3. EndOf(last) \in Nat /\ EndOf(Len(taken)) \in Nat
      BY <1>0, <2>2, SMT
    <2> QED
      BY <2>1, <2>2, <2>3, SMT
  <1>3. m \in 1 .. last /\ last \in 1 .. last
    BY <1>0, <1>2, SMT
  <1>4. accepted[m].at = wrote - writeBufferCount
    <2>1. accepted[m].at = EndOf(m - 1)
      BY <1>3 DEF Records
    <2>2. m - 1 = Len(taken)
      BY <1>0, SMT
    <2> QED
      BY <1>2, <2>1, <2>2
  <1>5. writeBufferCount >= Hdr + accepted[m].size
    <2>1. EndOf(m) <= EndOf(last)
      <3>1. CASE m = last
        BY <1>0, <1>3, <3>1, SMT
      <3>2. CASE m < last
        <4>1. EndOf(m) <= accepted[last].at
          BY <1>3, <3>2, Zenon DEF Records
        <4>2. /\ EndOf(last) = accepted[last].at + Hdr + accepted[last].size
              /\ accepted[last].at \in Nat /\ accepted[last].size \in Nat
              /\ EndOf(m) \in Nat
          BY <1>0, <1>3, SMT
        <4> HIDE DEF m, last
        <4> QED
          BY <4>1, <4>2, SMT
      <3> QED
        BY <1>0, <1>3, <3>1, <3>2, SMT
    <2>2. EndOf(m) = accepted[m].at + Hdr + accepted[m].size
      BY <1>0, <1>3
    <2>3. accepted[m].at \in Nat /\ accepted[m].size \in Nat
      BY <1>0, <1>3
    <2>4. /\ Hdr \in Nat /\ wrote \in Nat /\ writeBufferCount \in Nat
          /\ EndOf(m) \in Nat /\ wrote = EndOf(last)
          /\ accepted[m].at = wrote - writeBufferCount
      BY <1>0, <1>2, <1>3, <1>4, SMT
    <2> HIDE DEF m, last, SafeInv, BufferCoherent
    <2> QED
      BY <2>1, <2>2, <2>3, <2>4, SMT
  <1>6. writeBufferTail + Hdr <= BufSize
    <2>1. /\ writeBufferTail \in Nat /\ writeBufferTail < BufSize
          /\ Multiple(writeBufferTail) /\ Multiple(BufSize)
      BY SMT DEF Words, Aligned, TypeOK, Cells
    <2> QED
      BY <2>1, MultipleLess
  <1>7. \A j \in 0 .. Hdr - 1 :
          dataWriteBuffer[writeBufferTail + j] = wrote - writeBufferCount + j
    <2> TAKE j \in 0 .. Hdr - 1
    <2>1. j \in 0 .. writeBufferCount - 1 /\ Place(writeBufferTail, j) = writeBufferTail + j
      <3>1. /\ writeBufferTail \in Nat /\ writeBufferCount \in Nat
            /\ accepted[m].size \in Nat /\ BufSize \in Nat /\ Hdr \in Nat
        BY <1>0, <1>3, SMT DEF TypeOK, Cells
      <3> HIDE DEF m, last, SafeInv, BufferCoherent
      <3>2. j \in 0 .. writeBufferCount - 1
        BY <1>5, <3>1, SMT
      <3>3. Place(writeBufferTail, j) = writeBufferTail + j
        BY <1>6, <3>1, SMT DEF Place, FirstPart
      <3> QED
        BY <3>2, <3>3
    <2>2. dataWriteBuffer[Place(writeBufferTail, j)] = wrote - writeBufferCount + j
      BY <2>1, Zenon DEF Layout
    <2> QED
      BY <2>1, <2>2, Zenon
  <1>8. m \in hits
    <2>1. DOMAIN accepted = 1 .. last
      BY HistoryTypes, LenProperties DEF TypeOK
    <2>2. \A j \in 0 .. Hdr - 1 :
            dataWriteBuffer[writeBufferTail + j] = accepted[m].at + j
      BY <1>4, <1>7
    <2> HIDE DEF m, last
    <2> QED
      BY <1>3, <1>6, <2>1, <2>2, Zenon
  <1>9. ASSUME NEW k \in hits PROVE k = m
    <2>1. k \in 1 .. last
      <3>1. accepted \in Seq([at : Nat, size : Nat])
        BY DEF TypeOK
      <3> QED
        BY <3>1, LenProperties, Zenon
    <2>2. accepted[k].at = accepted[m].at
      <3>1. 0 \in 0 .. Hdr - 1
        BY SMT
      <3>2. accepted[k].at + 0 = accepted[m].at + 0
        BY <1>8, <3>1, Zenon
      <3> QED
        BY <1>0, <1>3, <2>1, <3>2, SMT
    <2>3. ASSUME NEW i \in 1 .. last, NEW j \in 1 .. last, i < j
          PROVE  accepted[i].at # accepted[j].at
      <3>1. EndOf(i) <= accepted[j].at
        BY <2>3, Zenon DEF Records
      <3>2. /\ EndOf(i) = accepted[i].at + Hdr + accepted[i].size
            /\ accepted[i].at \in Nat /\ accepted[i].size \in Nat
        BY <1>0, <2>3, Zenon
      <3>3. accepted[j].at \in Nat /\ Hdr \in Nat \ {0}
        BY <1>0, <2>3, Zenon
      <3> HIDE DEF last, SafeInv, BufferCoherent
      <3> QED
        BY <3>1, <3>2, <3>3, SMT
    <2>4. ~(k < m) /\ ~(m < k)
      BY <1>3, <2>1, <2>2, <2>3, Zenon
    <2> QED
      BY <1>0, <1>3, <2>1, <2>4, SMT
  <1>10. HeaderValues(writeBufferTail) = {accepted[m].size}
    BY <1>8, <1>9, Zenon DEF HeaderValues
  <1> QED
    BY <1>3, <1>5, <1>6, <1>10, HistoryTypes, SMT

\* A step that moves no byte, enters or leaves no critical section and keeps the
\* locals of those who are inside.
LEMMA NothingMoved ==
  ASSUME BufferCoherent, UNCHANGED <<ring, history>>,
         \A t \in Threads : pc'[t] = "data" <=> pc[t] = "data",
         \A c \in Consumers : pc[c] = "data" => dataSize'[c] = dataSize[c]
  PROVE  BufferCoherent'
  <1> USE DEF BufferCoherent, ring, history, EndOf, Threads
  <1>1. Records'
    BY SMT DEF Records
  <1>2. Popped'
    BY SMT DEF Popped
  <1>3. Layout'
    BY SMT DEF Layout
  <1>4. Words' /\ TakenInOrder'
    BY SMT DEF Words, TakenInOrder
  <1> QED
    BY <1>1, <1>2, <1>3, <1>4

\* An empty buffer agrees with an empty history.
LEMMA InitCoherent == Aligned /\ Init => BufferCoherent
  <1> SUFFICES ASSUME Aligned, Init PROVE BufferCoherent
    OBVIOUS
  <1> USE BufferAssumption DEF Init, EndOf, Threads, Consumers, Data, Writer, Port
  <1>1. Records
    BY SMT DEF Records
  <1>2. Popped
    BY SMT DEF Popped
  <1>3. Layout
    BY SMT DEF Layout, Place, FirstPart
  <1>4. Words
    BY MultipleBase, SMT DEF Words
  <1>5. TakenInOrder
    BY SMT DEF TakenInOrder
  <1> QED
    BY <1>1, <1>2, <1>3, <1>4, <1>5 DEF BufferCoherent

\* A header is stored.
LEMMA AddHeaderCoherent ==
  ASSUME Aligned, SafeInv, BufferCoherent, AddHeader
  PROVE  BufferCoherent'
  <1> USE BufferAssumption
  <1>0. /\ TypeOK /\ Records /\ Popped /\ Layout /\ Words /\ TakenInOrder
        /\ writeBufferHead \in Cells /\ writeBufferTail \in Cells
        /\ writeBufferCount \in 0 .. BufSize /\ wrote \in Nat /\ Hdr \in Nat \ {0}
        /\ BufSize \in Nat
    BY DEF SafeInv, BufferCoherent, TypeOK
  <1>1. writeBufferCount + Hdr <= BufSize
    BY <1>0, SMT DEF AddHeader, Fits, SafeInv, TypeOK, Threads
  <1>2. writeBufferHead + Hdr <= BufSize
    <2>1. /\ writeBufferHead \in Nat /\ writeBufferHead < BufSize
          /\ Multiple(writeBufferHead) /\ Multiple(BufSize)
      BY <1>0, SMT DEF Words, Aligned, Cells
    <2> QED
      BY <2>1, <1>0, MultipleLess
  <1>3. writeBufferHead' = Place(writeBufferTail, writeBufferCount + Hdr)
    <2>1. writeBufferHead' = Place(writeBufferHead, Hdr)
      BY <1>0, <1>2, AfterHeaderIsPlace DEF AddHeader
    <2>2. Hdr \in 0 .. BufSize
      BY <1>0, <1>1, SMT
    <2> QED
      BY <1>0, <1>1, <2>1, <2>2, PlaceOfPlace DEF Layout
  <1>4. pc[Data] # "data" /\ pc'[Data] = "data"
        /\ \A c \in Consumers : pc'[c] = pc[c] /\ pc[c] # "data" /\ dataSize'[c] = dataSize[c]
    BY <1>0, SMT DEF AddHeader, Goto, SafeInv, MutexHeld, TypeOK, Threads, Consumers,
                     Data, Writer, Port
  <1>5. Records'
    <2>1. EndOf(Len(accepted)) \in Nat
      BY <1>0, HistoryTypes, SMT
    <2>2. wrote' = EndOf(Len(accepted)) + Hdr
      BY <1>0, <1>4, <2>1, SMT DEF Records, AddHeader
    <2> QED
      BY <1>0, <1>4, <2>2, Zenon DEF Records, AddHeader, EndOf
  <1>6. Popped'
    <2>1. wrote' - writeBufferCount' = wrote - writeBufferCount
      BY <1>0, SMT DEF AddHeader
    <2>2. accepted' = accepted /\ taken' = taken
      BY DEF AddHeader
    <2> QED
      BY <1>0, <1>4, <2>1, <2>2, Zenon DEF Popped, EndOf
  <1>7. Layout'
    <2>1. ASSUME NEW i \in 0 .. writeBufferCount' - 1
          PROVE  dataWriteBuffer'[Place(writeBufferTail, i)] = wrote - writeBufferCount + i
      <3>1. i \in 0 .. BufSize - 1 /\ i < writeBufferCount + Hdr
        BY <1>0, <1>1, SMT DEF AddHeader
      <3> DEFINE cell == Place(writeBufferTail, i)
      <3>2. cell \in Cells
        BY <1>0, <3>1, PlaceInCells
      <3>3. Offset(writeBufferHead, cell) =
              IF i < writeBufferCount THEN BufSize - writeBufferCount + i
                                      ELSE i - writeBufferCount
        BY <1>0, <3>1, OffsetOfPlace DEF Layout
      <3>4. dataWriteBuffer'[cell] =
              IF writeBufferHead <= cell /\ cell < writeBufferHead + Hdr
                THEN wrote + (cell - writeBufferHead) ELSE dataWriteBuffer[cell]
        BY <3>2, Zenon DEF AddHeader
      <3>5. CASE i < writeBufferCount
        <4>1. ~(writeBufferHead <= cell /\ cell < writeBufferHead + Hdr)
          BY <1>0, <1>1, <1>2, <3>1, <3>2, <3>3, <3>5, SMT DEF Offset, FirstPart, Cells
        <4>2. dataWriteBuffer[cell] = wrote - writeBufferCount + i
          BY <1>0, <3>1, <3>5, SMT DEF Layout
        <4> QED
          BY <3>4, <4>1, <4>2
      <3>6. CASE ~(i < writeBufferCount)
        <4>1. writeBufferHead <= cell /\ cell - writeBufferHead = i - writeBufferCount
          BY <1>0, <1>1, <1>2, <3>1, <3>2, <3>3, <3>6, SMT DEF Offset, FirstPart, Cells
        <4>2. cell < writeBufferHead + Hdr
          BY <1>0, <3>1, <3>2, <4>1, SMT DEF Cells
        <4> HIDE DEF cell
        <4> QED
          BY <1>0, <3>1, <3>4, <4>1, <4>2, SMT DEF cell
      <3> QED
        BY <3>5, <3>6
    <2>2. wrote' - writeBufferCount' = wrote - writeBufferCount
      BY <1>0, SMT DEF AddHeader
    <2>3. /\ writeBufferTail' = writeBufferTail
          /\ writeBufferCount' = writeBufferCount + Hdr
      BY DEF AddHeader
    <2> QED
      BY <1>3, <2>1, <2>2, <2>3 DEF Layout, Place, FirstPart
  <1>8. Words'
    <2>1. Multiple(AfterHeader(writeBufferHead))
      <3>1. Hdr \in 0 .. BufSize /\ Multiple(writeBufferHead) /\ Multiple(Hdr)
        BY <1>0, <1>1, MultipleBase, SMT DEF Words
      <3> QED
        BY <1>0, <1>2, <3>1, MultiplePlace, AfterHeaderIsPlace
    <2> QED
      BY <1>0, <2>1 DEF Words, AddHeader
  <1>9. TakenInOrder'
    BY <1>0 DEF TakenInOrder, AddHeader
  <1> QED
    BY <1>5, <1>6, <1>7, <1>8, <1>9 DEF BufferCoherent

\* The data is stored behind its header.
LEMMA AddDataCoherent ==
  ASSUME Aligned, SafeInv, BufferCoherent, AddData
  PROVE  BufferCoherent'
  <1> USE BufferAssumption
  <1> DEFINE n == dataSize[Data]
             r == [at |-> wrote - Hdr, size |-> n]
  <1> PICK last \in Nat : last = Len(accepted)
    BY HistoryTypes DEF SafeInv
  <1>0. /\ TypeOK /\ Records /\ Popped /\ Layout /\ Words /\ TakenInOrder
        /\ writeBufferHead \in Cells /\ writeBufferTail \in Cells
        /\ writeBufferCount \in 0 .. BufSize /\ wrote \in Nat /\ Hdr \in Nat \ {0}
        /\ BufSize \in Nat /\ n \in Nat /\ n \in Sizes
        /\ writeBufferCount + n <= BufSize
        /\ last \in Nat
    BY HistoryTypes, SMT DEF SafeInv, BufferCoherent, TypeOK, Room, AddData, Threads
  <1>1. Multiple(n)
    BY <1>0 DEF Aligned
  <1>2. n \in 0 .. BufSize
    BY <1>0, SMT
  <1>3. writeBufferHead' = Place(writeBufferHead, n)
        /\ writeBufferHead' = Place(writeBufferTail, writeBufferCount + n)
    <2>1. writeBufferHead' = Place(writeBufferHead, n)
      BY <1>0, <1>2, AfterIsPlace DEF AddData
    <2> QED
      BY <1>0, <1>2, <2>1, PlaceOfPlace DEF Layout
  <1>4. /\ pc[Data] = "data" /\ pc'[Data] # "data"
        /\ \A c \in Consumers : pc'[c] = pc[c] /\ pc[c] # "data" /\ dataSize'[c] = dataSize[c]
    BY <1>0, SMT DEF AddData, Goto, Forget, SafeInv, MutexHeld, TypeOK, Threads, Consumers,
                     Data, Writer, Port
  <1>5. /\ wrote = EndOf(last) + Hdr
        /\ EndOf(last) \in Nat
        /\ r.at = EndOf(last) /\ r.size = n
        /\ r \in [at : Nat, size : Nat]
    <2>1. wrote = EndOf(last) + Hdr /\ EndOf(last) \in Nat
      BY <1>0, <1>4, HistoryTypes, SMT DEF Records
    <2>2. wrote - Hdr = EndOf(last) /\ wrote - Hdr \in Nat
      BY <1>0, <2>1, SMT
    <2> QED
      BY <1>0, <2>1, <2>2, Zenon
  <1>6. /\ accepted' = Append(accepted, r)
        /\ Len(accepted') = last + 1
        /\ \A k \in 1 .. last : accepted'[k] = accepted[k]
        /\ accepted'[last + 1] = r
    <2>1. accepted' = Append(accepted, r)
      BY DEF AddData
    <2>2. accepted \in Seq([at : Nat, size : Nat])
      BY <1>0 DEF TypeOK
    <2> QED
      BY <1>5, <2>1, <2>2, AppendProperties
  <1>7. /\ \A k \in 0 .. last : EndOf(k)' = EndOf(k)
        /\ EndOf(last + 1)' = wrote + n
        /\ wrote' = wrote + n
    <2>1. \A k \in 0 .. last : EndOf(k)' = EndOf(k)
      BY <1>0, <1>6, SMT DEF EndOf
    <2>2. last + 1 # 0
      BY <1>0, SMT
    <2>3. EndOf(last + 1)' = r.at + Hdr + r.size
      BY <1>6, <2>2, Zenon DEF EndOf
    <2>4. EndOf(last + 1)' = wrote + n
      BY <1>0, <1>5, <2>3, SMT
    <2> QED
      BY <2>1, <2>4 DEF AddData
  <1>8. Records'
    <2>1. ASSUME NEW k \in 1 .. last + 1
          PROVE  accepted'[k].at = EndOf(k - 1)'
      <3>1. k - 1 \in 0 .. last
        BY <1>0, SMT
      <3>2. CASE k \in 1 .. last
        BY <1>0, <1>6, <1>7, <3>1, <3>2, Zenon DEF Records
      <3>3. CASE k = last + 1
        <4>1. k - 1 = last
          BY <1>0, <3>3, SMT
        <4> QED
          BY <1>5, <1>6, <1>7, <3>1, <3>3, <4>1, Zenon
      <3> QED
        BY <1>0, <3>2, <3>3, SMT
    <2>2. ASSUME NEW j \in 1 .. last + 1, NEW k \in 1 .. last + 1, j < k
          PROVE  EndOf(j)' <= accepted'[k].at
      <3>1. j \in 1 .. last /\ j \in 0 .. last
        BY <1>0, <2>2, SMT
      <3>2. CASE k \in 1 .. last
        BY <1>0, <1>6, <1>7, <2>2, <3>1, <3>2, Zenon DEF Records
      <3>3. CASE k = last + 1
        <4>1. EndOf(j) <= EndOf(last)
          <5>1. CASE j = last
            BY <1>5, <5>1, SMT
          <5>2. CASE j < last
            <6>1. last \in 1 .. last
              BY <1>0, <3>1, SMT
            <6>2. EndOf(j) <= accepted[last].at
              BY <1>0, <3>1, <5>2, <6>1, Zenon DEF Records
            <6>3. /\ EndOf(last) = accepted[last].at + Hdr + accepted[last].size
                  /\ accepted[last].at \in Nat /\ accepted[last].size \in Nat
                  /\ EndOf(j) \in Nat
              BY <1>0, <3>1, <6>1, HistoryTypes, SMT DEF EndOf
            <6>4. Hdr \in Nat
              BY <1>0
            <6> QED
              BY <6>2, <6>3, <6>4, SMT
          <5> QED
            BY <1>0, <3>1, <5>1, <5>2, SMT
        <4> QED
          BY <1>5, <1>6, <1>7, <3>1, <3>3, <4>1, Zenon
      <3> QED
        BY <1>0, <3>2, <3>3, SMT
    <2>3. wrote' = EndOf(Len(accepted))' + 0
      <3>1. EndOf(Len(accepted))' = wrote'
        BY <1>6, <1>7, Zenon DEF EndOf
      <3> QED
        BY <1>0, <1>7, <3>1, SMT
    <2> QED
      BY <1>4, <1>6, <2>1, <2>2, <2>3, Zenon DEF Records
  <1>9. Popped'
    <2>1. /\ wrote' - writeBufferCount' = wrote - writeBufferCount
          /\ taken' = taken
      BY <1>0, SMT DEF AddData
    <2>2. Len(taken) \in 0 .. last /\ Len(taken) <= last + 1
      BY <1>0, HistoryTypes, SMT DEF Popped
    <2>3. EndOf(Len(taken))' = EndOf(Len(taken))
      BY <1>7, <2>1, <2>2, Zenon DEF EndOf
    <2> QED
      BY <1>0, <1>4, <1>6, <2>1, <2>2, <2>3, Zenon DEF Popped
  <1>10. Layout'
    <2>1. ASSUME NEW i \in 0 .. writeBufferCount' - 1
          PROVE  dataWriteBuffer'[Place(writeBufferTail, i)] = wrote - writeBufferCount + i
      <3>1. i \in 0 .. BufSize - 1 /\ i < writeBufferCount + n
        BY <1>0, SMT DEF AddData
      <3> DEFINE cell == Place(writeBufferTail, i)
      <3>2. cell \in Cells
        BY <1>0, <3>1, PlaceInCells
      <3>3. Offset(writeBufferHead, cell) =
              IF i < writeBufferCount THEN BufSize - writeBufferCount + i
                                      ELSE i - writeBufferCount
        BY <1>0, <3>1, OffsetOfPlace DEF Layout
      <3>4. dataWriteBuffer'[cell] =
              IF Offset(writeBufferHead, cell) < n
                THEN wrote + Offset(writeBufferHead, cell) ELSE dataWriteBuffer[cell]
        BY <3>2, Zenon DEF AddData
      <3>5. CASE i < writeBufferCount
        <4>1. ~(Offset(writeBufferHead, cell) < n)
          BY <1>0, <3>1, <3>3, <3>5, SMT
        <4>2. dataWriteBuffer[cell] = wrote - writeBufferCount + i
          BY <1>0, <3>1, <3>5, SMT DEF Layout
        <4> QED
          BY <3>4, <4>1, <4>2
      <3>6. CASE ~(i < writeBufferCount)
        <4>1. Offset(writeBufferHead, cell) < n
          BY <1>0, <3>1, <3>3, <3>6, SMT
        <4> HIDE DEF cell
        <4>2. dataWriteBuffer'[cell] = wrote + (i - writeBufferCount)
          BY <3>3, <3>4, <3>6, <4>1
        <4> QED
          BY <1>0, <3>1, <4>2, SMT DEF cell
      <3> QED
        BY <3>5, <3>6
    <2>2. wrote' - writeBufferCount' = wrote - writeBufferCount
      BY <1>0, SMT DEF AddData
    <2>3. /\ writeBufferTail' = writeBufferTail
          /\ writeBufferCount' = writeBufferCount + n
      BY DEF AddData
    <2> QED
      BY <1>3, <2>1, <2>2, <2>3 DEF Layout, Place, FirstPart
  <1>11. Words'
    <2>1. Multiple(Place(writeBufferHead, n))
      BY <1>0, <1>1, <1>2, MultiplePlace DEF Words
    <2>2. writeBufferTail' = writeBufferTail
      BY DEF AddData
    <2>3. \A k \in 1 .. last + 1 : k \in 1 .. last \/ k = last + 1
      BY <1>0, SMT
    <2>4. \A k \in 1 .. last + 1 : Multiple(accepted'[k].size)
      BY <1>0, <1>1, <1>5, <1>6, <2>3, Zenon DEF Words
    <2> QED
      BY <1>0, <1>3, <1>6, <2>1, <2>2, <2>4, Zenon DEF Words, Multiple
  <1>12. TakenInOrder'
    <2>1. ASSUME NEW k \in 1 .. Len(taken)
          PROVE  k <= last + 1 /\ taken[k] = BytesOf(accepted'[k])
      <3>1. k <= last /\ taken[k] = BytesOf(accepted[k])
        BY <1>0 DEF TakenInOrder
      <3>2. k \in 1 .. last
        BY <1>0, <3>1, SMT
      <3>3. accepted'[k] = accepted[k]
        BY <1>6, <3>2
      <3> QED
        BY <1>0, <3>1, <3>2, <3>3, SMT
    <2>2. taken' = taken
      BY DEF AddData
    <2> QED
      BY <1>6, <2>1, <2>2, Zenon DEF TakenInOrder, BytesOf
  <1> QED
    BY <1>8, <1>9, <1>10, <1>11, <1>12 DEF BufferCoherent

\* The next header is popped.
LEMMA TakeHeaderCoherent ==
  ASSUME Aligned, SafeInv, BufferCoherent, NEW c \in Consumers, TakeHeader(c)
  PROVE  BufferCoherent'
  <1> USE BufferAssumption
  <1> PICK m \in Nat : m = Len(taken) + 1
    BY HistoryTypes, SMT DEF SafeInv
  <1>0. /\ TypeOK /\ Records /\ Popped /\ Layout /\ Words /\ TakenInOrder
        /\ writeBufferTail \in Cells
        /\ writeBufferCount \in 0 .. BufSize /\ wrote \in Nat /\ Hdr \in Nat \ {0}
        /\ BufSize \in Nat
        /\ writeBufferCount >= Hdr
        /\ writeBufferMutex = Nobody
    BY DEF SafeInv, BufferCoherent, TypeOK, TakeHeader
  <1>1. /\ Len(taken) < Len(accepted)
        /\ writeBufferTail + Hdr <= BufSize
        /\ HeaderValues(writeBufferTail) = {accepted[m].size}
    <2>1. writeBufferCount > 0
      BY <1>0, SMT
    <2> QED
      BY <1>0, <2>1, NextRecord
  <1>2. writeBufferTail' = Place(writeBufferTail, Hdr)
    BY <1>0, <1>1, AfterHeaderIsPlace DEF TakeHeader
  <1>3. /\ writeBufferHead' = writeBufferHead /\ dataWriteBuffer' = dataWriteBuffer
        /\ writeBufferCount' = writeBufferCount - Hdr
        /\ wrote' = wrote /\ accepted' = accepted /\ taken' = taken
    BY DEF TakeHeader, history
  <1>4. dataSize' = [dataSize EXCEPT ![c] = accepted[m].size]
    BY <1>1, Zenon DEF TakeHeader
  <1>5. /\ \A t \in Threads : pc[t] # "data"
        /\ pc'[c] = "data" /\ dataSize'[c] = accepted[m].size
        /\ \A t \in Threads : t # c => pc'[t] = pc[t]
    BY <1>0, <1>4, SMT DEF TakeHeader, Goto, SafeInv, MutexHeld, TypeOK, Threads, Consumers,
                     Data, Writer, Port
  <1>6. c # Data /\ Data \in Threads /\ Consumers \subseteq Threads
    BY DEF Consumers, Threads, Data, Writer, Port
  <1>7. Records'
    BY <1>0, <1>3, <1>5, <1>6, Zenon DEF Records, EndOf
  <1>8. Popped'
    <2>1. wrote - writeBufferCount = EndOf(Len(taken)) + 0 /\ Len(taken) <= Len(accepted)
      BY <1>0, <1>5, <1>6, SMT DEF Popped
    <2>2. EndOf(Len(taken)) \in Nat
      BY <1>0, <2>1, HistoryTypes, SMT
    <2>3. wrote' - writeBufferCount' = EndOf(Len(taken)) + Hdr
      BY <1>0, <1>3, <2>1, <2>2, SMT
    <2>4. \A d \in Consumers : pc'[d] = "data" => d = c
      BY <1>5, <1>6
    <2>5. /\ \A k : EndOf(k)' = EndOf(k)
          /\ Len(taken') = Len(taken)
          /\ dataSize'[c] = accepted'[Len(taken') + 1].size
      BY <1>3, <1>5 DEF EndOf
    <2> QED
      BY <1>1, <1>3, <1>5, <2>1, <2>3, <2>4, <2>5, Zenon DEF Popped
  <1>9. Layout'
    <2>1. Hdr \in 0 .. BufSize /\ writeBufferCount - Hdr \in 0 .. BufSize
          /\ Hdr + (writeBufferCount - Hdr) = writeBufferCount
      BY <1>0, SMT
    <2>2. writeBufferHead = Place(Place(writeBufferTail, Hdr), writeBufferCount - Hdr)
      BY <1>0, <2>1, PlaceOfPlace DEF Layout
    <2>3. ASSUME NEW i \in 0 .. writeBufferCount - Hdr - 1
          PROVE  dataWriteBuffer[Place(Place(writeBufferTail, Hdr), i)]
                   = wrote - (writeBufferCount - Hdr) + i
      <3>1. i \in 0 .. BufSize /\ Hdr + i <= BufSize /\ Hdr + i \in 0 .. writeBufferCount - 1
        BY <1>0, SMT
      <3>2. Place(Place(writeBufferTail, Hdr), i) = Place(writeBufferTail, Hdr + i)
        BY <1>0, <2>1, <3>1, PlaceOfPlace
      <3>3. dataWriteBuffer[Place(writeBufferTail, Hdr + i)]
              = wrote - writeBufferCount + (Hdr + i)
        BY <1>0, <3>1 DEF Layout
      <3> QED
        BY <1>0, <3>1, <3>2, <3>3, SMT
    <2> QED
      BY <1>2, <1>3, <2>2, <2>3, Zenon DEF Layout, Place, FirstPart
  <1>10. Words'
    <2>1. Hdr \in 0 .. BufSize /\ Multiple(Hdr)
      BY <1>0, MultipleBase, SMT
    <2>2. Multiple(Place(writeBufferTail, Hdr))
      BY <1>0, <2>1, MultiplePlace DEF Words
    <2> QED
      BY <1>0, <1>2, <1>3, <2>2, Zenon DEF Words, Multiple
  <1>11. TakenInOrder'
    BY <1>0, <1>3, Zenon DEF TakenInOrder, BytesOf
  <1> QED
    BY <1>7, <1>8, <1>9, <1>10, <1>11 DEF BufferCoherent

\* The data behind the header is popped.
LEMMA TakeDataCoherent ==
  ASSUME Aligned, SafeInv, BufferCoherent, NEW c \in Consumers, TakeData(c)
  PROVE  BufferCoherent'
  <1> USE BufferAssumption
  <1> PICK m \in Nat : m = Len(taken) + 1
    BY HistoryTypes, SMT DEF SafeInv
  <1> PICK n \in Nat : n = dataSize[c]
    BY SMT DEF SafeInv, TypeOK, Threads
  <1> DEFINE bytes == [j \in 1 .. n |-> dataWriteBuffer[Place(writeBufferTail, j - 1)]]
  <1>0. /\ TypeOK /\ Records /\ Popped /\ Layout /\ Words /\ TakenInOrder
        /\ writeBufferTail \in Cells
        /\ writeBufferCount \in 0 .. BufSize /\ wrote \in Nat /\ Hdr \in Nat \ {0}
        /\ BufSize \in Nat
        /\ n <= writeBufferCount
        /\ pc[c] = "data"
    BY DEF SafeInv, BufferCoherent, TypeOK, TakeData, Room
  <1>1. /\ m \in 1 .. Len(accepted)
        /\ n = accepted[m].size
        /\ accepted[m].at \in Nat
        /\ accepted[m].at = EndOf(m - 1)
        /\ EndOf(m) = accepted[m].at + Hdr + n
        /\ wrote - writeBufferCount = accepted[m].at + Hdr
    <2>1. /\ Len(taken) < Len(accepted)
          /\ n = accepted[m].size
          /\ wrote - writeBufferCount = EndOf(Len(taken)) + Hdr
      BY <1>0 DEF Popped
    <2>2. m \in 1 .. Len(accepted) /\ m - 1 = Len(taken) /\ m # 0
      BY <1>0, <2>1, HistoryTypes, SMT
    <2>3. accepted[m].at \in Nat /\ accepted[m].at = EndOf(m - 1)
      BY <1>0, <2>2, HistoryTypes DEF Records
    <2> QED
      BY <2>1, <2>2, <2>3 DEF EndOf
  <1>2. n \in 0 .. BufSize /\ n \in 0 .. writeBufferCount
    BY <1>0, SMT
  <1>3. writeBufferTail' = Place(writeBufferTail, n)
    BY <1>0, <1>2, AfterIsPlace DEF TakeData
  <1>4. /\ writeBufferHead' = writeBufferHead /\ dataWriteBuffer' = dataWriteBuffer
        /\ writeBufferCount' = writeBufferCount - n
        /\ wrote' = wrote /\ accepted' = accepted
        /\ taken' = Append(taken, bytes)
    BY DEF TakeData
  <1>5. /\ bytes = BytesOf(accepted[m])
    <2>1. ASSUME NEW j \in 1 .. n
          PROVE  dataWriteBuffer[Place(writeBufferTail, j - 1)] = accepted[m].at + Hdr + j - 1
      <3>1. j - 1 \in 0 .. writeBufferCount - 1
        BY <1>0, SMT
      <3>2. dataWriteBuffer[Place(writeBufferTail, j - 1)]
              = wrote - writeBufferCount + (j - 1)
        BY <1>0, <3>1 DEF Layout
      <3> QED
        BY <1>0, <1>1, <3>2, SMT
    <2> QED
      BY <1>1, <2>1, Zenon DEF BytesOf
  <1>6. /\ Len(taken') = m
        /\ \A k \in 1 .. Len(taken) : taken'[k] = taken[k]
        /\ taken'[m] = BytesOf(accepted[m])
    <2>2. taken \in Seq(Seq(Nat \cup {NoByte}))
      BY <1>0 DEF TypeOK
    <2>3. taken' = Append(taken, BytesOf(accepted[m]))
      BY <1>4, <1>5
    <2>4. /\ Len(taken') = Len(taken) + 1
          /\ \A k \in 1 .. Len(taken) : taken'[k] = taken[k]
          /\ taken'[Len(taken) + 1] = BytesOf(accepted[m])
      BY <2>2, <2>3, SMT
    <2>5. Len(taken) + 1 = m
      OBVIOUS
    <2> HIDE DEF bytes
    <2> QED
      BY <2>4, <2>5, Zenon
  <1>7. /\ \A t \in Threads : pc'[t] # "data"
        /\ pc[Data] # "data"
    BY <1>0, SMT DEF TakeData, Goto, SafeInv, MutexHeld, TypeOK, Threads, Consumers,
                     Data, Writer, Port
  <1>8. Data \in Threads /\ Consumers \subseteq Threads
    BY DEF Consumers, Threads
  <1>9. Records'
    BY <1>0, <1>4, <1>7, <1>8, Zenon DEF Records, EndOf
  <1>10. Popped'
    <2>1. wrote' - writeBufferCount' = EndOf(m) + 0
      BY <1>0, <1>1, <1>2, <1>4, SMT
    <2>2. EndOf(Len(taken))' = EndOf(m)
      BY <1>4, <1>6, Zenon DEF EndOf
    <2>3. m <= Len(accepted)
      BY <1>0, <1>1, HistoryTypes, SMT
    <2> QED
      BY <1>4, <1>6, <1>7, <1>8, <2>1, <2>2, <2>3, Zenon DEF Popped
  <1>11. Layout'
    <2>1. writeBufferCount - n \in 0 .. BufSize /\ n + (writeBufferCount - n) = writeBufferCount
      BY <1>0, SMT
    <2>2. writeBufferHead = Place(Place(writeBufferTail, n), writeBufferCount - n)
      BY <1>0, <1>2, <2>1, PlaceOfPlace DEF Layout
    <2>3. ASSUME NEW i \in 0 .. writeBufferCount - n - 1
          PROVE  dataWriteBuffer[Place(Place(writeBufferTail, n), i)]
                   = wrote - (writeBufferCount - n) + i
      <3>1. i \in 0 .. BufSize /\ n + i <= BufSize /\ n + i \in 0 .. writeBufferCount - 1
        BY <1>0, SMT
      <3>2. Place(Place(writeBufferTail, n), i) = Place(writeBufferTail, n + i)
        BY <1>0, <1>2, <3>1, PlaceOfPlace
      <3>3. dataWriteBuffer[Place(writeBufferTail, n + i)]
              = wrote - writeBufferCount + (n + i)
        BY <1>0, <3>1 DEF Layout
      <3> QED
        BY <1>0, <3>1, <3>2, <3>3, SMT
    <2> QED
      BY <1>3, <1>4, <2>2, <2>3, Zenon DEF Layout, Place, FirstPart
  <1>12. Words'
    <2>1. Multiple(Place(writeBufferTail, n))
      BY <1>0, <1>1, <1>2, MultiplePlace DEF Words
    <2> QED
      BY <1>0, <1>3, <1>4, <2>1, Zenon DEF Words, Multiple
  <1>13. TakenInOrder'
    <2>1. ASSUME NEW k \in 1 .. m
          PROVE  k <= Len(accepted) /\ taken'[k] = BytesOf(accepted[k])
      <3>1. k \in 1 .. Len(taken) \/ k = m
        BY <1>0, HistoryTypes, SMT
      <3>2. m <= Len(accepted)
        BY <1>0, <1>1, HistoryTypes, SMT
      <3> QED
        BY <1>0, <1>6, <3>1, <3>2, Zenon DEF TakenInOrder
    <2>2. accepted' = accepted /\ Len(taken') = m
      BY <1>4, <1>6
    <2> HIDE DEF bytes
    <2> QED
      BY <2>1, <2>2, SMT DEF TakenInOrder, BytesOf
  <1> QED
    BY <1>9, <1>10, <1>11, <1>12, <1>13 DEF BufferCoherent

\* Every step keeps the bytes, the count and the history in agreement.
LEMMA NextCoherent ==
  ASSUME Aligned
  PROVE  SafeInv /\ BufferCoherent /\ [Next]_vars => BufferCoherent'
  <1> SUFFICES ASSUME SafeInv, BufferCoherent, [Next]_vars PROVE BufferCoherent'
    OBVIOUS
  <1>0. /\ pc \in [Threads -> {"recv", "add", "data", "signal", "stopped",
                               "wait", "test", "lock", "write", "idle"}]
        /\ dataSize \in [Threads -> Nat]
        /\ Data # Writer /\ Data # Port /\ Writer # Port
    BY SMT DEF SafeInv, TypeOK, Data, Writer, Port
  <1> USE DEF Threads, Consumers, Goto, Forget
  <1>1. ASSUME NEW n \in Sizes, Receive(n) PROVE BufferCoherent'
    BY <1>0, <1>1, NothingMoved, SMT DEF Receive
  <1>2. ASSUME DataStopped PROVE BufferCoherent'
    BY <1>0, <1>2, NothingMoved, SMT DEF DataStopped
  <1>3. ASSUME AddRefused PROVE BufferCoherent'
    BY <1>0, <1>3, NothingMoved, SMT DEF AddRefused
  <1>4. ASSUME AddHeader PROVE BufferCoherent'
    BY <1>4, AddHeaderCoherent
  <1>5. ASSUME AddData PROVE BufferCoherent'
    BY <1>5, AddDataCoherent
  <1>6. ASSUME AddSignal PROVE BufferCoherent'
    BY <1>0, <1>6, NothingMoved, SMT DEF AddSignal
  <1>7. ASSUME Wake PROVE BufferCoherent'
    BY <1>0, <1>7, NothingMoved, SMT DEF Wake
  <1>8. ASSUME StartFlush PROVE BufferCoherent'
    BY <1>0, <1>8, NothingMoved, SMT DEF StartFlush
  <1>9. ASSUME NEW c \in Consumers, Test(c) PROVE BufferCoherent'
    BY <1>0, <1>9, NothingMoved, SMT DEF Test, LoopExit
  <1>10. ASSUME NEW c \in Consumers, TakeNothing(c) PROVE BufferCoherent'
    <2>1. writeBufferCount = 0
      <3>1. ~(writeBufferCount > 0)
        <4> SUFFICES ASSUME writeBufferCount > 0 PROVE FALSE
          OBVIOUS
        <4>1. /\ Len(taken) < Len(accepted)
              /\ writeBufferCount >= Hdr + accepted[Len(taken) + 1].size
              /\ writeBufferCount < Hdr
          BY <1>10, NextRecord DEF TakeNothing
        <4>2. Len(taken) + 1 \in 1 .. Len(accepted)
          BY <4>1, HistoryTypes, SMT DEF SafeInv
        <4>3. accepted[Len(taken) + 1].size \in Nat
          BY <4>2, HistoryTypes DEF SafeInv
        <4>4. writeBufferCount \in Nat
          BY BufferAssumption, SMT DEF SafeInv, TypeOK
        <4> QED
          BY <4>1, <4>3, <4>4, BufferAssumption, SMT
      <3> QED
        BY <3>1, BufferAssumption, SMT DEF SafeInv, TypeOK
    <2>2. UNCHANGED <<ring, history>>
      BY <1>10, <2>1 DEF TakeNothing, ring
    <2> QED
      BY <1>0, <1>10, <2>2, NothingMoved, SMT DEF TakeNothing, LoopExit
  <1>11. ASSUME NEW c \in Consumers, TakeCorrupt(c) PROVE FALSE
    <2>1. /\ writeBufferMutex = Nobody
          /\ writeBufferCount >= Hdr
          /\ \E n \in HeaderValues(writeBufferTail) : writeBufferCount - Hdr < n
      BY <1>11 DEF TakeCorrupt
    <2>2. writeBufferCount > 0
      BY <2>1, BufferAssumption, SMT DEF SafeInv, TypeOK
    <2>3. /\ Len(taken) < Len(accepted)
          /\ HeaderValues(writeBufferTail) = {accepted[Len(taken) + 1].size}
          /\ writeBufferCount >= Hdr + accepted[Len(taken) + 1].size
      BY <2>1, <2>2, NextRecord
    <2>4. writeBufferCount - Hdr < accepted[Len(taken) + 1].size
      BY <2>1, <2>3, Zenon
    <2>5. Len(taken) + 1 \in 1 .. Len(accepted)
      BY <2>3, HistoryTypes, SMT DEF SafeInv
    <2>6. accepted[Len(taken) + 1].size \in Nat
      BY <2>5, HistoryTypes DEF SafeInv
    <2>7. writeBufferCount \in Nat
      BY BufferAssumption, SMT DEF SafeInv, TypeOK
    <2> QED
      BY <2>3, <2>4, <2>6, <2>7, BufferAssumption, SMT
  <1>12. ASSUME NEW c \in Consumers, TakeHeader(c) PROVE BufferCoherent'
    BY <1>12, TakeHeaderCoherent
  <1>13. ASSUME NEW c \in Consumers, TakeData(c) PROVE BufferCoherent'
    BY <1>13, TakeDataCoherent
  <1>14. ASSUME NEW c \in Consumers, Written(c) PROVE BufferCoherent'
    BY <1>0, <1>14, NothingMoved, SMT DEF Written
  <1>15. ASSUME StopThreads PROVE BufferCoherent'
    BY <1>0, <1>15, NothingMoved, SMT DEF StopThreads
  <1>16. ASSUME UNCHANGED vars PROVE BufferCoherent'
    BY <1>0, <1>16, NothingMoved, SMT DEF vars, ring, history
  <1> QED
    BY <1>1, <1>2, <1>3, <1>4, <1>5, <1>6, <1>7, <1>8, <1>9, <1>10, <1>11, <1>12, <1>13,
       <1>14, <1>15, <1>16, Zenon DEF Next, Produce, Consume

\* The records, the count, the cells and the popped buffers always agree.
THEOREM Coherent ==
  ASSUME Aligned
  PROVE  Spec => []BufferCoherent
  BY SafeAlways, InitCoherent, NextCoherent, PTL DEF Spec

\* Every packet is delivered at most once, whole, unchanged and in order, whatever
\* the sizes and however the three threads interleave.
THEOREM Delivery ==
  ASSUME Aligned
  PROVE  Spec => []TakenInOrder
  BY Coherent, PTL DEF BufferCoherent

\* No consumer ever reports "Corrupted buffer state" (dataWriteThread,
\* flushWriteBuffer): under the mutex a header is there whole, and all its data.
THEOREM NoCorruption ==
  ASSUME Aligned
  PROVE  Spec => []NeverCorrupt
<1>1. SafeInv /\ BufferCoherent => NeverCorrupt
  <2> SUFFICES ASSUME SafeInv, BufferCoherent, NEW c \in Consumers,
                      writeBufferMutex = Nobody, writeBufferCount > 0
               PROVE  /\ writeBufferCount >= Hdr
                      /\ \A n \in HeaderValues(writeBufferTail) : n <= writeBufferCount - Hdr
    BY Zenon DEF NeverCorrupt
  <2>1. /\ Len(taken) < Len(accepted)
        /\ HeaderValues(writeBufferTail) = {accepted[Len(taken) + 1].size}
        /\ writeBufferCount >= Hdr + accepted[Len(taken) + 1].size
    BY NextRecord
  <2>2. Len(taken) + 1 \in 1 .. Len(accepted)
    BY <2>1, HistoryTypes, SMT DEF SafeInv
  <2>3. accepted[Len(taken) + 1].size \in Nat
    BY <2>2, HistoryTypes DEF SafeInv
  <2>4. writeBufferCount \in Nat
    BY BufferAssumption, SMT DEF SafeInv, TypeOK
  <2> QED
    BY <2>1, <2>3, <2>4, BufferAssumption, SMT
<1> QED
  BY <1>1, SafeAlways, Coherent, PTL
=============================================================================
