----------------------- MODULE WriteBufferRefinement ------------------------
(***************************************************************************)
(* The circular buffer implements the queue of module PacketFifo, for      *)
(* every size of the buffer, of the header and of the packets, as long as  *)
(* headers do not straddle the end of the buffer.                          *)
(***************************************************************************)
EXTENDS WriteBufferProofs

\* What was accepted and not yet popped: the queue of the refinement mapping.
Queue == [k \in 1 .. Len(accepted) - Len(taken) |-> BytesOf(accepted[Len(taken) + k])]

\* The packet that is being stored keeps the stream within its bound.
WithinStream ==
  /\ pc[Data] = "add" => wrote + Hdr + dataSize[Data] <= MaxStream
  /\ pc[Data] = "data" => wrote + dataSize[Data] <= MaxStream

\* A function on 1 to m is a sequence of m elements.
LEMMA SequenceOf ==
  ASSUME NEW S, NEW m \in Nat, NEW s \in [1 .. m -> S]
  PROVE  s \in Seq(S) /\ Len(s) = m
<1>1. s \in Seq(S)
  BY SeqDef, Zenon
<1>2. Len(s) \in Nat /\ 1 .. Len(s) = 1 .. m
  BY <1>1, LenProperties, Zenon
<1> QED
  BY <1>1, <1>2, SMT

\* The record that ends at w takes its header and its data, which the space check saw.
LEMMA RecordFits ==
  ASSUME NEW w \in Nat, NEW h \in Nat, NEW c \in Nat, NEW z \in Nat, NEW size \in Nat,
         z + c <= size
  PROVE  /\ (w + c) - (w - z) = ((w - h) - (w - z)) + (h + c)
         /\ ((w - h) - (w - z)) + (h + c) <= size
  OBVIOUS

-----------------------------------------------------------------------------
\* The bytes of a record are as many as its size says.
LEMMA BytesType ==
  ASSUME NEW r \in [at : Nat, size : Nat]
  PROVE  BytesOf(r) \in Seq(Nat) /\ Len(BytesOf(r)) = r.size
<1>1. r.at \in Nat /\ r.size \in Nat
  OBVIOUS
<1>2. \A j \in 1 .. r.size : r.at + Hdr + j - 1 \in Nat
  BY <1>1, BufferAssumption, SMT
<1>3. BytesOf(r) \in [1 .. r.size -> Nat]
  BY <1>2, Zenon DEF BytesOf
<1> QED
  BY <1>1, <1>3, SequenceOf, Zenon

\* The queue holds packets, and its length is the difference of the histories'.
LEMMA QueueType ==
  ASSUME TypeOK, Len(taken) <= Len(accepted)
  PROVE  /\ Queue \in Seq(Seq(Nat))
         /\ Len(Queue) = Len(accepted) - Len(taken)
         /\ \A k \in 1 .. Len(accepted) - Len(taken) :
              Queue[k] = BytesOf(accepted[Len(taken) + k])
<1>1. Len(accepted) - Len(taken) \in Nat
  BY HistoryTypes, SMT
<1>2. ASSUME NEW k \in 1 .. Len(accepted) - Len(taken)
      PROVE  BytesOf(accepted[Len(taken) + k]) \in Seq(Nat)
  <2>1. Len(taken) + k \in 1 .. Len(accepted)
    BY <1>1, HistoryTypes, SMT
  <2> QED
    BY <2>1, HistoryTypes, BytesType
<1>3. Queue \in [1 .. Len(accepted) - Len(taken) -> Seq(Nat)]
  BY <1>2, Zenon DEF Queue
<1> HIDE DEF Queue
<1>4. Queue \in Seq(Seq(Nat)) /\ Len(Queue) = Len(accepted) - Len(taken)
  <2> DEFINE n == Len(accepted) - Len(taken)
  <2>1. n \in Nat /\ Queue \in [1 .. n -> Seq(Nat)]
    BY <1>1, <1>3
  <2> HIDE DEF n
  <2>2. Queue \in Seq(Seq(Nat)) /\ Len(Queue) = n
    BY <2>1, SequenceOf, Zenon
  <2> QED
    BY <2>2 DEF n
<1> QED
  BY <1>4, Zenon DEF Queue

-----------------------------------------------------------------------------
\* Receive checks the bound for the packet and its header, AddHeader uses up the
\* header's part.
LEMMA StreamStep == SafeInv /\ WithinStream /\ [Next]_vars => WithinStream'
<1> SUFFICES ASSUME SafeInv, WithinStream, [Next]_vars PROVE WithinStream'
  OBVIOUS
<1>0. /\ pc \in [Threads -> {"recv", "add", "data", "signal", "stopped",
                             "wait", "test", "lock", "write", "idle"}]
      /\ dataSize \in [Threads -> Nat] /\ wrote \in Nat /\ Hdr \in Nat /\ MaxStream \in Nat
  BY BufferAssumption DEF SafeInv, TypeOK
<1> USE <1>0 DEF WithinStream, Threads, Consumers, Data, Writer, Port, Goto, Forget, history
<1>1. ASSUME NEW n \in Sizes, Receive(n) PROVE WithinStream'
  BY <1>1, BufferAssumption, SMT DEF Receive
<1>2. ASSUME DataStopped \/ AddRefused \/ AddSignal PROVE WithinStream'
  BY <1>2, SMT DEF DataStopped, AddRefused, AddSignal
<1>3. ASSUME AddHeader PROVE WithinStream'
  BY <1>3, SMT DEF AddHeader
<1>4. ASSUME AddData PROVE WithinStream'
  BY <1>4, SMT DEF AddData
<1>5. ASSUME Wake \/ StartFlush \/ StopThreads PROVE WithinStream'
  BY <1>5, SMT DEF Wake, StartFlush, StopThreads
<1>6. ASSUME NEW c \in Consumers, Consume(c) PROVE WithinStream'
  <2>1. wrote' = wrote /\ pc'[Data] = pc[Data] /\ dataSize'[Data] = dataSize[Data]
    <3>1. CASE Test(c) \/ TakeNothing(c) \/ TakeCorrupt(c) \/ Written(c)
      BY <3>1, SMT DEF Test, TakeNothing, TakeCorrupt, Written
    <3>2. CASE TakeHeader(c) \/ TakeData(c)
      BY <3>2, SMT DEF TakeHeader, TakeData
    <3> QED
      BY <1>6, <3>1, <3>2, Zenon DEF Consume
  <2> QED
    BY <2>1
<1>7. ASSUME UNCHANGED vars PROVE WithinStream'
  BY <1>7 DEF vars
<1> QED
  BY <1>1, <1>2, <1>3, <1>4, <1>5, <1>6, <1>7, Zenon DEF Next, Produce

\* At first nothing is promised.
LEMMA StreamInit == Init => WithinStream
  BY DEF Init, WithinStream, Threads, Data, Writer

\* The data thread never stores more than its bound, header and data together.
LEMMA StreamAlways == Spec => []WithinStream
  BY StreamInit, StreamStep, SafeAlways, PTL DEF Spec

-----------------------------------------------------------------------------
(* The refinement mapping: queue is Queue, used its bytes, handed is taken. *)

Used == EndOf(Len(accepted)) - EndOf(Len(taken))

\* The steps of the queue, in terms of the circular buffer.
Puts(p) ==
  /\ Used + (Hdr + Len(p)) <= BufSize
  /\ Queue' = Append(Queue, p)
  /\ Used' = Used + (Hdr + Len(p))
  /\ taken' = taken

Takes ==
  /\ Queue # <<>>
  /\ taken' = Append(taken, Head(Queue))
  /\ Queue' = Tail(Queue)
  /\ Used' = Used - (Hdr + Len(Head(Queue)))

\* The end of the record that was just stored, and what the ends are.
LEMMA EndOfNext ==
  ASSUME TypeOK, NEW k \in 1 .. Len(accepted)
  PROVE  /\ EndOf(k) = accepted[k].at + Hdr + accepted[k].size
         /\ EndOf(k) \in Nat
<1>1. k # 0 /\ k \in 0 .. Len(accepted)
  BY HistoryTypes, SMT
<1> QED
  BY <1>1, HistoryTypes DEF EndOf

\* A sequence that goes on with one more element.
LEMMA AppendShape ==
  ASSUME NEW S, NEW s \in Seq(S), NEW t \in Seq(S), NEW e \in S,
         Len(t) = Len(s) + 1,
         \A k \in 1 .. Len(s) : t[k] = s[k],
         t[Len(s) + 1] = e
  PROVE  t = Append(s, e)
<1>1. /\ Append(s, e) \in Seq(S) /\ Len(Append(s, e)) = Len(s) + 1
      /\ \A k \in 1 .. Len(s) : Append(s, e)[k] = s[k]
      /\ Append(s, e)[Len(s) + 1] = e
  BY AppendProperties
<1>2. \A k \in 1 .. Len(s) + 1 : k \in 1 .. Len(s) \/ k = Len(s) + 1
  BY LenProperties, SMT
<1>3. \A k \in 1 .. Len(t) : t[k] = Append(s, e)[k]
  BY <1>1, <1>2
<1> QED
  BY <1>1, <1>3, SeqEqual

\* Storing the data of a packet appends it to the queue.
LEMMA StoreIsPut ==
  ASSUME Aligned, SafeInv, BufferCoherent, WithinStream, AddData
  PROVE  \E n \in Sizes, s \in 0 .. MaxStream : Puts([j \in 1 .. n |-> s + j - 1])
<1> PICK last \in Nat : last = Len(accepted)
  BY HistoryTypes DEF SafeInv
<1> PICK first \in Nat : first = Len(taken)
  BY HistoryTypes DEF SafeInv
<1> PICK n \in Nat : n = dataSize[Data]
  BY SMT DEF SafeInv, TypeOK, Threads
<1> PICK at \in Nat : at = wrote
  BY DEF SafeInv, TypeOK
<1> DEFINE r == [at |-> at - Hdr, size |-> n]
           p == [j \in 1 .. n |-> at + j - 1]
<1>1. /\ TypeOK /\ TypeOK' /\ BufferCoherent'
      /\ n \in Sizes /\ n \in Nat /\ wrote \in Nat /\ Hdr \in Nat /\ BufSize \in Nat
      /\ MaxStream \in Nat /\ writeBufferCount \in Nat
      /\ writeBufferCount + n <= BufSize /\ wrote >= Hdr
      /\ wrote + n <= MaxStream
      /\ last \in Nat /\ first \in Nat /\ first <= last
  <2>1. SafeInv'
    BY NextSafe, Zenon DEF Next, Produce
  <2>2. TypeOK /\ TypeOK' /\ BufferCoherent'
    BY <2>1, AddDataCoherent DEF SafeInv
  <2>3. pc[Data] = "data"
    BY DEF AddData
  <2>4. /\ n \in Sizes /\ writeBufferCount + n <= BufSize /\ wrote >= Hdr
        /\ wrote + n <= MaxStream
    BY <2>3, SMT DEF SafeInv, Room, WithinStream
  <2>5. /\ wrote \in Nat /\ Hdr \in Nat /\ BufSize \in Nat /\ MaxStream \in Nat
        /\ writeBufferCount \in Nat
    BY <2>2, BufferAssumption, SMT DEF TypeOK
  <2>6. first <= last
    BY DEF BufferCoherent, Popped
  <2> QED
    BY <2>2, <2>4, <2>5, <2>6
<1>2. /\ EndOf(last) = wrote - Hdr /\ EndOf(last) \in Nat
      /\ EndOf(first) = wrote - writeBufferCount /\ EndOf(first) \in Nat
  <2>1. pc[Data] = "data" /\ \A c \in Consumers : pc[c] # "data"
    BY SMT DEF AddData, SafeInv, MutexHeld, Threads, Consumers, Data, Writer, Port
  <2>2. EndOf(last) \in Nat /\ EndOf(first) \in Nat
    BY <1>1, HistoryTypes, SMT
  <2>3. wrote = EndOf(last) + Hdr
    BY <2>1 DEF BufferCoherent, Records
  <2>4. wrote - writeBufferCount = EndOf(first) + 0
    BY <2>1, Zenon DEF BufferCoherent, Popped
  <2> QED
    BY <1>1, <2>2, <2>3, <2>4, SMT
<1>3. r \in [at : Nat, size : Nat] /\ r.at = at - Hdr /\ r.size = n
  <2>1. at - Hdr \in Nat
    BY <1>1, SMT
  <2> QED
    BY <1>1, <2>1, Zenon
<1>4. BytesOf(r) = p
  <2>1. \A j \in 1 .. n : (at - Hdr) + Hdr + j - 1 = at + j - 1
    BY <1>1, SMT
  <2> QED
    BY <1>3, <2>1, Zenon DEF BytesOf
<1>5. p \in Seq(Nat) /\ Len(p) = n
  BY <1>3, <1>4, BytesType
<1>6. /\ taken' = taken
      /\ accepted' = Append(accepted, r)
      /\ Len(accepted') = last + 1
      /\ \A k \in 1 .. last : accepted'[k] = accepted[k]
      /\ accepted'[last + 1] = r
  <2>1. accepted' = Append(accepted, r) /\ taken' = taken
    BY DEF AddData
  <2>2. accepted \in Seq([at : Nat, size : Nat])
    BY <1>1 DEF TypeOK
  <2> QED
    BY <1>3, <2>1, <2>2, AppendProperties
<1>7. Used' = Used + (Hdr + n) /\ Used + (Hdr + n) <= BufSize
  <2>1. EndOf(last + 1)' = wrote + n
    <3>1. last + 1 # 0
      BY <1>1, SMT
    <3>2. EndOf(last + 1)' = (at - Hdr) + Hdr + n
      BY <1>3, <1>6, <3>1 DEF EndOf
    <3> QED
      BY <1>1, <3>2, SMT
  <2>2. EndOf(first)' = EndOf(first)
    <3>1. first = 0 \/ first \in 1 .. last
      BY <1>1, SMT
    <3> QED
      BY <1>6, <3>1, Zenon DEF EndOf
  <2>3. Used' = (wrote + n) - EndOf(first)
    BY <1>6, <2>1, <2>2, Zenon DEF Used, EndOf
  <2>4. Used = EndOf(last) - EndOf(first)
    BY DEF Used
  <2>5. /\ wrote \in Nat /\ Hdr \in Nat /\ n \in Nat /\ writeBufferCount \in Nat
        /\ BufSize \in Nat /\ writeBufferCount + n <= BufSize
    BY <1>1, Zenon
  <2>6. /\ (wrote + n) - (wrote - writeBufferCount)
             = ((wrote - Hdr) - (wrote - writeBufferCount)) + (Hdr + n)
        /\ ((wrote - Hdr) - (wrote - writeBufferCount)) + (Hdr + n) <= BufSize
    BY <2>5, RecordFits
  <2> QED
    BY <1>2, <2>3, <2>4, <2>6, Zenon
<1>8. Queue' = Append(Queue, p)
  <2>1. /\ Queue \in Seq(Seq(Nat)) /\ Len(Queue) = last - first
        /\ \A k \in 1 .. last - first : Queue[k] = BytesOf(accepted[first + k])
    BY <1>1, QueueType
  <2>2. /\ Queue' \in Seq(Seq(Nat)) /\ Len(Queue') = last + 1 - first
        /\ \A k \in 1 .. last + 1 - first : Queue'[k] = BytesOf(accepted'[first + k])
    <3>1. Queue' = [k \in 1 .. last + 1 - first |-> BytesOf(accepted'[first + k])]
      <4>1. Len(accepted') = last + 1 /\ Len(taken') = first
        BY <1>6
      <4> QED
        BY <4>1 DEF Queue, BytesOf
    <3>2. ASSUME NEW k \in 1 .. last + 1 - first
          PROVE  BytesOf(accepted'[first + k]) \in Seq(Nat)
      <4>1. first + k \in 1 .. last + 1
        BY <1>1, SMT
      <4>2. accepted'[first + k] \in [at : Nat, size : Nat]
        <5>1. accepted' \in Seq([at : Nat, size : Nat])
          BY <1>1 DEF TypeOK
        <5> QED
          BY <1>6, <4>1, <5>1, ElementOfSeq
      <4> QED
        BY <4>2, BytesType
    <3> DEFINE m == last + 1 - first
    <3>3. m \in Nat
      BY <1>1, SMT
    <3>4. Queue' \in [1 .. m -> Seq(Nat)]
      BY <3>1, <3>2, Zenon
    <3> HIDE DEF m
    <3>5. Queue' \in Seq(Seq(Nat)) /\ Len(Queue') = m
      BY <3>3, <3>4, SequenceOf, Zenon
    <3> QED
      BY <3>1, <3>5, Zenon DEF m
  <2>3. /\ \A k \in 1 .. last - first : first + k \in 1 .. last /\ k \in 1 .. last + 1 - first
        /\ first + ((last - first) + 1) = last + 1
        /\ (last - first) + 1 = last + 1 - first
        /\ (last - first) + 1 \in 1 .. last + 1 - first
    BY <1>1, SMT
  <2>4. ASSUME NEW k \in 1 .. last - first PROVE Queue'[k] = Queue[k]
    <3>1. accepted'[first + k] = accepted[first + k]
      BY <1>6, <2>3
    <3>2. Queue'[k] = BytesOf(accepted'[first + k])
      BY <2>2, <2>3
    <3> QED
      BY <2>1, <3>1, <3>2
  <2>5. Queue'[(last - first) + 1] = p
    <3>1. Queue'[(last - first) + 1] = BytesOf(accepted'[first + ((last - first) + 1)])
      BY <2>2, <2>3
    <3> QED
      BY <1>4, <1>6, <2>3, <3>1
  <2> HIDE DEF p
  <2>6. /\ Len(Queue') = Len(Queue) + 1
        /\ \A k \in 1 .. Len(Queue) : Queue'[k] = Queue[k]
        /\ Queue'[Len(Queue) + 1] = p
    BY <2>1, <2>2, <2>3, <2>4, <2>5, Zenon
  <2>7. Queue \in Seq(Seq(Nat)) /\ Queue' \in Seq(Seq(Nat)) /\ p \in Seq(Nat)
    BY <1>5, <2>1, <2>2
  <2> QED
    BY <2>6, <2>7, AppendShape, Zenon
<1>9. Puts(p)
  BY <1>5, <1>6, <1>7, <1>8 DEF Puts
<1>10. at \in 0 .. MaxStream
  BY <1>1, SMT
<1> QED
  BY <1>1, <1>9, <1>10, Zenon

\* A sequence without its first element.
LEMMA TailShape ==
  ASSUME NEW S, NEW s \in Seq(S), NEW t \in Seq(S), s # <<>>,
         Len(t) = Len(s) - 1,
         \A k \in 1 .. Len(t) : t[k] = s[k + 1]
  PROVE  t = Tail(s)
<1>1. /\ Tail(s) \in Seq(S) /\ Len(Tail(s)) = Len(s) - 1
      /\ \A k \in 1 .. Len(Tail(s)) : Tail(s)[k] = s[k + 1]
  BY HeadTailProperties
<1> QED
  BY <1>1, SeqEqual

\* Popping the data of a record takes the packet that was longest in the queue.
LEMMA PopIsTake ==
  ASSUME Aligned, SafeInv, BufferCoherent, NEW c \in Consumers, TakeData(c)
  PROVE  Takes
<1> PICK last \in Nat : last = Len(accepted)
  BY HistoryTypes DEF SafeInv
<1> PICK first \in Nat : first = Len(taken)
  BY HistoryTypes DEF SafeInv
<1> DEFINE bytes == [j \in 1 .. dataSize[c] |-> dataWriteBuffer[Place(writeBufferTail, j - 1)]]
<1>1. TypeOK /\ TypeOK' /\ BufferCoherent'
  <2>1. SafeInv'
    BY NextSafe, Zenon DEF Next, Consume
  <2> QED
    BY <2>1, TakeDataCoherent DEF SafeInv
<1>2. /\ first < last
      /\ first + 1 \in 1 .. last
      /\ last - first \in Nat /\ 1 \in 1 .. last - first
  <2>1. first < last
    BY DEF TakeData, BufferCoherent, Popped
  <2> QED
    BY <2>1, SMT
<1>3. accepted' = accepted /\ taken' = Append(taken, bytes)
  BY DEF TakeData
<1> PICK r \in [at : Nat, size : Nat] : r = accepted[first + 1]
  BY <1>1, <1>2, HistoryTypes
<1>4. /\ Len(taken') = first + 1
      /\ bytes = BytesOf(r)
  <2>1. taken' \in Seq(Seq(Nat \cup {NoByte})) /\ taken \in Seq(Seq(Nat \cup {NoByte}))
    BY <1>1 DEF TypeOK
  <2>2. Len(taken') = first + 1 /\ taken'[first + 1] = bytes
    BY <1>3, <2>1, SMT
  <2>3. first + 1 \in 1 .. Len(taken')
    BY <2>2, SMT
  <2>4. taken'[first + 1] = BytesOf(accepted[first + 1])
    BY <1>1, <1>3, <2>3, Zenon DEF BufferCoherent, TakenInOrder, BytesOf
  <2> QED
    BY <2>2, <2>4, Zenon
<1>5. /\ Queue \in Seq(Seq(Nat)) /\ Len(Queue) = last - first
      /\ \A k \in 1 .. last - first : Queue[k] = BytesOf(accepted[first + k])
  <2>1. Len(taken) <= Len(accepted)
    BY <1>2, SMT
  <2> QED
    BY <1>1, <2>1, QueueType
<1>6. Queue # <<>> /\ Head(Queue) = BytesOf(r)
  <2>1. Queue # <<>>
    BY <1>2, <1>5, EmptySeq, SMT
  <2>2. Queue[1] = BytesOf(r)
    BY <1>2, <1>5, SMT
  <2>3. Head(Queue) = Queue[1]
    BY <1>5, <2>1, SMT
  <2> QED
    BY <2>1, <2>2, <2>3
<1>7. Queue' = Tail(Queue)
  <2> DEFINE m == last - first - 1
  <2>1. /\ m \in Nat /\ last - (first + 1) = m /\ m = (last - first) - 1
        /\ \A k \in 1 .. m : /\ first + 1 + k \in 1 .. last
                             /\ k + 1 \in 1 .. last - first
                             /\ first + (k + 1) = first + 1 + k
    BY <1>2, SMT
  <2> HIDE DEF m
  <2>2. Queue' = [k \in 1 .. m |-> BytesOf(accepted[first + 1 + k])]
    BY <1>3, <1>4, <2>1, Zenon DEF Queue, BytesOf
  <2>3. ASSUME NEW k \in 1 .. m PROVE BytesOf(accepted[first + 1 + k]) \in Seq(Nat)
    <3>1. accepted[first + 1 + k] \in [at : Nat, size : Nat]
      BY <1>1, <2>1, HistoryTypes
    <3> QED
      BY <3>1, BytesType
  <2>4. Queue' \in [1 .. m -> Seq(Nat)]
    BY <2>2, <2>3, Zenon
  <2>5. Queue' \in Seq(Seq(Nat)) /\ Len(Queue') = m
    <3>1. m \in Nat
      BY <2>1
    <3> QED
      BY <2>4, <3>1, SequenceOf, Zenon
  <2>6. ASSUME NEW k \in 1 .. m PROVE Queue'[k] = Queue[k + 1]
    <3>1. Queue'[k] = BytesOf(accepted[first + 1 + k])
      BY <2>2, Zenon
    <3>2. Queue[k + 1] = BytesOf(accepted[first + (k + 1)])
      BY <1>5, <2>1
    <3> QED
      BY <2>1, <3>1, <3>2
  <2>7. Len(Queue') = Len(Queue) - 1
    BY <1>5, <2>1, <2>5
  <2>8. \A k \in 1 .. Len(Queue') : Queue'[k] = Queue[k + 1]
    BY <2>5, <2>6, Zenon
  <2> QED
    BY <1>5, <1>6, <2>5, <2>7, <2>8, TailShape, Zenon
<1>8. Used' = Used - (Hdr + r.size)
  <2>1. r.at = EndOf(first)
    <3>1. accepted[first + 1].at = EndOf((first + 1) - 1)
      BY <1>2 DEF BufferCoherent, Records
    <3>2. (first + 1) - 1 = first
      BY SMT
    <3> QED
      BY <3>1, <3>2
  <2>2. EndOf(first + 1) = r.at + Hdr + r.size
    BY <1>1, <1>2, EndOfNext
  <2>3. Used' = EndOf(last) - EndOf(first + 1)
    BY <1>3, <1>4 DEF Used, EndOf
  <2>4. Used = EndOf(last) - EndOf(first)
    BY DEF Used
  <2>5. /\ EndOf(last) \in Nat /\ EndOf(first) \in Nat /\ Hdr \in Nat
        /\ r.at \in Nat /\ r.size \in Nat
    BY <1>1, <1>2, HistoryTypes, BufferAssumption, SMT
  <2> QED
    BY <2>1, <2>2, <2>3, <2>4, <2>5, SMT
<1>9. Len(BytesOf(r)) = r.size
  BY BytesType
<1> QED
  BY <1>3, <1>4, <1>6, <1>7, <1>8, <1>9 DEF Takes

-----------------------------------------------------------------------------
\* Every other step leaves the queue alone.
LEMMA StepsOfQueue ==
  ASSUME Aligned, SafeInv, BufferCoherent, WithinStream, [Next]_vars
  PROVE  \/ \E n \in Sizes, s \in 0 .. MaxStream : Puts([j \in 1 .. n |-> s + j - 1])
         \/ Takes
         \/ UNCHANGED <<accepted, taken>>
<1>1. CASE AddData
  BY <1>1, StoreIsPut
<1>2. ASSUME NEW c \in Consumers, TakeData(c) PROVE Takes
  BY <1>2, PopIsTake
<1>3. ASSUME ~AddData, \A c \in Consumers : ~TakeData(c)
      PROVE  UNCHANGED <<accepted, taken>>
  BY <1>3, Zenon
  DEF Next, Receive, Produce, DataStopped, AddRefused, AddHeader, AddSignal, Wake, StartFlush,
      Consume, Test, TakeNothing, TakeCorrupt, TakeHeader, Written, StopThreads, vars, history
<1> QED
  BY <1>1, <1>2, <1>3, Zenon

\* The circular buffer, its mutex and its two consumers (addDataToWriteBuffer,
\* dataWriteThread, flushWriteBuffer) implement a bounded queue that loses, repeats,
\* reorders and alters nothing, whatever the sizes, if headers do not straddle the end.
THEOREM Refinement ==
  ASSUME Aligned
  PROVE  Spec => ImplementsFifo
<1>1. Init => Fifo!Init
  <2> SUFFICES ASSUME Init PROVE Fifo!Init
    OBVIOUS
  <2>1. accepted = <<>> /\ taken = <<>>
    BY DEF Init
  <2>2. [k \in 1 .. 0 |-> BytesOf(accepted[Len(taken) + k])] = <<>>
    BY SMT
  <2>3. Len(accepted) - Len(taken) = 0 /\ EndOf(0) = 0 /\ Len(accepted) = 0 /\ Len(taken) = 0
    BY <2>1, SMT DEF EndOf
  <2> QED
    BY <2>1, <2>2, <2>3, SMT DEF Fifo!Init
<1>2. SafeInv /\ BufferCoherent /\ WithinStream /\ [Next]_vars => [Fifo!Next]_Fifo!vars
  <2> SUFFICES ASSUME SafeInv, BufferCoherent, WithinStream, [Next]_vars
               PROVE  [Fifo!Next]_Fifo!vars
    OBVIOUS
  <2>1. ASSUME NEW n \in Sizes, NEW s \in 0 .. MaxStream, Puts([j \in 1 .. n |-> s + j - 1])
        PROVE  Fifo!Next
    <3> DEFINE p == [j \in 1 .. n |-> s + j - 1]
    <3>1. p \in {[j \in 1 .. m |-> t + j - 1] : m \in Sizes, t \in 0 .. MaxStream}
      BY SMT
    <3> HIDE DEF p
    <3>2. Puts(p)
      BY <2>1 DEF p
    <3>3. Fifo!Put(p)
      BY <3>2, Zenon DEF Puts, Fifo!Put, Fifo!Cost, Queue, Used
    <3> QED
      BY <3>1, <3>3, SMT DEF Fifo!Next
  <2>2. ASSUME Takes PROVE Fifo!Next
    <3>1. Fifo!Take
      BY <2>2, Zenon DEF Takes, Fifo!Take, Fifo!Cost, Queue, Used
    <3> QED
      BY <3>1 DEF Fifo!Next
  <2>3. ASSUME UNCHANGED <<accepted, taken>> PROVE UNCHANGED Fifo!vars
    BY <2>3 DEF Fifo!vars, EndOf, BytesOf
  <2> QED
    BY <2>1, <2>2, <2>3, StepsOfQueue, Zenon
<1> QED
  BY <1>1, <1>2, SafeAlways, Coherent, StreamAlways, PTL DEF Spec, Fifo!Spec, ImplementsFifo
=============================================================================
