# ADGermanium in TLA+

A model of the EPICS areaDetector driver for the NSLS-II germanium detector
(`src/germaniumApp/src/`, class `germaniumDetector`): TLA+ modules translated from the
C++, TLC runs on small instances, and proofs checked by TLAPS for every value of the
constants.

## 1. The system

One C++ object, an asyn port driver, with four threads of its own besides the thread of
the asyn port that executes client writes.

| Component | State | Operations | Source |
|---|---|---|---|
| Write buffer | `dataWriteBuffer`, `writeBufferHead/Tail/Count`, `writeBufferMutex`, event `dataWriteAvailable` | `addDataToWriteBuffer`, the pops in `dataWriteThread` and `flushWriteBuffer` | `germaniumDetectorDataAcq.cpp` |
| Acquisition and data files | `acquisitionRunning`, `fileWritingEnabled`, `currentFileHandle`, `currentFileSize`, `currentSegmentNumber`, the two totals | `startDataAcquisition`, `stopDataAcquisition`, `writeDataToFile`, `openNewDataFile`, `closeCurrentDataFile`, `generateFilename` | `germaniumDetectorDataAcq.cpp`, `germaniumDetectorDriver.cpp` |
| MARS configuration | `globalstr`, `channelstr`, `loads`, parameters GMON, CHIP, CHAN, MONCH | branches of `writeInt32`, `packGlobalConfig`, `wrapOptimized`, `initializeMarsConfig`, `sendMarsConfiguration` | `germaniumDetectorHardware.cpp`, `...Driver.cpp`, `...Network.cpp` |
| Life cycle | sockets, mutexes, events, thread ids, `threadsRunning`, `udpInitialized` | constructor, destructor, `initializeUDPSockets`, `closeUDPSockets`, the loops of the threads | `germaniumDetector.cpp`, `...Network.cpp` |
| UDP control channel | control socket, `udpMutex`, `deviceAddr` | `sendUDPCommand`, `udpRegisterWrite/Read`, `udpControlThread` | `germaniumDetectorNetwork.cpp` |
| Response processing | read-back parameters | `processResponse` | `germaniumDetectorDriver.cpp` |
| Parameter layer | asyn parameter library (external) | `writeInt32`, `writeFloat64`, `writeOctet`, array reads and writes | `germaniumDetectorDriver.cpp` |
| Data processing thread | `framestat`, `evttot` | publishes counters, once a second | `germaniumDetectorDataAcq.cpp` |
| Histograms | `mcaData`, `tdcData`, `countRates`, `totalCounts` | `processPhotonEvent` (no caller), `readNDArray` | `germaniumDetector.cpp`, `...Driver.cpp` |
| IOC shell, database, build | none | registration, records, scripts | `germaniumDetectorApp.cpp`, `Db/`, `iocs/` |

How they interact:

- *Data path.* `udpDataThread` receives packets; `addDataToWriteBuffer` stores each behind
  a header with its size, under `writeBufferMutex`, and signals `dataWriteAvailable`.
  `dataWriteThread` wakes up by the signal or after a second, pops packets under the
  mutex and gives each to `writeDataToFile` after unlocking. When a client stops
  acquisition, the port thread pops what is left (`flushWriteBuffer`) and calls the same
  `writeDataToFile`: two consumers, and nothing but the buffer is protected by a mutex.
  At this commit the call of `processReceivedData` in `udpDataThread` is commented out,
  so that `addDataToWriteBuffer` and `setupDataAcquisition` have no callers; the modules
  model the path they are written for.
- *Control path.* A client write runs `writeInt32` (and its siblings) on the port thread:
  the parameter is set first, then the setting is sent as a datagram, without
  acknowledgement or retry. Responses come in on `udpControlThread`, which sets read-back
  parameters; `dataProcessingThread` sets SS. Neither takes the lock of the port, so that
  both come between any two steps of a handler.
- *Configuration.* Writes of chip settings change `globalstr`, one structure per chip, and
  send `loads`, the packed words.
- *Life cycle.* The constructor opens the sockets and starts the threads; the destructor
  clears `threadsRunning`, joins the threads, which are not joinable, and releases
  everything.

What is hard to test here: the unlocked reads of `writeBufferCount` between the halves of
another thread's critical section; a wake-up lost between the last test and the wait; the
wrap-around of data and of headers; the two consumers; acquisition stopped and started
again while the write thread is in the middle of `writeDataToFile`; opens and writes that
fail half-way through a change of segment; the order of construction and destruction;
datagrams lost, repeated or overtaken between a setting, the register and its read-back;
two-register writes of which the second fails; parameters set by writes that fail.
`PROJECT.json` lists the hazards at their lines with the properties that would catch them.

What makes each component correct: the buffer is a queue that loses, repeats, alters and
reorders nothing; files hold the packets in order, with exact sizes, numbers and totals;
settings reach their bits and no others, and the selection parameters agree; threads use
only what exists, they end when they are told to, and nothing is left behind; a setting,
its register and its read-back agree as soon as one write of it goes through.

## 2. Modules

| Module | What it is |
|---|---|
| `PacketFifo` | The abstract write buffer: a bounded queue of packets, with the history of what was handed over. |
| `WriteBuffer` | The circular buffer, byte by byte, with its mutex, its event, the producer and both consumers. Implements `PacketFifo` (`ImplementsFifo`). |
| `Acquisition` | Start, stop, flush and the steps of `writeDataToFile` in two threads, on top of a `PacketFifo` (`INSTANCE`). |
| `MarsConfig` | Settings, their packing, the message that carries them, and the parameters that select a chip and a channel. |
| `Lifecycle` | Constructor, destructor and the loops of the threads over sockets, mutexes, events and files. |
| `ControlChannel` | Client writes, the datagrams they send, an external network and device, the responses, and the threads that set parameters. |
| `MCWriteBuffer`, `MCAcquisition`, `MCMarsConfig`, `MCControlChannel` | Definitions for the TLC configurations. |
| `WriteBufferProofs`, `AcquisitionProofs`, `MarsConfigProofs`, `LifecycleProofs`, `ControlChannelProofs` | Theorems about the module each is named after. |
| `WriteBufferRefinement` | The theorem that `WriteBuffer` implements `PacketFifo`; extends `WriteBufferProofs`. |
| `AcquisitionFiles` | The theorems about files, segments and totals; extends `AcquisitionProofs`. |
| `ControlChannelAgreement` | The theorems about settings, registers and read-backs; extends `ControlChannelProofs`. |

Operators named after a C++ function or variable model it; `map` in `PROJECT.json` gives
the lines of every definition. Operators whose comment begins with "Fault:" are mutated
forms of the definition that follows them: they are used by no specification, and each
of them breaks a property, which shows that the property depends on that piece of code.

### WriteBuffer

The byte in a cell is its position in the stream of all bytes ever stored, so that a byte
lost, overwritten or taken from the wrong cell is recognised. A header's value is the size
of the record whose header bytes lie there; where they do not (the header straddles the
end of the buffer and lies partly outside, or data is misread as a header), the value read
is arbitrary up to the size of the buffer. Each critical section is two steps, header and
data: the loops of the consumers read the count without the mutex and may do so between
them. `Refused`, `Fits`, `TakeNothing`, `TakeCorrupt` are the early returns of the code.
The count the C++ reads without the mutex is a plain variable; the model lets each read
return the current value.

### Acquisition

Every read and every write of a variable that the other thread may write is a step of its
own: `writeDataToFile` is the eleven actions `Enter` to `Write`, in which `++`, `+=` and the
number for a name are a read (`ReadBytes`, `ReadSegment`, `ReadNumber`, each a `Load`) and
later a use of what was read (`loaded`). What else stands in one step (the handle and the
size in a close, say) only one thread gets at, which `OneFileWriter` shows. A start is the
steps `Start`, `ResetBytes`, `ResetFiles` and `Enable`.

`open` and `write` may succeed, fail, or write a part. RUNNO is not initialised by the
driver and `getIntegerParam` leaves its argument alone, so that the first file names use an
arbitrary number. A packet is a sequence of bytes that all carry its number, so that pieces
left by short writes are told from whole packets.

### MarsConfig

A word of `loads` is the set of its bits. Parameters that were never written are `{}`, and
reading them gives an arbitrary value (`Garbage`). Writes are serialised by the lock of
the port. The words of the channels stay 0 in `wrapOptimized`, and the settings `c`, `m0`
and `saux` are never packed. THRSH and RATE have branches in `writeInt32`, but are created
with other types, so that no client write reaches the branches.

### Lifecycle

A resource lives and the driver has a handle of it: these are two sets, so that a handle
may dangle and a resource may leak. Binding a socket and creating a thread may fail. The
release order is that of `closeCurrentDataFile`, `closeUDPSockets` and the destructor,
which comes to `udpMutex` and `dataAvailable` twice.

The threads are made by plain `epicsThreadCreate` and are not joinable.
`epicsThreadMustJoin` of such a thread, which is part of EPICS base, suspends its caller for
ever (`JoinFails`); where the thread has ended already and its record is freed, what it does
depends on what it reads there, so that a join that returns (`Join`) is possible too, and is
what the code is written for. The safety properties hold either way. That the destructor
comes to its end does not hold (`life_join`); that the threads do (`ThreadsEnd`) needs no
join.

Of the threads that use the resources, the port thread is left out. Its handlers test
`udpInitialized` and then use `udpMutex` and the control socket (`sendUDPCommand`,
`germaniumDetectorNetwork.cpp:144,166-174`; `sendMarsConfiguration`), or `writeBufferMutex`
in the flush, while `closeUDPSockets` takes no lock to release them. Whether a client's
write can be in flight while the driver is destroyed is up to asyn and to the owner of the
driver; `SafeUse` says nothing of it.

### ControlChannel

A client write is a handler (`job`) on the port thread: it sets the parameter (`SetAndCall`),
sends its datagrams one by one (`Send`, `SendFails`), and ends (`Finish`), where the value
is put in its final form and `acquisitionRunning` is cleared. The other threads come between
any two of these steps, or take none when they could not be created: no fairness is assumed
here. To set one parameter is one step. `callParamCallbacks`, which tells clients what has
changed since the last call of any thread, is left out: it changes no parameter.

A 32-bit word is the int with the same bits, so that `htonl` on the little-endian host is
the reversal of its bytes, and an address put in network order and then sent through `htonl`
reaches the device as it was. What `sendUDPCommand` leaves
unset is arbitrary: `msg.op` (the right operation, or one of `Leftovers`) and `deviceAddr`
(`route`, chosen once, since the member never changes).

Clients write settings and the parameters that no branch knows (`Unhandled`). The handlers
set whatever parameter they are called with before they look for a branch
(`germaniumDetectorDriver.cpp:57,507,597`), so that a client could also write a read-back.
That none does is an assumption (`ChannelAssumption`): no output record of
`Db/Germanium.template` is linked to one. `ReadBackHeld` rests on it.

The network and the device are outside the repository. The network may lose, repeat, reorder
and cut short datagrams (`Disturb`, `Shorten`). The device executes what it knows, ignores
other registers and writes without data, and answers with what the register holds, in the
host's order, as `processResponse` expects it. The history `settled` names the parameters
whose last write was sent with the right operation to the right address, and since when
nothing was disturbed; what the model promises is about those. It rests on luck as far as
`msg.op` and `deviceAddr` go (`ctl_message`). After a loss, a send that failed or a start
that was never sent, device and driver differ until the next write, and nothing here says
otherwise.

`PollRegister` is `readInt32`: at this commit it takes one argument, so that it does not
override the function of asyn, and nothing calls it.

## 3. Runs

| Run | Specification | Shows |
|---|---|---|
| `wb_words` | whole 2-byte words, buffer of 16 bytes, packets of 0, 2, 4, 6 bytes, at most 24 bytes stored | type, order and integrity, no lost wake-up, never "corrupt", the coherence invariant, refinement of `PacketFifo`, and (under fairness) that every packet is popped and every flush ends |
| `wb_unaligned` | buffer of 8 bytes, headers of 2, packets of 1 and 2 bytes, at most 14 bytes stored | indexes and count stay in range and no wake-up is lost even when headers are misread |
| `wb_overrun` | as above | *violated*: a header is stored beyond the last cell |
| `acq_errors` | 3 packets of 1 or 2 bytes, FSIZE 3 with writes of -1, 2, 9, two run numbers, two acquisitions, all failures | only the write thread writes; order on disk; exact size; totals that never exceed what was written; and in the first acquisition segment numbers, exact totals, nothing overwritten, and the segments read one after the other give the packets in order, without one that is counted and missing |
| `acq_clean` | 5 packets of 1, 2 or 4 bytes, FSIZE 3, no failures | no hole in what is written; files exceed FSIZE by one packet only |
| `acq_flush` | 2 packets | *violated*: the flush discards what it pops |
| `mars_writes` | 3 chips, settings beyond their widths, selection writes at both ends of chips | packing round trip, one selection, one monitor; what is sent is the whole initial configuration, whatever was written |
| `mars_monitor` | 3 chips, modes 0 and 5 | *violated*: two chips drive the monitor line in mode 5 |
| `ctl` | 2 client writes out of 9 kinds, 2 mishaps, `msg.op` right or wrong | read-backs are values the register has held; settings, registers and read-backs agree once a write goes through; halves of a time belong together; the trigger follows the start and the stop |
| `ctl_message` | as above | *violated*: a datagram carries another operation than the one it was sent for |
| `life` | the whole module, no constants | safe use, no dangling handle, no leak, and (under fairness) the threads end |
| `life_join` | as above | *violated*: the destructor is suspended by a join and never ends |

*Bounds.* `MaxStream`, `MaxPackets` and `MaxStarts` bound histories only. In `wb_words` a
buffer of 16 bytes holds up to three packets of size 2 or 4, runs full, and is passed
around one and a half times, so that data starts at every word and wraps at every word;
size 6 is above a quarter of the buffer and is refused, as is size 0. In `wb_unaligned`
headers start at every cell, the last one included. In `acq_errors` three packets make up
to three segments, and a stop and a start may fall between any two steps of a write;
queue capacity 6 lets the buffer overflow. The values given to FSIZE lie below, within and
above its limits. `SegmentsInOrder`, the exact half of `Accounted`, `NothingOverwritten` and
`SegmentsReadBack` speak of the first acquisition, on a disk that is empty before it: a later
start with the same RUNNO truncates files (below). `acq_clean` has one acquisition and a
constant FSIZE; packets of 4 bytes exceed its 3. In `mars_writes` the values overlap every boundary between fields that
are written (`st` into `g` into `pol`; TDS of 0 stores 625000, 18 bits above a 2-bit
field). Three chips are the smallest detector
(96 elements). In `ctl`, `MaxWrites` and `MaxMishaps` are 2: two writes are a setting and
its correction, a time and another time in the same registers, a start and its stop or its
repetition; two mishaps are a request and an answer disturbed, or one of them twice. The
preset of 1 s has more than 2^16 ticks, that of 5 MHz fewer; 61 is beyond the limit of RATE;
the address is written in a form that is not the normal one, or is no address at all; CNT
and `ADAcquire` (which a response for TRIG sets) are both written; one sensor changes by
itself.

*Deadlock* is checked everywhere except in `life` and `life_join`: a destroyed driver takes
no steps.

*Fairness.* `wb_words`, `life` and `life_join` assume weak fairness of each thread's steps,
which is what the operating system's scheduler gives to a thread that exists; the wait of a
thread ends because each has a time limit of one second. In `wb_words` that limit alone
would bring the write thread back, so that `Drained` does not show that no wake-up is lost;
`NoLostWakeup` does. Its packets are finitely many (`MaxStream`), so that `FlushEnds` is
about the competition of the consumers and not about packets that never stop arriving.
Nothing is assumed of clients, of the arrival of packets, of the network and the device, or
of the destruction of the driver. A mutex that is free for a moment only might starve a
waiter under weak fairness; the properties hold without strong fairness.

### Divergences the runs show

- `wb_overrun`: "4MB circular buffer for file writing" (`germaniumDetectorTypes.hpp:30`),
  yet a header is stored in one word at the head (`germaniumDetectorDataAcq.cpp:403-404`)
  and overruns the end unless all sizes are multiples of 8.
- `acq_flush`: "Flush any remaining data in write buffer"
  (`germaniumDetectorDataAcq.cpp:296`); the packets are popped and discarded, since
  `fileWritingEnabled` was cleared four lines before.
- `mars_monitor`: "All off except this chip channel monitor"
  (`germaniumDetectorDriver.cpp:164`); selecting another chip in mode 5 turns a second
  monitor on.
- `ctl_message`: "Send UDP command to Zynq device using proper message format"
  (`germaniumDetectorNetwork.cpp:139`), yet `msg.op` is never set and the register the
  device sees is what lay on the stack (`germaniumDetectorNetwork.cpp:149`).
- `life_join`: "Wait for threads to finish and destroy them" (`germaniumDetector.cpp:190`),
  yet the threads are not joinable (`germaniumDetector.cpp:139-166`), and the join suspends
  the destructor.

One divergence holds in every behaviour and is therefore stated as an invariant,
`SentInitial`, checked in `mars_writes` and proved (`OnlyInitialWords`): `updateLoadsArray`
"should be called whenever configuration parameters change"
(`germaniumDetectorHardware.cpp:175`), but no branch of `writeInt32` calls it, so that the
device always gets the initial words, and no setting of a chip that a client writes.

Seen while reading, without a run of their own: the constructor sends the initial
configuration before it opens the sockets (`germaniumDetector.cpp:127-130`), so that it is
never sent; "Close current data file" (`germaniumDetectorDataAcq.cpp:294`) is followed by
no code, so that the next run is appended to the open file and the totals printed leave it
out; a client's FSIZE is visible to the write thread before it is validated
(`germaniumDetectorDriver.cpp:57,385`), and its unit is MBytes in one place and bytes in
the other; a write of GMON = 5 stores an absolute channel number where the other branches
store a channel of the chip (`germaniumDetectorDriver.cpp:202`); a restart with the same
RUNNO truncates the files of the run before (`germaniumDetectorDataAcq.cpp:151`);
the member `deviceAddr` has only its port set (`germaniumDetectorNetwork.cpp:163`), while
`sendMarsConfiguration` fills a local of the same name; FREQ, TP and TP1 share the registers
of the counting time, so that the last one written counts; the initial settings
(`germaniumDetector.cpp:400`) are never sent to the device; a write that fails has changed
its parameter, and leaves without callbacks; `ADAcquire` has no
branch in `writeInt32`, so that writing it starts nothing; `readInt32` and `readNDArray`
override nothing.

## 4. Proofs

| Theorem | Statement |
|---|---|
| `TypeCorrect`, `WakeupNotLost` | `Spec => []TypeOK`, `Spec => []NoLostWakeup` for every buffer, header and packet size |
| `Coherent`, `Delivery`, `NoCorruption` | under `Aligned`: `Spec => []BufferCoherent`, and the same for `TakenInOrder` and `NeverCorrupt`, for every number and order of steps |
| `Refinement` | under `Aligned`: `Spec => ImplementsFifo`, every behaviour of the circular buffer is one of the bounded queue |
| `OnlyTheWriterWrites`, `OrderOnDisk` | `Spec => []OneFileWriter`, `Spec => []JournalInOrder`, for any sizes, failures and number of acquisitions |
| `TypesCorrect` | `Spec => []TypeOK` of `Acquisition` |
| `SegmentsCount`, `FilesKept` | `Spec => []SegmentsInOrder`, `Spec => NothingOverwritten`, with any failures |
| `SizesExact`, `AllAccounted`, `SegmentsReadInOrder` | `Spec => []SizeExact`, `[]Accounted`, `[]SegmentsReadBack`, with any failures and short writes |
| `SegmentsBounded` | under `Steady` (no short write, FSIZE keeps its value): `Spec => []SegmentBound` |
| `WrittenWithoutHole` | under `Clean` (no failure, one acquisition): `Spec => []NoHole` |
| `PackingFaithful`, `RoundTripAlways` | each bit of a packed word that belongs to a setting is that bit of the setting; `Spec => []RoundTrip` |
| `OnlyInitialWords` | `Spec => []SentInitial`, for every number of chips and all values written |
| `TypesHold`, `OneMonitorAlways` | `Spec => []TypeOK`, `Spec => []OneMonitor` of `MarsConfig`, for every number of chips and all values written |
| `SelectionAgrees` | under `InRange` (clients write chips and channels that exist): `Spec => []OneSelection` |
| `LifeTypes`, `ThreadsSafe`, `AllReleased`, `NoDanglingHandle` | `Spec => []TypeOK` of `Lifecycle`, `[]SafeUse`, `[]NothingLeaks`, `[]HandlesValid` |
| `ReadBacksHeld`, `TypesKept` | `Spec => []ReadBackHeld`, `Spec => []TypeOK` of `ControlChannel`, for any values, sensors, leftovers, and number of writes and mishaps |
| `SettingsAgree`, `TimesWhole`, `TriggerAgrees` | under `WordValues` (what clients write to a register, or as an address, has 32 bits): `Spec => []Agreement`, `[]TimeWhole`, `[]TriggerFollows` |

*Assumptions.* `BufferAssumption` (the buffer holds two headers at least),
`AcquisitionAssumption` (types and positive packet sizes), `ConfigAssumption` and
`ChannelAssumption` (types of what clients write, and that they write no read-back); TLC evaluates all of them. `Aligned`,
`Clean`, `Steady`, `InRange` and `WordValues` are hypotheses of theorems and not of the
specifications. Without `Aligned` its theorems are false (`wb_overrun`); with failures
packets are missing, as they should be; when FSIZE is lowered a file is already beyond it, and
the part left by a short write lengthens a file without counting; a channel that does not
exist selects a chip that
does not; and a value wider than a register does not fit one (an `epicsInt32` is never
wider, nor is an IPv4 address).

*WriteBuffer.* `TypeOK` is not inductive: between the header and the data of a packet the
room for the data has been checked by an earlier step. `SafeInv` adds that a thread is in
its critical section exactly while it holds the mutex (`MutexHeld`), where each thread may
be (`Places`), and that there is room for what is being stored and something to take for
who is taking (`Room`). It is preserved whatever the headers hold, because a consumer
compares the size with the count before it uses it. `BufferCoherent` then relates the
stream to the cells: records follow each other without gap (`Records`), what was popped
ends with a record or behind its header (`Popped`), stored bytes lie in order from tail to
head (`Layout`), indexes are on word boundaries (`Words`). The heart of the proof is
`NextRecord`: a consumer that finds a header under the mutex finds the header of the next
record, and only that one.

*Refinement.* The queue of the abstract module is what was accepted and not yet taken,
and its bytes in use the stretch of the stream from the end of the last record taken to
the end of the last one accepted. `AddData` maps to `Put`, which needs that the space
check of an earlier step still holds, header included; `TakeData` of either consumer maps
to `Take`, which needs that the bytes it copies are those of the oldest packet. All other
steps are stutters, as they change neither `accepted` nor `taken`.

*Acquisition.* `PortInv`: the flush runs only between the write of `fileWritingEnabled` in
the stop and a start, which the port thread itself performs, so that the port thread
never gets past the first test of `writeDataToFile`. `OrderInv` adds that numbers grow
from the journal over the packet in the write thread's hands to the queue (`Ordered`).
`Acquisition` uses the buffer through `Put` and `Take` of `PacketFifo` only, and `Refinement`
shows that the circular buffer implements these (under `Aligned`); that the two modules
compose is argued here and not proved.

*Files.* `TypesInv` needs to know that the bytes in use are the cost of what is queued;
since a recursive sum is out of the prover's reach, `Costs` asks for running sums of which
they are a difference. (This part stands in `AcquisitionProofs`, the rest in
`AcquisitionFiles`.)
`FilesInv`: before the first start nothing has been opened
(`FreshFiles`), a file is open where the write thread closes one and closed where it opens
one (`Handles`), and the segment number and the total count the files at each step of a
close (`Segments`, `FilesCounted`); it speaks of the first acquisition, as a restart resets
the number under the hands of the write thread. `HoleInv`: what was written, with the packet in the write
thread's hands, is a stretch of what was handed over (`Contiguous`), and until the stop
the write thread holds the last packet taken (`LastTaken`).

*Bytes.* The properties about sizes count bytes as places: a place is a member of a sequence
of byte sequences and an index into that member, and a number of bytes is the cardinality of
a set of places (`Bytes`, `WholeBytes`), so that appending a piece is a disjoint union
(`PlacesAppended`) and no induction over the length is needed. A packet counts as whole once
its number is in the journal, so that the step that journals a packet could turn a piece left
by an earlier short write into a whole packet. `SizeInv` excludes it: what is on disk, in
every file, is of packets before the one in the write thread's hands and before those queued
(`Behind`), so that a number enters the journal only with its own packet. `TotalsInv`: the
total and the size of the open file make up the whole packets handed over; between the read
and the write of the total what was read is still the total; and the size is cleared with
the file. `AtMostWritten` is about all acquisitions: a restart lowers the total, but an increment
that was read before it and is written after it may bring the old value back; the invariant
bounds both, the total and what was read of it, by what was written. `BoundInv` carries the outcome of the comparison with FSIZE to the write that follows it.
`ReadInv`: each file is sorted by number (`PiecesInOrder`), a file opened later holds later
packets only (`FilesInOrder`), the open file is the last one opened (`LastOpen`), and what is
in the journal is in a file (`OnDisk`); nothing is overwritten (`FilesKept`), so that this
remains so.

*MarsConfig.* The fields of the layout are disjoint, checked field by field. The monitor
settings of the chips are touched by the monitor branches only, and `setGlobalMonitor`
resets them on all chips before it sets them on one, so that what they were before, and
what an undefined parameter reads as, does not matter. `OneSelection` is inductive as it
stands; the proof is about division by 64. A word is read back bit by bit (`Unpack`); that the
running value after `n` bits is the setting modulo `2^n` is shown for each of the ten bits
that the widest field has (`LowBits`, `Unpacked`), so that no induction is needed.
`OnlyInitialWords` has an invariant of its own: from the end of `initializeMarsConfig` on,
`loads` holds the initial words (`WordsInv`).

*Lifecycle.* `LifeInv`: while a thread may run, everything it needs exists; after the
joins every thread has ended; during the release what was released does not come back.

*ControlChannel.* `HeldInv`: every answer on its way carries a value that its register has
held, and every read-back parameter is undefined or shows one. It is preserved by loss,
repetition, exchange and cutting of datagrams because none of them makes an answer (lemma
`Disturbance`), and by client writes because no client parameter is a read-back (lemma
`Separate`). `TypeInv` adds the types of what is on its way and of what a handler leaves
behind; RATE is out of bounds only while its own handler runs, which sends nothing and
cannot fail.

*Agreement.* The three properties speak of quiet moments and are far from inductive.
`AgreeInv` says what a settled value looks like on its way (`Echo`): the last request for
its register writes it; or no request for the register is left, the register holds it, and
the last answer tells so; or no answer is left either and the read-back shows it. A handler
still has to send what is not on its way yet (`Planned`). Each step moves a value along
this chain: `EndsNow` (a datagram appended is the last), `AppendOther` (one for another
register changes nothing) and `TakeFirst` (the first one taken was the last, or the last is
still there). What goes wrong removes all settled values at once, and two parameters that
share a register are rivals (`Shared`), so that no handler sends to the register of a
settled parameter. That an address arrives as it was written is `HtonlTwice`: reversing
the four bytes of a word twice is the identity. A time is compared with its ticks, and not
with what the handler is modelled to send: `Timed` says that the preset that is settled, or
being written, has a value of its own, `TimedStep` keeps it so, and `HalvesMeet` that the two
halves make up the ticks modulo 2^32.

*Model-checked only.* Liveness under fairness, which is out of the prover's reach: `Drained`,
`FlushEnds`, `ThreadsEnd`. Every other property of a passing run is a theorem.

## 5. Not modelled

- The histograms: `processPhotonEvent`, the only code that changes them, has no caller, so
  that every read of a spectrum gives zeros. `readNDArray` has no caller either.
- `writeInt32Array` stores nothing and its sends are commented out; `ad9252_cnfg` has no
  caller; the text CALF is stored only; FNAM and DIR are read by `generateFilename`
  (`germaniumDetectorDataAcq.cpp:118-119`) and are the same for all files, so that a name is
  a run number and a segment number here.
- What clients are told of parameters, and when. `callParamCallbacks` is called by the control
  thread and the data processing thread without the lock of the port; it may then race with
  a set and with itself over the flags of what has changed, inside asyn. No property here
  speaks of what clients have seen.
- The use of sockets and mutexes by handlers of the port thread during the destructor
  (section 2, `Lifecycle`).
- The frame statistics (`framestat`, US), which no code changes.
- The creation of the data directory and `fsync`, which change no state of the driver.
- The IOC shell, the database and the build.

To set or to get one parameter of the asyn library is an atomic step, and the lock of the
port makes client writes one at a time. Values of sizes near 2^64 that a
misread header may give (the overflow of `dataSize + sizeof(size_t)` in
`flushWriteBuffer`) are left out: a misread header is at most the size of the buffer.

## 6. Plan

Done: write buffer and its refinement, acquisition and files, configuration, life cycle,
control channel and responses, with the proofs of section 4. Left, in order:

1. Composition of `ControlChannel` with `Acquisition` and `MarsConfig`: the start and stop
   of acquisition and the 14 words of a configuration as handlers of one port thread whose
   sends may fail (each module has its own calls now, and sends of words do not fail).
2. A run for acquisitions after the first: what a restart does to the totals and to the
   segment number while the write thread is inside `writeDataToFile`. The steps are in the
   model, and `SizeExact` and one half of `Accounted` cover it; the other properties about
   numbers stop at the first acquisition.
