---------------------------- MODULE MarsConfig ------------------------------
(***************************************************************************)
(* The configuration of the MARS chips: from the parameters a client       *)
(* writes (writeInt32, germaniumDetectorDriver.cpp) through globalstr, one *)
(* structure of settings per chip, and the words of loads                  *)
(* (germaniumDetectorHardware.cpp) to the message that carries them        *)
(* (sendMarsConfiguration, germaniumDetectorNetwork.cpp).                  *)
(*                                                                         *)
(* Writes run one at a time, under the lock of the port, after the         *)
(* constructor.  A word is the set of its bits that are 1, so that |= is   *)
(* the union.  Of the 14 words of a chip only the first is ever nonzero.   *)
(* Products of parameters are assumed not to overflow.                     *)
(***************************************************************************)
EXTENDS Integers, FiniteSets

CONSTANTS
  NChips,         \* nchips: 3, 6 or 12
  PlainFields,    \* the plain settings clients write
  PlainValues,    \* [PlainFields -> sets of the values they write]
  TdsValues,      \* and the values they write to TDS,
  GmonValues,     \* to GMON,
  ChipValues,     \* to CHIP,
  ChanValues,     \* to CHAN,
  MonchValues,    \* to MONCH
  Garbage         \* what lies in an int that getIntegerParam does not set

ASSUME ConfigAssumption ==
  /\ NChips \in Nat \ {0}
  /\ PlainFields \subseteq {"st", "g", "pol", "eblk", "puen", "mfs", "tdm"}
  /\ \A f \in PlainFields : PlainValues[f] \subseteq Int
  /\ TdsValues \subseteq Nat
  /\ GmonValues \cup ChipValues \cup ChanValues \cup MonchValues
       \cup Garbage \subseteq Int

Chips == 0 .. NChips - 1

VARIABLES
  pc,               \* where the constructor is; "ready" after it
  udpInitialized,
  globalstr,        \* [Chips -> settings]
  loads,            \* [Chips -> first word]
  GMON,             \* the parameters: {} while undefined, else {value}
  CHIP, CHAN, MONCH,
  sent,             \* history: the values of loads that went out
  selected          \* history: a client wrote CHAN

vars == <<pc, udpInitialized, globalstr, loads, GMON, CHIP, CHAN, MONCH, sent, selected>>
selection == <<CHIP, CHAN, MONCH, selected>>

-----------------------------------------------------------------------------
(* packGlobalConfig                                                        *)

\* Fault: the threshold is ten bits further up.
LayoutMisplaced ==
  [st |-> <<0, 3>>, g |-> <<3, 3>>, pol |-> <<6, 1>>, eblk |-> <<7, 2>>,
   gmon |-> <<9, 1>>, puen |-> <<10, 1>>, mfs |-> <<11, 1>>, tds |-> <<12, 2>>,
   tdm |-> <<14, 2>>, th |-> <<26, 10>>]

\* Position and width of the settings that are packed; c, m0 and saux are not.
Layout ==
  [st |-> <<0, 3>>, g |-> <<3, 3>>, pol |-> <<6, 1>>, eblk |-> <<7, 2>>,
   gmon |-> <<9, 1>>, puen |-> <<10, 1>>, mfs |-> <<11, 1>>, tds |-> <<12, 2>>,
   tdm |-> <<14, 2>>, th |-> <<16, 10>>]

Packed == DOMAIN Layout

\* Bit number b of an int, in two's complement.
Bit(value, b) == (value \div 2^b) % 2 = 1

\* Fault: the value is not masked to its width.
PackUnmasked(value, position, width) ==
  {position + b : b \in {c \in 0 .. 10 : Bit(value, c)}}

PackBits(value, position, width) ==
  {position + b : b \in {c \in 0 .. width - 1 : Bit(value, c)}}

PackGlobalConfig(global) ==
  UNION {PackBits(global[f], Layout[f][1], Layout[f][2]) : f \in Packed}

\* Fault: the last chip is left out.
WrapShort(globals) ==
  [chip \in Chips |-> IF chip = NChips - 1 THEN {} ELSE PackGlobalConfig(globals[chip])]

\* wrapOptimized: the words of the channels stay 0.
WrapOptimized(globals) == [chip \in Chips |-> PackGlobalConfig(globals[chip])]

-----------------------------------------------------------------------------
(* The constructor.                                                        *)

Zero == [st |-> 0, g |-> 0, pol |-> 0, eblk |-> 0, gmon |-> 0, puen |-> 0, mfs |-> 0,
         tds |-> 0, tdm |-> 0, th |-> 0, c |-> 0, m0 |-> 0, saux |-> 0]

Init ==
  /\ pc = "hardware"
  /\ udpInitialized = FALSE
  /\ globalstr = [chip \in Chips |-> Zero]
  /\ loads = [chip \in Chips |-> {}]
  /\ GMON = {0}
  /\ CHIP = {}
  /\ CHAN = {}
  /\ MONCH = {}
  /\ sent = {}
  /\ selected = FALSE

\* The words go out, unless the sockets are not open yet or sendto fails.
SendMarsConfiguration(words) ==
  \/ udpInitialized /\ sent' = sent \cup {words}
  \/ UNCHANGED sent

\* initializeMarsConfig leaves c, m0 and saux alone, and refreshes loads.
InitializeMarsConfig ==
  /\ globalstr' = [chip \in Chips |->
       [globalstr[chip] EXCEPT !.st = 1, !.g = 0, !.pol = 1, !.eblk = 1, !.gmon = 0,
                               !.puen = 0, !.mfs = 0, !.tds = 0, !.tdm = 0, !.th = 512]]
  /\ loads' = WrapOptimized(globalstr')

\* initializeGermaniumHardware: configure, then send.
InitializeHardware ==
  /\ pc = "hardware"
  /\ InitializeMarsConfig
  /\ SendMarsConfiguration(loads')
  /\ pc' = "sockets"
  /\ UNCHANGED <<udpInitialized, GMON, selection>>

\* initializeUDPSockets succeeds or fails; the constructor goes on.
InitializeSockets ==
  /\ pc = "sockets"
  /\ udpInitialized' \in BOOLEAN
  /\ pc' = "config"
  /\ UNCHANGED <<globalstr, loads, GMON, selection, sent>>

\* The constructor configures again, without sending.
InitializeAgain ==
  /\ pc = "config"
  /\ InitializeMarsConfig
  /\ pc' = "ready"
  /\ UNCHANGED <<udpInitialized, GMON, selection, sent>>

-----------------------------------------------------------------------------
(* writeInt32: one action per parameter that concerns the chips.           *)

Ready == pc = "ready" /\ UNCHANGED <<pc, udpInitialized, loads>>

\* All chips get the setting, and loads is sent as it is.
SetAll(field, value) ==
  /\ Ready
  /\ globalstr' = [chip \in Chips |-> [globalstr[chip] EXCEPT ![field] = value]]
  /\ SendMarsConfiguration(loads)
  /\ UNCHANGED <<GMON, selection>>

\* SHPT, GAIN, POL, EBLK, PUEN, MFS and TDM
WritePlain(field, value) == SetAll(field, value)

\* TDS, a menu: (int) (10 * 1.0e6 / (16.0 * value)), with 1 for 0
WriteTds(value) == SetAll("tds", 625000 \div (IF value = 0 THEN 1 ELSE value))

\* Division of ints truncates towards 0.
Quotient(a, b) == IF a >= 0 THEN a \div b ELSE -((-a) \div b)
Remainder(a, b) == a - b * Quotient(a, b)

\* What a getIntegerParam of an int parameter leaves in its argument.
Value(parameter) == IF parameter = {} THEN Garbage ELSE parameter

\* Chip k watches channel n.
Watch(globals, k, n) == [globals EXCEPT ![k].c = n, ![k].m0 = 1, ![k].saux = 1]

\* Fault: only the chip selected is reset.
MonitorHere(globals, mode, k, n) ==
  IF k \in Chips /\ mode = 5 THEN Watch(globals, k, n)
  ELSE IF k \in Chips /\ mode \in 1 .. 4
    THEN [globals EXCEPT ![k].c = mode + 3, ![k].m0 = 0, ![k].saux = 1]
  ELSE globals

\* The settings of a monitor mode: none on all chips, then one on the chip selected.
Monitor(globals, mode, k, n) ==
  LET off == IF mode \in 0 .. 5
               THEN [chip \in Chips |-> [globals[chip] EXCEPT !.c = 0, !.m0 = 0, !.saux = 0]]
               ELSE globals
  IN  IF k \in Chips /\ mode = 5 THEN Watch(off, k, n)
      ELSE IF k \in Chips /\ mode \in 1 .. 4
        THEN [off EXCEPT ![k].c = mode + 3, ![k].saux = 1]
      ELSE off

WriteGmon(mode) ==
  /\ Ready
  /\ GMON' = {mode}
  /\ \E k \in Value(CHIP), n \in Value(CHAN) : globalstr' = Monitor(globalstr, mode, k, n)
  /\ SendMarsConfiguration(loads)
  /\ UNCHANGED selection

\* In mode 5 a chip that exists starts to watch channel n.
WatchInMode5(k, n) ==
  IF GMON = {5} /\ k \in Chips
    THEN globalstr' = Watch(globalstr, k, n) /\ SendMarsConfiguration(loads)
    ELSE UNCHANGED <<globalstr, sent>>

WriteMonch(value) ==
  /\ Ready
  /\ MONCH' = {value}
  /\ \E k \in Value(CHIP) :
       /\ CHAN' = IF k \in Chips THEN {k * 64 + value} ELSE CHAN
       /\ WatchInMode5(k, value)
  /\ UNCHANGED <<GMON, CHIP, selected>>

\* Fault: CHAN keeps the channels of the chip selected before.
WriteChipOnly(value) ==
  /\ Ready
  /\ CHIP' = {value}
  /\ \E n \in Value(MONCH) : WatchInMode5(value, n)
  /\ UNCHANGED <<GMON, CHAN, MONCH, selected>>

WriteChip(value) ==
  /\ Ready
  /\ CHIP' = {value}
  /\ \E c \in Value(CHAN) : CHAN' = {value * 64 + Remainder(c, 64)}
  /\ \E n \in Value(MONCH) : WatchInMode5(value, n)
  /\ UNCHANGED <<GMON, MONCH, selected>>

WriteChan(value) ==
  /\ Ready
  /\ CHAN' = {value}
  /\ CHIP' = {Quotient(value, 64)}
  /\ MONCH' = {Remainder(value, 64)}
  /\ WatchInMode5(Quotient(value, 64), Remainder(value, 64))
  /\ selected' = TRUE
  /\ UNCHANGED GMON

-----------------------------------------------------------------------------
Next ==
  \/ InitializeHardware
  \/ InitializeSockets
  \/ InitializeAgain
  \/ \E field \in PlainFields : \E value \in PlainValues[field] : WritePlain(field, value)
  \/ \E value \in TdsValues : WriteTds(value)
  \/ \E value \in GmonValues : WriteGmon(value)
  \/ \E value \in MonchValues : WriteMonch(value)
  \/ \E value \in ChipValues : WriteChip(value)
  \/ \E value \in ChanValues : WriteChan(value)

Spec == Init /\ [][Next]_vars

-----------------------------------------------------------------------------
(* Properties.                                                             *)

\* Every variable has its type, after any sequence of writes.
TypeOK ==
  /\ pc \in {"hardware", "sockets", "config", "ready"}
  /\ udpInitialized \in BOOLEAN
  /\ \A chip \in Chips : \A f \in DOMAIN globalstr[chip] : globalstr[chip][f] \in Int
  /\ \A chip \in Chips : loads[chip] \subseteq 0 .. 31
  /\ \A p \in {GMON, CHIP, CHAN, MONCH} : p \subseteq Int /\ Cardinality(p) <= 1
  /\ selected \in BOOLEAN

\* The value of the bits of a word in a field: value[n] is that of its n lower bits.
Unpack(word, position, width) ==
  LET value[n \in 0 .. width] ==
        IF n = 0 THEN 0
        ELSE value[n - 1] + (IF position + n - 1 \in word THEN 2^(n - 1) ELSE 0)
  IN  value[width]

\* Whatever values clients write, out of range ones too, each packed setting can be
\* read back from the word, cut to its width: no field leaks into another.
RoundTrip ==
  \A chip \in Chips : \A f \in Packed :
    Unpack(PackGlobalConfig(globalstr[chip]), Layout[f][1], Layout[f][2])
      = globalstr[chip][f] % 2^Layout[f][2]

\* Once CHAN has been written, the three parameters name one channel of one chip,
\* whichever of them is written next (as long as chips and channels that exist are
\* written).
OneSelection ==
  selected => \E c \in Chips, m \in 0 .. 63 :
                CHIP = {c} /\ MONCH = {m} /\ CHAN = {c * 64 + m}

\* In the monitor modes 0 to 4 at most one chip drives the shared monitor line, and
\* none its channel monitor, wherever a passage through mode 5 has left them.
OneMonitor ==
  \A mode \in 0 .. 4 : GMON = {mode} =>
    /\ \A j, k \in Chips : globalstr[j].saux = 1 /\ globalstr[k].saux = 1 => j = k
    /\ \A k \in Chips : globalstr[k].m0 = 0

\* The settings that initializeMarsConfig gives each chip, as far as they are packed,
\* and the words they make.
Defaults == [st |-> 1, g |-> 0, pol |-> 1, eblk |-> 1, gmon |-> 0, puen |-> 0, mfs |-> 0,
             tds |-> 0, tdm |-> 0, th |-> 512]
InitialWords == [chip \in Chips |-> PackGlobalConfig(Defaults)]

\* What goes out is always a whole configuration, the initial one of every chip: never
\* the zeros of before, and nothing of what clients have written since, although each
\* of their writes sends loads again (only initializeMarsConfig packs it).
SentInitial == sent \subseteq {InitialWords}

\* "All off except this chip channel monitor": in mode 5 at most one chip drives the
\* shared monitor line.
OneChannelMonitor ==
  GMON = {5} => \A j, k \in Chips : globalstr[j].saux = 1 /\ globalstr[k].saux = 1 => j = k
=============================================================================
