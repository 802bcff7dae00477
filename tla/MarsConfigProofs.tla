-------------------------- MODULE MarsConfigProofs --------------------------
(***************************************************************************)
(* Theorems about MarsConfig, for every number of chips and whatever       *)
(* values clients write.                                                   *)
(***************************************************************************)
EXTENDS MarsConfig, FiniteSetTheorems, TLAPS

-----------------------------------------------------------------------------
(* Packing.                                                                *)

\* The settings that are packed.
LEMMA PackedFields ==
  Packed = {"st", "g", "pol", "eblk", "gmon", "puen", "mfs", "tds", "tdm", "th"}
  BY DEF Packed, Layout

\* Where the fields of a word lie (packGlobalConfig): none reaches beyond the word.
LEMMA LayoutOf ==
  /\ Layout["st"] = <<0, 3>> /\ Layout["g"] = <<3, 3>> /\ Layout["pol"] = <<6, 1>>
  /\ Layout["eblk"] = <<7, 2>> /\ Layout["gmon"] = <<9, 1>> /\ Layout["puen"] = <<10, 1>>
  /\ Layout["mfs"] = <<11, 1>> /\ Layout["tds"] = <<12, 2>> /\ Layout["tdm"] = <<14, 2>>
  /\ Layout["th"] = <<16, 10>>
  BY DEF Layout

\* Every field lies in the word.
LEMMA FieldsInWord ==
  ASSUME NEW f \in Packed
  PROVE  /\ Layout[f][1] \in Nat /\ Layout[f][2] \in Nat
         /\ Layout[f][1] + Layout[f][2] <= 26
  BY PackedFields, LayoutOf, SMT

\* Of two fields one ends before the other begins.
LEMMA FieldsApart ==
  ASSUME NEW f \in Packed, NEW g \in Packed, f # g
  PROVE  \/ Layout[f][1] + Layout[f][2] <= Layout[g][1]
         \/ Layout[g][1] + Layout[g][2] <= Layout[f][1]
  BY PackedFields, LayoutOf, SMT

\* A bit of the word that belongs to a field is that bit of the setting: whatever
\* values the settings have, none spills into another (packGlobalConfig).
THEOREM PackingFaithful ==
  ASSUME NEW global, NEW f \in Packed, NEW b \in 0 .. Layout[f][2] - 1
  PROVE  Layout[f][1] + b \in PackGlobalConfig(global) <=> Bit(global[f], b)
<1> DEFINE bit == Layout[f][1] + b
<1>1. Bit(global[f], b) => bit \in PackBits(global[f], Layout[f][1], Layout[f][2])
  BY Zenon DEF PackBits
<1>2. ASSUME NEW g \in Packed, bit \in PackBits(global[g], Layout[g][1], Layout[g][2])
      PROVE  Bit(global[f], b)
  <2>1. PICK c \in 0 .. Layout[g][2] - 1 : bit = Layout[g][1] + c /\ Bit(global[g], c)
    BY <1>2, Zenon DEF PackBits
  <2>2. f = g
    BY <2>1, FieldsApart, FieldsInWord, SMT
  <2>3. b = c
    BY <2>1, <2>2, FieldsInWord, SMT
  <2> QED
    BY <2>1, <2>2, <2>3
<1> QED
  BY <1>1, <1>2, Zenon DEF PackGlobalConfig

-----------------------------------------------------------------------------
(* What the variables hold.                                                *)

Settings == DOMAIN Zero

Integers32 == [Chips -> [Settings -> Int]]

\* Types, as a step preserves them.
Typed ==
  /\ pc \in {"hardware", "sockets", "config", "ready"}
  /\ udpInitialized \in BOOLEAN
  /\ globalstr \in Integers32
  /\ \A chip \in Chips : loads[chip] \subseteq 0 .. 31
  /\ \A p \in {GMON, CHIP, CHAN, MONCH} : p = {} \/ \E v \in Int : p = {v}
  /\ selected \in BOOLEAN

\* The settings of a chip, by name.
LEMMA SettingsAre ==
  Settings = {"st", "g", "pol", "eblk", "gmon", "puen", "mfs", "tds", "tdm", "th",
              "c", "m0", "saux"}
  BY DEF Settings, Zero

\* Whatever the settings, their words have bits 0 to 31 only.
LEMMA WordBits ==
  ASSUME NEW globals, NEW chip \in Chips
  PROVE  WrapOptimized(globals)[chip] \subseteq 0 .. 31
<1>1. ASSUME NEW f \in Packed, NEW i \in PackBits(globals[chip][f], Layout[f][1], Layout[f][2])
      PROVE  i \in 0 .. 31
  <2>1. PICK c \in 0 .. Layout[f][2] - 1 : i = Layout[f][1] + c
    BY <1>1, Zenon DEF PackBits
  <2> QED
    BY <2>1, FieldsInWord, SMT
<1> QED
  BY <1>1, Zenon DEF WrapOptimized, PackGlobalConfig

\* The settings that the monitor modes are made of.
Monitoring == {"c", "m0", "saux"}

\* One setting of one chip changes.
LEMMA OneChanged ==
  ASSUME NEW g \in [Settings -> Int], NEW f \in Settings, NEW v \in Int
  PROVE  /\ [g EXCEPT ![f] = v] \in [Settings -> Int]
         /\ \A h \in Settings : [g EXCEPT ![f] = v][h] = IF h = f THEN v ELSE g[h]
  BY Zenon

\* The settings that are none of these.
LEMMA OtherSettings ==
  Settings \ Monitoring =
    {"st", "g", "pol", "eblk", "gmon", "puen", "mfs", "tds", "tdm", "th"}
  BY SettingsAre, SMT DEF Monitoring

\* One of those changes: the chip monitors what it did.
LEMMA OtherChanged ==
  ASSUME NEW g \in [Settings -> Int], NEW f \in Settings \ Monitoring, NEW v \in Int,
         NEW h, h = [g EXCEPT ![f] = v]
  PROVE  h \in [Settings -> Int] /\ \A m \in Monitoring : h[m] = g[m]
<1>1. Monitoring \subseteq Settings
  BY SettingsAre, Zenon DEF Monitoring
<1> QED
  BY <1>1, OneChanged, Zenon

\* What initializeMarsConfig makes of a chip's settings.
InitialOf(g) ==
  [g EXCEPT !.st = 1, !.g = 0, !.pol = 1, !.eblk = 1, !.gmon = 0,
            !.puen = 0, !.mfs = 0, !.tds = 0, !.tdm = 0, !.th = 512]

\* These are settings again, the monitors' the same.
LEMMA InitializedChip ==
  ASSUME NEW g \in [Settings -> Int]
  PROVE  InitialOf(g) \in [Settings -> Int] /\ \A f \in Monitoring : InitialOf(g)[f] = g[f]
<1>1. PICK g1 : g1 = [g EXCEPT !.st = 1]
  OBVIOUS
<1>2. PICK g2 : g2 = [g1 EXCEPT !.g = 0]
  OBVIOUS
<1>3. PICK g3 : g3 = [g2 EXCEPT !.pol = 1]
  OBVIOUS
<1>4. PICK g4 : g4 = [g3 EXCEPT !.eblk = 1]
  OBVIOUS
<1>5. PICK g5 : g5 = [g4 EXCEPT !.gmon = 0]
  OBVIOUS
<1>6. PICK g6 : g6 = [g5 EXCEPT !.puen = 0]
  OBVIOUS
<1>7. PICK g7 : g7 = [g6 EXCEPT !.mfs = 0]
  OBVIOUS
<1>8. PICK g8 : g8 = [g7 EXCEPT !.tds = 0]
  OBVIOUS
<1>9. PICK g9 : g9 = [g8 EXCEPT !.tdm = 0]
  OBVIOUS
<1>10. InitialOf(g) = [g9 EXCEPT !.th = 512]
  BY <1>1, <1>2, <1>3, <1>4, <1>5, <1>6, <1>7, <1>8, <1>9, Zenon DEF InitialOf
<1> DEFINE Kept(x) == x \in [Settings -> Int] /\ \A m \in Monitoring : x[m] = g[m]
<1>11. Kept(g1)
  BY <1>1, OtherSettings, OtherChanged
<1>12. Kept(g2)
  BY <1>2, <1>11, OtherSettings, OtherChanged
<1>13. Kept(g3)
  BY <1>3, <1>12, OtherSettings, OtherChanged
<1>14. Kept(g4)
  BY <1>4, <1>13, OtherSettings, OtherChanged
<1>15. Kept(g5)
  BY <1>5, <1>14, OtherSettings, OtherChanged
<1>16. Kept(g6)
  BY <1>6, <1>15, OtherSettings, OtherChanged
<1>17. Kept(g7)
  BY <1>7, <1>16, OtherSettings, OtherChanged
<1>18. Kept(g8)
  BY <1>8, <1>17, OtherSettings, OtherChanged
<1>19. Kept(g9)
  BY <1>9, <1>18, OtherSettings, OtherChanged
<1>20. Kept(InitialOf(g))
  BY <1>10, <1>19, OtherSettings, OtherChanged
<1> QED
  BY <1>20

\* initializeMarsConfig keeps the monitor settings, and the words stay words.
LEMMA Initialized ==
  ASSUME globalstr \in Integers32, InitializeMarsConfig
  PROVE  /\ globalstr' \in Integers32
         /\ \A chip \in Chips, f \in Monitoring : globalstr'[chip][f] = globalstr[chip][f]
         /\ \A chip \in Chips : loads'[chip] \subseteq 0 .. 31
<1>1. ASSUME NEW chip \in Chips
      PROVE  /\ globalstr'[chip] \in [Settings -> Int]
             /\ \A f \in Monitoring : globalstr'[chip][f] = globalstr[chip][f]
  <2>1. globalstr[chip] \in [Settings -> Int]
    BY DEF Integers32
  <2>2. globalstr'[chip] = InitialOf(globalstr[chip])
    BY Zenon DEF InitializeMarsConfig, InitialOf
  <2> QED
    BY <2>1, <2>2, InitializedChip
<1>2. globalstr' \in Integers32
  <2>1. globalstr' = [chip \in Chips |-> InitialOf(globalstr[chip])]
    BY Zenon DEF InitializeMarsConfig, InitialOf
  <2>2. \A chip \in Chips : InitialOf(globalstr[chip]) \in [Settings -> Int]
    BY <1>1, <2>1, Zenon
  <2> QED
    BY <2>1, <2>2, Zenon DEF Integers32
<1>3. loads' = WrapOptimized(globalstr')
  BY DEF InitializeMarsConfig
<1> QED
  BY <1>1, <1>2, <1>3, WordBits, Zenon

\* A setting that is not the monitors' is written on all chips.
LEMMA Written ==
  ASSUME globalstr \in Integers32, NEW field \in Settings \ Monitoring, NEW value \in Int,
         SetAll(field, value)
  PROVE  /\ globalstr' \in Integers32
         /\ \A chip \in Chips, f \in Monitoring : globalstr'[chip][f] = globalstr[chip][f]
<1>1. ASSUME NEW chip \in Chips
      PROVE  /\ globalstr'[chip] \in [Settings -> Int]
             /\ \A f \in Monitoring : globalstr'[chip][f] = globalstr[chip][f]
  <2>1. globalstr[chip] \in [Settings -> Int]
    BY DEF Integers32
  <2>2. globalstr'[chip] = [globalstr[chip] EXCEPT ![field] = value]
    BY DEF SetAll
  <2> QED
    BY <2>1, <2>2, OtherChanged
<1>2. globalstr' \in Integers32
  BY <1>1, Zenon DEF SetAll, Integers32
<1> QED
  BY <1>1, <1>2

\* The monitor settings of a chip: the channel n, the channel monitor m and the line s.
MonitorOf(g, n, m, s) == [g EXCEPT !.c = n, !.m0 = m, !.saux = s]

\* These are settings again, with m and s in their places.
LEMMA MonitorSet ==
  ASSUME NEW g \in [Settings -> Int], NEW n \in Int, NEW m \in Int, NEW s \in Int
  PROVE  /\ MonitorOf(g, n, m, s) \in [Settings -> Int]
         /\ MonitorOf(g, n, m, s)["m0"] = m /\ MonitorOf(g, n, m, s)["saux"] = s
<1> DEFINE h == MonitorOf(g, n, m, s)
<1>1. PICK g1 : g1 = [g EXCEPT !.c = n]
  OBVIOUS
<1>2. PICK g2 : g2 = [g1 EXCEPT !.m0 = m]
  OBVIOUS
<1>3. h = [g2 EXCEPT !.saux = s]
  BY <1>1, <1>2, Zenon DEF MonitorOf
<1>4. "c" \in Settings /\ "m0" \in Settings /\ "saux" \in Settings
  BY SettingsAre
<1>5. g1 \in [Settings -> Int]
  BY <1>1, <1>4, OneChanged
<1>6. g2 \in [Settings -> Int] /\ g2["m0"] = m
  BY <1>2, <1>4, <1>5, OneChanged
<1>7. h \in [Settings -> Int]
  BY <1>3, <1>4, <1>6, OneChanged
<1> QED
  BY <1>3, <1>4, <1>6, <1>7

\* A chip that starts to watch a channel.
LEMMA Watched ==
  ASSUME NEW globals \in Integers32, NEW k \in Chips, NEW n \in Int
  PROVE  Watch(globals, k, n) \in Integers32
<1>1. globals[k] \in [Settings -> Int]
  BY DEF Integers32
<1>2. MonitorOf(globals[k], n, 1, 1) \in [Settings -> Int]
  BY <1>1, MonitorSet
<1>3. Watch(globals, k, n) = [globals EXCEPT ![k] = MonitorOf(globals[k], n, 1, 1)]
  BY <1>1, Zenon DEF Watch, MonitorOf, Integers32
<1> QED
  BY <1>2, <1>3, Zenon DEF Integers32

\* No channel monitor is on, and no chip but k drives the line.
Apart(m, k) ==
  \A j \in Chips : m[j]["m0"] = 0 /\ (m[j]["saux"] = 1 => j = k)

\* Without its EXCEPTs: what a monitor mode makes of the chips.
LEMMA Monitored ==
  ASSUME NEW globals \in Integers32, NEW mode \in Int, NEW k \in Int, NEW n \in Int,
         NEW m, m = Monitor(globals, mode, k, n)
  PROVE  m \in Integers32 /\ (mode \in 0 .. 4 => Apart(m, k))
<1>1. PICK off : off = IF mode \in 0 .. 5
               THEN [chip \in Chips |-> [globals[chip] EXCEPT !.c = 0, !.m0 = 0, !.saux = 0]]
               ELSE globals
  OBVIOUS
<1>2. m = IF k \in Chips /\ mode = 5 THEN Watch(off, k, n)
          ELSE IF k \in Chips /\ mode \in 1 .. 4
            THEN [off EXCEPT ![k].c = mode + 3, ![k].saux = 1]
          ELSE off
  BY <1>1, Zenon DEF Monitor
<1>3. ASSUME mode \in 0 .. 5, NEW j \in Chips
      PROVE  off[j] \in [Settings -> Int] /\ off[j]["m0"] = 0 /\ off[j]["saux"] = 0
  <2>1. globals[j] \in [Settings -> Int]
    BY DEF Integers32
  <2>2. off[j] = MonitorOf(globals[j], 0, 0, 0)
    BY <1>1, <1>3, Zenon DEF MonitorOf
  <2> QED
    BY <2>1, <2>2, MonitorSet
<1>4. mode \in 0 .. 5 => off \in Integers32
  <2>1. mode \in 0 .. 5 => off = [chip \in Chips |-> off[chip]]
    BY <1>1, Zenon
  <2> QED
    BY <1>3, <2>1, Zenon DEF Integers32
<1>5. off \in Integers32
  BY <1>1, <1>4, Zenon
<1>6. CASE k \in Chips /\ mode = 5
  <2>1. m = Watch(off, k, n) /\ mode \notin 0 .. 4
    BY <1>2, <1>6
  <2> QED
    BY <1>5, <1>6, <2>1, Watched, Zenon
<1>7. CASE k \in Chips /\ mode \in 1 .. 4
  <2>1. PICK g1 : g1 = [off[k] EXCEPT !.c = mode + 3]
    OBVIOUS
  <2>2. PICK h : h = [g1 EXCEPT !.saux = 1]
    OBVIOUS
  <2>3. mode # 5 /\ mode \in 0 .. 5 /\ mode + 3 \in Int /\ 1 \in Int
    BY <1>7
  <2>4. m = [off EXCEPT ![k].c = mode + 3, ![k].saux = 1]
    BY <1>2, <1>7, <2>3, Zenon
  <2>5. m = [off EXCEPT ![k] = h]
    BY <2>1, <2>2, <2>4, <1>5, <1>7, Zenon DEF Integers32
  <2>6. off[k] \in [Settings -> Int] /\ off[k]["m0"] = 0
    BY <1>3, <1>7, <2>3
  <2>7. "c" \in Settings /\ "m0" \in Settings /\ "saux" \in Settings
    BY SettingsAre
  <2>8. g1 \in [Settings -> Int] /\ g1["m0"] = 0
    BY <2>1, <2>3, <2>6, <2>7, OneChanged
  <2>9. h \in [Settings -> Int] /\ h["m0"] = 0
    BY <2>2, <2>3, <2>7, <2>8, OneChanged
  <2>10. m \in Integers32
    BY <2>5, <2>9, <1>5, <1>7, Zenon DEF Integers32
  <2>11. ASSUME NEW j \in Chips
         PROVE  m[j]["m0"] = 0 /\ (m[j]["saux"] = 1 => j = k)
    <3>1. CASE j = k
      <4>1. m[j] = h
        BY <3>1, <2>5, <1>5, <1>7, Zenon DEF Integers32
      <4> QED
        BY <3>1, <4>1, <2>9
    <3>2. CASE j # k
      <4>1. m[j] = off[j]
        BY <3>2, <2>5, <1>5, Zenon DEF Integers32
      <4> QED
        BY <4>1, <1>3, <2>3
    <3> QED
      BY <3>1, <3>2
  <2> QED
    BY <2>10, <2>11 DEF Apart
<1>8. CASE ~(k \in Chips /\ mode = 5) /\ ~(k \in Chips /\ mode \in 1 .. 4)
  <2>1. m = off
    BY <1>2, <1>8, Zenon
  <2>2. mode \in 0 .. 4 => mode \in 0 .. 5
    OBVIOUS
  <2>3. ASSUME mode \in 0 .. 4, NEW j \in Chips
        PROVE  m[j]["m0"] = 0 /\ m[j]["saux"] # 1
    BY <1>3, <2>1, <2>2, <2>3
  <2> QED
    BY <1>5, <2>1, <2>3, Zenon DEF Apart
<1> QED
  BY <1>6, <1>7, <1>8, Zenon

-----------------------------------------------------------------------------
(* The invariants.                                                         *)

\* A quotient and a remainder of ints are ints.
LEMMA QuotientType ==
  ASSUME NEW a \in Int
  PROVE  Quotient(a, 64) \in Int /\ Remainder(a, 64) \in Int
<1>1. Quotient(a, 64) \in Int
  BY DEF Quotient
<1> QED
  BY <1>1 DEF Remainder

\* The value of a parameter, set or not, is an int.
LEMMA ValueType ==
  ASSUME NEW p, p = {} \/ \E v \in Int : p = {v}, NEW v \in Value(p)
  PROVE  v \in Int
  BY ConfigAssumption DEF Value

\* In mode 5 a chip starts to watch: the settings remain settings, and in the
\* other modes nothing changes.
LEMMA WatchingStep ==
  ASSUME globalstr \in Integers32, NEW k \in Int, NEW n \in Int, WatchInMode5(k, n)
  PROVE  /\ globalstr' \in Integers32
         /\ GMON # {5} => globalstr' = globalstr
<1>1. CASE GMON = {5} /\ k \in Chips
  <2>1. globalstr' = Watch(globalstr, k, n)
    BY <1>1 DEF WatchInMode5
  <2> QED
    BY <1>1, <2>1, Watched
<1>2. CASE ~(GMON = {5} /\ k \in Chips)
  BY <1>2 DEF WatchInMode5
<1> QED
  BY <1>1, <1>2

\* The first state has the types.
LEMMA InitTyped == Init => Typed
<1> SUFFICES ASSUME Init PROVE Typed
  OBVIOUS
<1>1. Zero \in [Settings -> Int]
  <2>1. \A f \in Settings : Zero[f] \in Int
    BY SettingsAre, SMT DEF Zero
  <2>2. Zero = [f \in Settings |-> Zero[f]]
    BY SMT DEF Zero, Settings
  <2> QED
    BY <2>1, <2>2
<1>2. globalstr \in Integers32
  BY <1>1, Zenon DEF Init, Integers32
<1>3. \A p \in {GMON, CHIP, CHAN, MONCH} : p = {} \/ \E v \in Int : p = {v}
  BY DEF Init
<1>4. \A chip \in Chips : loads[chip] \subseteq 0 .. 31
  BY DEF Init
<1> QED
  BY <1>2, <1>3, <1>4, Zenon DEF Init, Typed

\* A step that keeps the mode and the monitor settings keeps the monitors apart.
LEMMA MonitorsKept ==
  ASSUME OneMonitor, GMON' = GMON,
         \A chip \in Chips, f \in Monitoring : globalstr'[chip][f] = globalstr[chip][f]
  PROVE  OneMonitor'
<1>1. \A chip \in Chips : /\ globalstr'[chip]["m0"] = globalstr[chip]["m0"]
                          /\ globalstr'[chip]["saux"] = globalstr[chip]["saux"]
  BY DEF Monitoring
<1> SUFFICES ASSUME NEW mode \in 0 .. 4, GMON = {mode}
             PROVE  /\ \A j, k \in Chips :
                         globalstr'[j].saux = 1 /\ globalstr'[k].saux = 1 => j = k
                    /\ \A k \in Chips : globalstr'[k].m0 = 0
  BY Zenon DEF OneMonitor
<1>2. /\ \A j, k \in Chips : globalstr[j].saux = 1 /\ globalstr[k].saux = 1 => j = k
      /\ \A k \in Chips : globalstr[k].m0 = 0
  BY Zenon DEF OneMonitor
<1> QED
  BY <1>1, <1>2

\* initializeMarsConfig keeps both parts of the invariant.
LEMMA InitializeKeeps ==
  ASSUME Typed, OneMonitor, InitializeMarsConfig,
         pc' \in {"hardware", "sockets", "config", "ready"},
         UNCHANGED <<udpInitialized, GMON, selection>>
  PROVE  Typed' /\ OneMonitor'
<1>1. globalstr \in Integers32
  BY DEF Typed
<1>2. OneMonitor'
  BY <1>1, Initialized, MonitorsKept
<1>3. globalstr' \in Integers32 /\ \A chip \in Chips : loads'[chip] \subseteq 0 .. 31
  BY <1>1, Initialized, Zenon
<1> QED
  BY <1>2, <1>3, Zenon DEF Typed, selection

\* A setting written on all chips keeps both parts.
LEMMA SetAllKeeps ==
  ASSUME Typed, OneMonitor, NEW field \in Settings \ Monitoring, NEW value \in Int,
         SetAll(field, value)
  PROVE  Typed' /\ OneMonitor'
<1>1. globalstr \in Integers32
  BY DEF Typed
<1>2. OneMonitor'
  BY <1>1, Written, MonitorsKept DEF SetAll
<1>3. globalstr' \in Integers32
  BY <1>1, Written
<1> QED
  BY <1>2, <1>3, Zenon DEF Typed, SetAll, Ready, selection

\* So does GMON: a mode resets all chips before it sets one.
LEMMA GmonKeeps ==
  ASSUME Typed, OneMonitor, NEW mode \in GmonValues, WriteGmon(mode)
  PROVE  Typed' /\ OneMonitor'
<1>1. mode \in Int
  BY ConfigAssumption
<1>2. PICK k \in Value(CHIP), n \in Value(CHAN) : globalstr' = Monitor(globalstr, mode, k, n)
  BY Zenon DEF WriteGmon
<1>3. k \in Int /\ n \in Int
  BY ValueType, Zenon DEF Typed
<1>4. globalstr \in Integers32
  BY DEF Typed
<1>5. globalstr' \in Integers32 /\ (mode \in 0 .. 4 => Apart(globalstr', k))
  BY <1>1, <1>2, <1>3, <1>4, Monitored, Zenon
<1>6. Typed'
  BY <1>1, <1>5, Zenon DEF Typed, WriteGmon, Ready, selection
<1>7. OneMonitor'
  <2> SUFFICES ASSUME NEW other \in 0 .. 4, GMON' = {other}
               PROVE  Apart(globalstr', k)
    BY Zenon DEF OneMonitor, Apart
  <2>1. mode = other
    BY Zenon DEF WriteGmon
  <2> QED
    BY <1>5, <2>1
<1> QED
  BY <1>6, <1>7

\* A step that may let a chip watch keeps the monitors apart in the modes 0 to 4.
LEMMA WatchingKeeps ==
  ASSUME Typed, OneMonitor, NEW k \in Int, NEW n \in Int, WatchInMode5(k, n), GMON' = GMON
  PROVE  globalstr' \in Integers32 /\ OneMonitor'
<1>1. globalstr \in Integers32
  BY DEF Typed
<1>2. globalstr' \in Integers32 /\ (GMON # {5} => globalstr' = globalstr)
  BY <1>1, WatchingStep
<1>3. CASE GMON = {5}
  <2>1. \A mode \in 0 .. 4 : GMON' # {mode}
    BY <1>3
  <2> QED
    BY <1>2, <2>1, Zenon DEF OneMonitor
<1>4. CASE GMON # {5}
  BY <1>2, <1>4, Zenon DEF OneMonitor
<1> QED
  BY <1>2, <1>3, <1>4

\* Every step keeps the types and the monitors apart.
LEMMA StepKeeps ==
  ASSUME Typed, OneMonitor, [Next]_vars
  PROVE  Typed' /\ OneMonitor'
<1>1. CASE InitializeHardware
  BY <1>1, InitializeKeeps DEF InitializeHardware
<1>2. CASE InitializeSockets
  BY <1>2, Zenon DEF InitializeSockets, selection, Typed, OneMonitor
<1>3. CASE InitializeAgain
  BY <1>3, InitializeKeeps DEF InitializeAgain
<1>4. ASSUME NEW field \in PlainFields, NEW value \in PlainValues[field],
             WritePlain(field, value)
      PROVE  Typed' /\ OneMonitor'
  <2>1. value \in Int
    BY ConfigAssumption, Zenon
  <2>2. field \in Settings \ Monitoring
    BY ConfigAssumption, OtherSettings
  <2> QED
    BY <1>4, <2>1, <2>2, SetAllKeeps DEF WritePlain
<1>5. ASSUME NEW value \in TdsValues, WriteTds(value)
      PROVE  Typed' /\ OneMonitor'
  <2>1. PICK d : d = 625000 \div (IF value = 0 THEN 1 ELSE value)
    OBVIOUS
  <2>2. d \in Int
    BY <2>1, ConfigAssumption, SMT
  <2>3. "tds" \in Settings \ Monitoring
    BY OtherSettings
  <2>4. SetAll("tds", d)
    BY <1>5, <2>1, SMT DEF WriteTds
  <2> QED
    BY <2>2, <2>3, <2>4, SetAllKeeps
<1>6. ASSUME NEW value \in GmonValues, WriteGmon(value)
      PROVE  Typed' /\ OneMonitor'
  BY <1>6, GmonKeeps
<1>7. ASSUME NEW value \in MonchValues, WriteMonch(value)
      PROVE  Typed' /\ OneMonitor'
  <2>1. value \in Int
    BY ConfigAssumption
  <2>2. PICK k \in Value(CHIP) : /\ CHAN' = IF k \in Chips THEN {k * 64 + value} ELSE CHAN
                                 /\ WatchInMode5(k, value)
    BY <1>7, Zenon DEF WriteMonch
  <2>3. k \in Int
    BY ValueType, Zenon DEF Typed
  <2>4. k * 64 + value \in Int
    BY <2>1, <2>3
  <2>5. globalstr' \in Integers32 /\ OneMonitor'
    BY <1>7, <2>1, <2>2, <2>3, WatchingKeeps, Zenon DEF WriteMonch
  <2>6. CHAN' = {} \/ \E v \in Int : CHAN' = {v}
    BY <2>2, <2>4, Zenon DEF Typed
  <2>7. /\ MONCH' = {value} /\ UNCHANGED <<GMON, CHIP, selected, pc, udpInitialized, loads>>
    BY <1>7, Zenon DEF WriteMonch, Ready
  <2>8. \A p \in {GMON, CHIP, CHAN, MONCH}' : p = {} \/ \E v \in Int : p = {v}
    BY <2>1, <2>6, <2>7 DEF Typed
  <2> QED
    BY <2>5, <2>7, <2>8, Zenon DEF Typed
<1>8. ASSUME NEW value \in ChipValues, WriteChip(value)
      PROVE  Typed' /\ OneMonitor'
  <2>1. value \in Int
    BY ConfigAssumption
  <2>2. PICK c \in Value(CHAN) : CHAN' = {value * 64 + Remainder(c, 64)}
    BY <1>8, Zenon DEF WriteChip
  <2>3. PICK n \in Value(MONCH) : WatchInMode5(value, n)
    BY <1>8, Zenon DEF WriteChip
  <2>4. c \in Int /\ n \in Int
    BY ValueType, Zenon DEF Typed
  <2>5. value * 64 + Remainder(c, 64) \in Int
    BY <2>1, <2>4, QuotientType
  <2>6. globalstr' \in Integers32 /\ OneMonitor'
    BY <1>8, <2>1, <2>3, <2>4, WatchingKeeps, Zenon DEF WriteChip
  <2>7. /\ CHIP' = {value} /\ UNCHANGED <<GMON, MONCH, selected, pc, udpInitialized, loads>>
    BY <1>8, Zenon DEF WriteChip, Ready
  <2>8. \A p \in {GMON, CHIP, CHAN, MONCH}' : p = {} \/ \E v \in Int : p = {v}
    BY <2>1, <2>2, <2>5, <2>7 DEF Typed
  <2> QED
    BY <2>6, <2>7, <2>8, Zenon DEF Typed
<1>9. ASSUME NEW value \in ChanValues, WriteChan(value)
      PROVE  Typed' /\ OneMonitor'
  <2>1. value \in Int
    BY ConfigAssumption
  <2>2. Quotient(value, 64) \in Int /\ Remainder(value, 64) \in Int
    BY <2>1, QuotientType
  <2>3. globalstr' \in Integers32 /\ OneMonitor'
    BY <1>9, <2>2, WatchingKeeps, Zenon DEF WriteChan
  <2>4. selected' \in BOOLEAN
    BY <1>9, Zenon DEF WriteChan
  <2>5. /\ CHIP' = {Quotient(value, 64)} /\ MONCH' = {Remainder(value, 64)}
        /\ CHAN' = {value} /\ UNCHANGED <<GMON, pc, udpInitialized, loads>>
    BY <1>9, Zenon DEF WriteChan, Ready
  <2>6. \A p \in {GMON, CHIP, CHAN, MONCH}' : p = {} \/ \E v \in Int : p = {v}
    BY <2>1, <2>2, <2>5 DEF Typed
  <2> QED
    BY <2>3, <2>4, <2>5, <2>6, Zenon DEF Typed
<1>10. CASE UNCHANGED vars
  BY <1>10, Zenon DEF vars, Typed, OneMonitor
<1> QED
  BY <1>1, <1>2, <1>3, <1>4, <1>5, <1>6, <1>7, <1>8, <1>9, <1>10, Zenon DEF Next

\* A parameter that is undefined or holds an int is what TypeOK asks for.
LEMMA TypedIsTypeOK == Typed => TypeOK
<1> SUFFICES ASSUME Typed PROVE TypeOK
  OBVIOUS
<1>1. ASSUME NEW p \in {GMON, CHIP, CHAN, MONCH}
      PROVE  p \subseteq Int /\ Cardinality(p) <= 1
  <2>1. p = {} \/ \E v \in Int : p = {v}
    BY Zenon DEF Typed
  <2>2. CASE p = {}
    BY <2>2, FS_EmptySet, SMT
  <2>3. ASSUME NEW v \in Int, p = {v}
        PROVE  p \subseteq Int /\ Cardinality(p) <= 1
    <3>1. Cardinality(p) = 1
      BY <2>3, FS_Singleton, Zenon
    <3> QED
      BY <2>3, <3>1
  <2> QED
    BY <2>1, <2>2, <2>3
<1>2. ASSUME NEW chip \in Chips, NEW f \in DOMAIN globalstr[chip]
      PROVE  globalstr[chip][f] \in Int
  <2>1. globalstr[chip] \in [Settings -> Int]
    BY Zenon DEF Typed, Integers32
  <2> QED
    BY <2>1
<1> QED
  BY <1>1, <1>2, Zenon DEF Typed, TypeOK

\* The types and the monitors in every reachable state.
LEMMA AlwaysKept == Spec => [](Typed /\ OneMonitor)
<1>1. Init => Typed /\ OneMonitor
  <2> SUFFICES ASSUME Init PROVE OneMonitor
    BY InitTyped
  <2>1. \A chip \in Chips : globalstr[chip].saux = 0 /\ globalstr[chip].m0 = 0
    BY SMT DEF Init, Zero
  <2> QED
    BY <2>1 DEF OneMonitor
<1>2. Typed /\ OneMonitor /\ [Next]_vars => (Typed /\ OneMonitor)'
  BY StepKeeps
<1> QED
  BY <1>1, <1>2, PTL DEF Spec

\* Settings, words and parameters keep their types, whatever clients write (writeInt32).
THEOREM TypesHold == Spec => []TypeOK
  BY AlwaysKept, TypedIsTypeOK, PTL

\* In the monitor modes 0 to 4 at most one chip drives the shared line and no channel
\* monitor is on, in whatever order GMON, CHIP, MONCH, CHAN and the rest are written
\* and whatever garbage an undefined parameter reads as (setGlobalMonitor).
THEOREM OneMonitorAlways == Spec => []OneMonitor
  BY AlwaysKept, PTL

-----------------------------------------------------------------------------
(* Reading a word back.                                                    *)

\* The widths of fields are small, so that their powers of two are numbers.
LEMMA Powers ==
  /\ 2^0 = 1 /\ 2^1 = 2 /\ 2^2 = 4 /\ 2^3 = 8 /\ 2^4 = 16 /\ 2^5 = 32
  /\ 2^6 = 64 /\ 2^7 = 128 /\ 2^8 = 256 /\ 2^9 = 512 /\ 2^10 = 1024
OBVIOUS

\* What lies below bit n is what lies below bit n - 1, and that bit.
LEMMA LowBits ==
  ASSUME NEW v \in Int, NEW n \in 1 .. 10
  PROVE  v % 2^n = (v % 2^(n - 1)) + (IF Bit(v, n - 1) THEN 2^(n - 1) ELSE 0)
<1> USE Powers DEF Bit
<1>1. CASE n = 1
  BY <1>1
<1>2. CASE n = 2
  BY <1>2
<1>3. CASE n = 3
  BY <1>3
<1>4. CASE n = 4
  BY <1>4
<1>5. CASE n = 5
  BY <1>5
<1>6. CASE n = 6
  BY <1>6
<1>7. CASE n = 7
  BY <1>7
<1>8. CASE n = 8
  BY <1>8
<1>9. CASE n = 9
  BY <1>9
<1>10. CASE n = 10
  BY <1>10
<1>11. n = 1 \/ n = 2 \/ n = 3 \/ n = 4 \/ n = 5 \/ n = 6 \/ n = 7 \/ n = 8 \/ n = 9 \/ n = 10
  OBVIOUS
<1> QED
  BY <1>1, <1>2, <1>3, <1>4, <1>5, <1>6, <1>7, <1>8, <1>9, <1>10, <1>11, Zenon

\* The equation that defines the values in Unpack.
Accumulates(value, word, position, width) ==
  value = [n \in 0 .. width |->
             IF n = 0 THEN 0
             ELSE value[n - 1] + (IF position + n - 1 \in word THEN 2^(n - 1) ELSE 0)]

\* It has a solution, for a field that holds the bits of a number.
LEMMA SomeValue ==
  ASSUME NEW word, NEW position \in Nat, NEW width \in 1 .. 10, NEW v \in Int,
         \A b \in 0 .. width - 1 : position + b \in word <=> Bit(v, b)
  PROVE  Accumulates([n \in 0 .. width |-> v % 2^n], word, position, width)
<1> DEFINE value == [n \in 0 .. width |-> v % 2^n]
<1>1. ASSUME NEW n \in 0 .. width
      PROVE  value[n] = IF n = 0 THEN 0
                        ELSE value[n - 1]
                               + (IF position + n - 1 \in word THEN 2^(n - 1) ELSE 0)
  <2>1. CASE n = 0
    BY <2>1, Powers
  <2>2. CASE n # 0
    <3>1. n \in 1 .. 10 /\ n - 1 \in 0 .. width - 1 /\ n - 1 \in 0 .. width
          /\ position + (n - 1) = position + n - 1
      BY <2>2
    <3>2. position + n - 1 \in word <=> Bit(v, n - 1)
      BY <3>1, Zenon
    <3>3. value[n] = v % 2^n /\ value[n - 1] = v % 2^(n - 1)
      BY <3>1, Zenon
    <3> HIDE DEF value
    <3> QED
      BY <2>2, <3>1, <3>2, <3>3, LowBits, Zenon
  <2> QED
    BY <2>1, <2>2
<1> QED
  BY <1>1, Zenon DEF Accumulates

\* Every solution gives that number, cut to the width of the field.
LEMMA Unpacked ==
  ASSUME NEW word, NEW position \in Nat, NEW width \in 1 .. 10, NEW v \in Int,
         \A b \in 0 .. width - 1 : position + b \in word <=> Bit(v, b)
  PROVE  Unpack(word, position, width) = v % 2^width
<1> DEFINE value == CHOOSE f : Accumulates(f, word, position, width)
<1>1. Accumulates(value, word, position, width)
  BY SomeValue, Zenon
<1>2. Unpack(word, position, width) = value[width]
  BY Zenon DEF Unpack, Accumulates
<1> HIDE DEF value
<1>3. value[0] = v % 2^0
  <2>1. 0 \in 0 .. width /\ v % 2^0 = 0
    BY Powers
  <2> QED
    BY <1>1, <2>1, Zenon DEF Accumulates
<1>4. ASSUME NEW n \in 1 .. width, value[n - 1] = v % 2^(n - 1)
      PROVE  value[n] = v % 2^n
  <2>1. n \in 0 .. width /\ n # 0 /\ n \in 1 .. 10 /\ n - 1 \in 0 .. width - 1
        /\ position + (n - 1) = position + n - 1
    OBVIOUS
  <2>2. value[n] = value[n - 1] + (IF position + n - 1 \in word THEN 2^(n - 1) ELSE 0)
    BY <1>1, <2>1, Zenon DEF Accumulates
  <2>3. position + n - 1 \in word <=> Bit(v, n - 1)
    BY <2>1, Zenon
  <2> QED
    BY <1>4, <2>1, <2>2, <2>3, LowBits, Zenon
<1> DEFINE Right(n) == n <= width => value[n] = v % 2^n
<1>5. ASSUME NEW n \in 1 .. 10, Right(n - 1) PROVE Right(n)
  <2>1. ASSUME n <= width PROVE n \in 1 .. width /\ n - 1 <= width
    BY <2>1
  <2> QED
    BY <1>4, <1>5, <2>1, Zenon
<1>6. Right(0)
  BY <1>3
<1> HIDE DEF Right
<1>7. \A n \in 0 .. 10 : Right(n)
  <2>1. Right(1) /\ Right(2)
    BY <1>5, <1>6
  <2>2. Right(3) /\ Right(4)
    BY <1>5, <2>1
  <2>3. Right(5) /\ Right(6)
    BY <1>5, <2>2
  <2>4. Right(7) /\ Right(8)
    BY <1>5, <2>3
  <2>5. Right(9) /\ Right(10)
    BY <1>5, <2>4
  <2> QED
    BY <1>6, <2>1, <2>2, <2>3, <2>4, <2>5
<1>8. Right(width) /\ width <= width
  BY <1>7
<1> QED
  BY <1>2, <1>8 DEF Right

\* What is packed are settings.
LEMMA PackedAreSettings == Packed \subseteq Settings
<1>1. \A f \in Packed : \/ f = "st" \/ f = "g" \/ f = "pol" \/ f = "eblk" \/ f = "gmon"
                        \/ f = "puen" \/ f = "mfs" \/ f = "tds" \/ f = "tdm" \/ f = "th"
  BY PackedFields, Zenon
<1>2. /\ "st" \in Settings /\ "g" \in Settings /\ "pol" \in Settings /\ "eblk" \in Settings
      /\ "gmon" \in Settings /\ "puen" \in Settings /\ "mfs" \in Settings
      /\ "tds" \in Settings /\ "tdm" \in Settings /\ "th" \in Settings
  BY SettingsAre, Zenon
<1> QED
  BY <1>1, <1>2, Zenon

\* A field has one to ten bits.
LEMMA FieldWidths ==
  ASSUME NEW f \in Packed
  PROVE  Layout[f][2] \in 1 .. 10
  BY PackedFields, LayoutOf, SMT

\* Whatever values clients write, each packed setting is read back from its word, cut to
\* its width: no field leaks into another, and none is lost (packGlobalConfig).
THEOREM RoundTripAlways == Spec => []RoundTrip
<1>1. Typed => RoundTrip
  <2> SUFFICES ASSUME Typed, NEW chip \in Chips, NEW f \in Packed
               PROVE  Unpack(PackGlobalConfig(globalstr[chip]), Layout[f][1], Layout[f][2])
                        = globalstr[chip][f] % 2^Layout[f][2]
    BY DEF RoundTrip
  <2>1. f \in Settings /\ globalstr \in [Chips -> [Settings -> Int]]
    BY PackedAreSettings, Zenon DEF Typed, Integers32
  <2>2. globalstr[chip][f] \in Int
    BY <2>1
  <2>3. \A b \in 0 .. Layout[f][2] - 1 :
          Layout[f][1] + b \in PackGlobalConfig(globalstr[chip]) <=> Bit(globalstr[chip][f], b)
    BY PackingFaithful, Zenon
  <2>4. Layout[f][1] \in Nat /\ Layout[f][2] \in 1 .. 10
    BY FieldsInWord, FieldWidths
  <2> QED
    BY <2>2, <2>3, <2>4, Unpacked, Zenon
<1> QED
  BY <1>1, AlwaysKept, PTL

-----------------------------------------------------------------------------
(* The selection of a channel.                                             *)

\* Clients select chips, channels and channels of chips that exist.
InRange ==
  /\ ChipValues \subseteq Chips
  /\ ChanValues \subseteq 0 .. 64 * NChips - 1
  /\ MonchValues \subseteq 0 .. 63

\* A channel number names a chip and one of its channels.
LEMMA Divided ==
  ASSUME NEW value \in 0 .. 64 * NChips - 1
  PROVE  /\ Quotient(value, 64) \in Chips
         /\ Remainder(value, 64) \in 0 .. 63
         /\ value = Quotient(value, 64) * 64 + Remainder(value, 64)
  BY ConfigAssumption, SMT DEF Quotient, Remainder, Chips

\* The channel of a channel number made of the two.
LEMMA Composed ==
  ASSUME NEW c \in Chips, NEW m \in 0 .. 63
  PROVE  Remainder(c * 64 + m, 64) = m
  BY ConfigAssumption, SMT DEF Quotient, Remainder, Chips

\* CHIP, MONCH and CHAN name channel m of chip c.
Selects(c, m) == CHIP = {c} /\ MONCH = {m} /\ CHAN = {c * 64 + m}

\* Every write keeps the three parameters in step.
LEMMA SelectionStep ==
  ASSUME InRange, OneSelection, [Next]_vars
  PROVE  OneSelection'
<1> SUFFICES ASSUME selected'
             PROVE  \E c \in Chips, m \in 0 .. 63 : Selects(c, m)'
  BY Zenon DEF OneSelection, Selects
<1>1. CASE UNCHANGED selection
  BY <1>1, Zenon DEF selection, OneSelection, Selects
<1>2. ASSUME NEW value \in MonchValues, WriteMonch(value)
      PROVE  \E c \in Chips, m \in 0 .. 63 : Selects(c, m)'
  <2>1. PICK c \in Chips, m \in 0 .. 63 : Selects(c, m)
    BY <1>2, Zenon DEF WriteMonch, OneSelection, Selects
  <2>2. Value(CHIP) = {c}
    BY <2>1 DEF Value, Selects
  <2>3. CHAN' = {c * 64 + value}
    BY <1>2, <2>2, Zenon DEF WriteMonch
  <2>4. value \in 0 .. 63
    BY Zenon DEF InRange
  <2> QED
    BY <1>2, <2>1, <2>3, <2>4, Zenon DEF WriteMonch, Selects
<1>3. ASSUME NEW value \in ChipValues, WriteChip(value)
      PROVE  \E c \in Chips, m \in 0 .. 63 : Selects(c, m)'
  <2>1. PICK c \in Chips, m \in 0 .. 63 : Selects(c, m)
    BY <1>3, Zenon DEF WriteChip, OneSelection, Selects
  <2>2. Value(CHAN) = {c * 64 + m}
    BY <2>1 DEF Value, Selects
  <2>3. CHAN' = {value * 64 + Remainder(c * 64 + m, 64)}
    BY <1>3, <2>2, Zenon DEF WriteChip
  <2>4. CHAN' = {value * 64 + m}
    BY <2>3, Composed
  <2>5. value \in Chips
    BY Zenon DEF InRange
  <2> QED
    BY <1>3, <2>1, <2>4, <2>5, Zenon DEF WriteChip, Selects
<1>4. ASSUME NEW value \in ChanValues, WriteChan(value)
      PROVE  \E c \in Chips, m \in 0 .. 63 : Selects(c, m)'
  <2>1. value \in 0 .. 64 * NChips - 1
    BY Zenon DEF InRange
  <2>2. /\ Quotient(value, 64) \in Chips
        /\ Remainder(value, 64) \in 0 .. 63
        /\ value = Quotient(value, 64) * 64 + Remainder(value, 64)
    BY <2>1, Divided
  <2>3. Selects(Quotient(value, 64), Remainder(value, 64))'
    BY <1>4, <2>2, Zenon DEF WriteChan, Selects
  <2> QED
    BY <2>2, <2>3, Zenon
<1>5. ASSUME NEW value \in GmonValues, WriteGmon(value)
      PROVE  UNCHANGED selection
  BY <1>5, Zenon DEF WriteGmon
<1>6. ASSUME NEW value \in TdsValues, WriteTds(value)
      PROVE  UNCHANGED selection
  <2>1. PICK d : SetAll("tds", d)
    BY <1>6, SMT DEF WriteTds
  <2> QED
    BY <2>1, Zenon DEF SetAll, selection
<1>7. CASE InitializeHardware \/ InitializeSockets \/ InitializeAgain \/ UNCHANGED vars
  BY <1>1, <1>7, Zenon
     DEF InitializeHardware, InitializeSockets, InitializeAgain, vars, selection
<1>8. ASSUME NEW field \in PlainFields, NEW value \in PlainValues[field],
             WritePlain(field, value)
      PROVE  UNCHANGED selection
  BY <1>8, Zenon DEF WritePlain, SetAll, selection
<1> QED
  BY <1>1, <1>2, <1>3, <1>4, <1>5, <1>6, <1>7, <1>8, Zenon DEF Next

\* Once CHAN has been written, CHIP, MONCH and CHAN name one channel of one chip, for
\* every number of chips and after every sequence of writes of channels that exist
\* (writeInt32).
THEOREM SelectionAgrees == ASSUME InRange PROVE Spec => []OneSelection
<1>1. Init => OneSelection
  BY DEF Init, OneSelection
<1>2. OneSelection /\ [Next]_vars => OneSelection'
  BY SelectionStep
<1> QED
  BY <1>1, <1>2, PTL DEF Spec

-----------------------------------------------------------------------------
(* What goes out.                                                          *)

\* The settings of a chip of which some have their defaults.
Defaulted(g, fields) == g \in [Settings -> Int] /\ \A f \in fields : g[f] = Defaults[f]

\* One more setting gets its default.
LEMMA OneMoreDefault ==
  ASSUME NEW g, NEW fields, Defaulted(g, fields), fields \subseteq Settings,
         NEW f \in Settings, Defaults[f] \in Int, NEW h, h = [g EXCEPT ![f] = Defaults[f]]
  PROVE  Defaulted(h, fields \cup {f})
<1>1. g \in [Settings -> Int] /\ \A e \in fields : g[e] = Defaults[e]
  BY DEF Defaulted
<1>2. PICK v \in Int : v = Defaults[f]
  OBVIOUS
<1>3. /\ h \in [Settings -> Int]
      /\ \A e \in Settings : h[e] = IF e = f THEN v ELSE g[e]
  BY <1>1, <1>2, OneChanged, Zenon
<1>4. \A e \in fields \cup {f} : h[e] = Defaults[e]
  BY <1>1, <1>2, <1>3
<1> QED
  BY <1>3, <1>4, Zenon DEF Defaulted

\* The defaults, one by one.
LEMMA DefaultOf ==
  /\ Defaults["st"] = 1 /\ Defaults["g"] = 0 /\ Defaults["pol"] = 1 /\ Defaults["eblk"] = 1
  /\ Defaults["gmon"] = 0 /\ Defaults["puen"] = 0 /\ Defaults["mfs"] = 0 /\ Defaults["tds"] = 0
  /\ Defaults["tdm"] = 0 /\ Defaults["th"] = 512
  BY DEF Defaults

\* initializeMarsConfig gives every setting that is packed its default.
LEMMA AllDefaults ==
  ASSUME NEW g \in [Settings -> Int]
  PROVE  \A f \in Packed : InitialOf(g)[f] = Defaults[f]
<1>1. PICK g1 : g1 = [g EXCEPT !.st = 1]
  OBVIOUS
<1>2. PICK g2 : g2 = [g1 EXCEPT !.g = 0]
  OBVIOUS
<1>3. PICK g3 : g3 = [g2 EXCEPT !.pol = 1]
  OBVIOUS
<1>4. PICK g4 : g4 = [g3 EXCEPT !.eblk = 1]
  OBVIOUS
<1>5. PICK g5 : g5 = [g4 EXCEPT !.gmon = 0]
  OBVIOUS
<1>6. PICK g6 : g6 = [g5 EXCEPT !.puen = 0]
  OBVIOUS
<1>7. PICK g7 : g7 = [g6 EXCEPT !.mfs = 0]
  OBVIOUS
<1>8. PICK g8 : g8 = [g7 EXCEPT !.tds = 0]
  OBVIOUS
<1>9. PICK g9 : g9 = [g8 EXCEPT !.tdm = 0]
  OBVIOUS
<1>10. PICK g10 : g10 = [g9 EXCEPT !.th = 512]
  OBVIOUS
<1>11. InitialOf(g) = g10
  BY <1>1, <1>2, <1>3, <1>4, <1>5, <1>6, <1>7, <1>8, <1>9, <1>10, Zenon DEF InitialOf
<1>12. Defaulted(g, {})
  BY DEF Defaulted
<1>13. \A f \in Packed : f \in Settings /\ Defaults[f] \in Int
  <2>1. \A f \in Packed : Defaults[f] \in Int
    BY PackedFields, DefaultOf, SMT
  <2> QED
    BY <2>1, PackedAreSettings
<1>14. Defaulted(g1, {"st"})
  <2>1. "st" \in Packed /\ Defaults["st"] = 1
    BY PackedFields, DefaultOf, Zenon
  <2>2. {} \subseteq Settings
    BY SettingsAre, SMT
  <2>3. Defaulted(g1, {} \cup {"st"})
    BY <1>12, <1>1, <1>13, <2>1, <2>2, OneMoreDefault, Zenon
  <2>4. {} \cup {"st"} = {"st"}
    OBVIOUS
  <2> QED
    BY <2>3, <2>4, Zenon
<1>15. Defaulted(g2, {"st", "g"})
  <2>1. "g" \in Packed /\ Defaults["g"] = 0
    BY PackedFields, DefaultOf, Zenon
  <2>2. {"st"} \subseteq Settings
    BY SettingsAre, SMT
  <2>3. Defaulted(g2, {"st"} \cup {"g"})
    BY <1>14, <1>2, <1>13, <2>1, <2>2, OneMoreDefault, Zenon
  <2>4. {"st"} \cup {"g"} = {"st", "g"}
    OBVIOUS
  <2> QED
    BY <2>3, <2>4, Zenon
<1>16. Defaulted(g3, {"st", "g", "pol"})
  <2>1. "pol" \in Packed /\ Defaults["pol"] = 1
    BY PackedFields, DefaultOf, Zenon
  <2>2. {"st", "g"} \subseteq Settings
    BY SettingsAre, SMT
  <2>3. Defaulted(g3, {"st", "g"} \cup {"pol"})
    BY <1>15, <1>3, <1>13, <2>1, <2>2, OneMoreDefault, Zenon
  <2>4. {"st", "g"} \cup {"pol"} = {"st", "g", "pol"}
    OBVIOUS
  <2> QED
    BY <2>3, <2>4, Zenon
<1>17. Defaulted(g4, {"st", "g", "pol", "eblk"})
  <2>1. "eblk" \in Packed /\ Defaults["eblk"] = 1
    BY PackedFields, DefaultOf, Zenon
  <2>2. {"st", "g", "pol"} \subseteq Settings
    BY SettingsAre, SMT
  <2>3. Defaulted(g4, {"st", "g", "pol"} \cup {"eblk"})
    BY <1>16, <1>4, <1>13, <2>1, <2>2, OneMoreDefault, Zenon
  <2>4. {"st", "g", "pol"} \cup {"eblk"} = {"st", "g", "pol", "eblk"}
    OBVIOUS
  <2> QED
    BY <2>3, <2>4, Zenon
<1>18. Defaulted(g5, {"st", "g", "pol", "eblk", "gmon"})
  <2>1. "gmon" \in Packed /\ Defaults["gmon"] = 0
    BY PackedFields, DefaultOf, Zenon
  <2>2. {"st", "g", "pol", "eblk"} \subseteq Settings
    BY SettingsAre, SMT
  <2>3. Defaulted(g5, {"st", "g", "pol", "eblk"} \cup {"gmon"})
    BY <1>17, <1>5, <1>13, <2>1, <2>2, OneMoreDefault, Zenon
  <2>4. {"st", "g", "pol", "eblk"} \cup {"gmon"} = {"st", "g", "pol", "eblk", "gmon"}
    OBVIOUS
  <2> QED
    BY <2>3, <2>4, Zenon
<1>19. Defaulted(g6, {"st", "g", "pol", "eblk", "gmon", "puen"})
  <2>1. "puen" \in Packed /\ Defaults["puen"] = 0
    BY PackedFields, DefaultOf, Zenon
  <2>2. {"st", "g", "pol", "eblk", "gmon"} \subseteq Settings
    BY SettingsAre, SMT
  <2>3. Defaulted(g6, {"st", "g", "pol", "eblk", "gmon"} \cup {"puen"})
    BY <1>18, <1>6, <1>13, <2>1, <2>2, OneMoreDefault, Zenon
  <2>4. {"st", "g", "pol", "eblk", "gmon"} \cup {"puen"} = {"st", "g", "pol", "eblk", "gmon", "puen"}
    OBVIOUS
  <2> QED
    BY <2>3, <2>4, Zenon
<1>20. Defaulted(g7, {"st", "g", "pol", "eblk", "gmon", "puen", "mfs"})
  <2>1. "mfs" \in Packed /\ Defaults["mfs"] = 0
    BY PackedFields, DefaultOf, Zenon
  <2>2. {"st", "g", "pol", "eblk", "gmon", "puen"} \subseteq Settings
    BY SettingsAre, SMT
  <2>3. Defaulted(g7, {"st", "g", "pol", "eblk", "gmon", "puen"} \cup {"mfs"})
    BY <1>19, <1>7, <1>13, <2>1, <2>2, OneMoreDefault, Zenon
  <2>4. {"st", "g", "pol", "eblk", "gmon", "puen"} \cup {"mfs"} = {"st", "g", "pol", "eblk", "gmon", "puen", "mfs"}
    OBVIOUS
  <2> QED
    BY <2>3, <2>4, Zenon
<1>21. Defaulted(g8, {"st", "g", "pol", "eblk", "gmon", "puen", "mfs", "tds"})
  <2>1. "tds" \in Packed /\ Defaults["tds"] = 0
    BY PackedFields, DefaultOf, Zenon
  <2>2. {"st", "g", "pol", "eblk", "gmon", "puen", "mfs"} \subseteq Settings
    BY SettingsAre, SMT
  <2>3. Defaulted(g8, {"st", "g", "pol", "eblk", "gmon", "puen", "mfs"} \cup {"tds"})
    BY <1>20, <1>8, <1>13, <2>1, <2>2, OneMoreDefault, Zenon
  <2>4. {"st", "g", "pol", "eblk", "gmon", "puen", "mfs"} \cup {"tds"} = {"st", "g", "pol", "eblk", "gmon", "puen", "mfs", "tds"}
    OBVIOUS
  <2> QED
    BY <2>3, <2>4, Zenon
<1>22. Defaulted(g9, {"st", "g", "pol", "eblk", "gmon", "puen", "mfs", "tds", "tdm"})
  <2>1. "tdm" \in Packed /\ Defaults["tdm"] = 0
    BY PackedFields, DefaultOf, Zenon
  <2>2. {"st", "g", "pol", "eblk", "gmon", "puen", "mfs", "tds"} \subseteq Settings
    BY SettingsAre, SMT
  <2>3. Defaulted(g9, {"st", "g", "pol", "eblk", "gmon", "puen", "mfs", "tds"} \cup {"tdm"})
    BY <1>21, <1>9, <1>13, <2>1, <2>2, OneMoreDefault, Zenon
  <2>4. {"st", "g", "pol", "eblk", "gmon", "puen", "mfs", "tds"} \cup {"tdm"} = {"st", "g", "pol", "eblk", "gmon", "puen", "mfs", "tds", "tdm"}
    OBVIOUS
  <2> QED
    BY <2>3, <2>4, Zenon
<1>23. Defaulted(g10, {"st", "g", "pol", "eblk", "gmon", "puen", "mfs", "tds", "tdm", "th"})
  <2>1. "th" \in Packed /\ Defaults["th"] = 512
    BY PackedFields, DefaultOf, Zenon
  <2>2. {"st", "g", "pol", "eblk", "gmon", "puen", "mfs", "tds", "tdm"} \subseteq Settings
    BY SettingsAre, SMT
  <2>3. Defaulted(g10, {"st", "g", "pol", "eblk", "gmon", "puen", "mfs", "tds", "tdm"} \cup {"th"})
    BY <1>22, <1>10, <1>13, <2>1, <2>2, OneMoreDefault, Zenon
  <2>4. {"st", "g", "pol", "eblk", "gmon", "puen", "mfs", "tds", "tdm"} \cup {"th"} = {"st", "g", "pol", "eblk", "gmon", "puen", "mfs", "tds", "tdm", "th"}
    OBVIOUS
  <2> QED
    BY <2>3, <2>4, Zenon
<1> QED
  BY <1>11, <1>23, PackedFields, Zenon DEF Defaulted

\* The word of a chip depends on the settings that are packed.
LEMMA SameWord ==
  ASSUME NEW g, NEW h, \A f \in Packed : g[f] = h[f]
  PROVE  PackGlobalConfig(g) = PackGlobalConfig(h)
<1>1. \A f \in Packed : PackBits(g[f], Layout[f][1], Layout[f][2])
                          = PackBits(h[f], Layout[f][1], Layout[f][2])
  BY Zenon
<1> QED
  BY <1>1, Zenon DEF PackGlobalConfig

\* The words are the initial ones once they have been made, and so is what goes out.
WordsInv ==
  /\ pc # "hardware" => loads = InitialWords
  /\ sent \subseteq {InitialWords}

\* initializeMarsConfig makes them, whatever it finds.
LEMMA InitializeWords ==
  ASSUME Typed, InitializeMarsConfig
  PROVE  loads' = InitialWords
<1>1. globalstr \in [Chips -> [Settings -> Int]]
  BY Zenon DEF Typed, Integers32
<1>2. globalstr' = [chip \in Chips |-> InitialOf(globalstr[chip])]
  BY Zenon DEF InitializeMarsConfig, InitialOf
<1>3. ASSUME NEW chip \in Chips
      PROVE  PackGlobalConfig(globalstr'[chip]) = PackGlobalConfig(Defaults)
  <2>1. globalstr'[chip] = InitialOf(globalstr[chip]) /\ globalstr[chip] \in [Settings -> Int]
    BY <1>1, <1>2
  <2>2. \A f \in Packed : globalstr'[chip][f] = Defaults[f]
    BY <2>1, AllDefaults, Zenon
  <2> QED
    BY <2>2, SameWord, Zenon
<1>4. loads' = [chip \in Chips |-> PackGlobalConfig(globalstr'[chip])]
  <2>1. loads' = WrapOptimized(globalstr')
    BY DEF InitializeMarsConfig
  <2> QED
    BY <2>1, Zenon DEF WrapOptimized
<1> QED
  BY <1>3, <1>4, Zenon DEF InitialWords

\* Writes send loads as it is, if they send anything.
LEMMA WritesSend ==
  ASSUME WordsInv, Ready, SendMarsConfiguration(loads) \/ UNCHANGED sent
  PROVE  WordsInv'
BY DEF WordsInv, Ready, SendMarsConfiguration

\* Every step.
LEMMA NextWords == WordsInv /\ Typed /\ [Next]_vars => WordsInv'
<1> SUFFICES ASSUME WordsInv, Typed, [Next]_vars PROVE WordsInv'
  OBVIOUS
<1>1. CASE InitializeHardware
  <2>1. loads' = InitialWords
    BY <1>1, InitializeWords DEF InitializeHardware
  <2>2. sent' \subseteq {InitialWords}
    BY <1>1, <2>1 DEF InitializeHardware, SendMarsConfiguration, WordsInv
  <2> QED
    BY <2>1, <2>2 DEF WordsInv
<1>2. CASE InitializeSockets
  BY <1>2 DEF InitializeSockets, WordsInv
<1>3. CASE InitializeAgain
  <2>1. loads' = InitialWords /\ UNCHANGED sent
    BY <1>3, InitializeWords DEF InitializeAgain
  <2> QED
    BY <2>1 DEF WordsInv
<1>4. ASSUME NEW field, NEW value, SetAll(field, value) PROVE WordsInv'
  BY <1>4, WritesSend DEF SetAll
<1>5. ASSUME NEW value, WriteTds(value) PROVE WordsInv'
  BY <1>4, <1>5, SMT DEF WriteTds
<1>6. ASSUME NEW mode, WriteGmon(mode) PROVE WordsInv'
  BY <1>6, WritesSend DEF WriteGmon
<1>7. ASSUME NEW k, NEW n, WatchInMode5(k, n)
      PROVE  SendMarsConfiguration(loads) \/ UNCHANGED sent
  BY <1>7 DEF WatchInMode5
<1>8. ASSUME NEW value, WriteMonch(value) \/ WriteChip(value) \/ WriteChan(value)
      PROVE  WordsInv'
  <2>1. Ready
    BY <1>8 DEF WriteMonch, WriteChip, WriteChan
  <2>2. \E k, n : WatchInMode5(k, n)
    BY <1>8, Zenon DEF WriteMonch, WriteChip, WriteChan
  <2> QED
    BY <1>7, <2>1, <2>2, WritesSend, Zenon
<1>9. CASE UNCHANGED vars
  BY <1>9 DEF vars, WordsInv
<1> QED
  BY <1>1, <1>2, <1>3, <1>4, <1>5, <1>6, <1>8, <1>9, Zenon DEF Next, WritePlain

\* The device gets the words of the initial settings and no others, whatever clients
\* write and however often (updateLoadsArray, which would refresh loads, has no caller).
THEOREM OnlyInitialWords == Spec => []SentInitial
<1>1. Init => WordsInv
  BY DEF Init, WordsInv
<1>2. WordsInv => SentInitial
  BY DEF WordsInv, SentInitial
<1> QED
  BY <1>1, <1>2, AlwaysKept, NextWords, PTL DEF Spec
=============================================================================
