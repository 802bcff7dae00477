---------------------- MODULE ControlChannelAgreement ----------------------
(***************************************************************************)
(* What a settled setting sent is what arrives: for every parameter whose  *)
(* last write went out undisturbed, the last request for its register      *)
(* carries the setting, or the register holds it and the last answer tells *)
(* so, or the read-back shows it.  Agreement, TimeWhole and TriggerFollows *)
(* are what this says when all is quiet.                                   *)
(***************************************************************************)
EXTENDS ControlChannelProofs

\* The values of an epicsInt32.
Word == {w \in Int : -2147483648 <= w /\ w <= 2147483647}

\* What clients write to a register of its own, or as an address, is a word.
WordValues ==
  /\ \A p \in DOMAIN NumberWrites \cap DOMAIN RegisterOf : NumberWrites[p] \subseteq Word
  /\ Texts \subseteq [host : Word, normal : BOOLEAN]

-----------------------------------------------------------------------------
(* Words.                                                                  *)

Octet == 0 .. 255
High == {h \in Int : -128 <= h /\ h <= 127}
Pack(h, c, b, a) == h * 16777216 + c * 65536 + b * 256 + a
Signed(byte) == IF byte >= 128 THEN byte - 256 ELSE byte

\* Whatever is swapped, the result is a word.
LEMMA HtonlInWord == ASSUME NEW w \in Int PROVE Htonl(w) \in Word
  BY SMTT(60) DEF Htonl, Word

\* The bytes of a word, taken the other way round.
LEMMA SwappedBytes ==
  ASSUME NEW a \in Octet, NEW b \in Octet, NEW c \in Octet, NEW h \in High
  PROVE  Htonl(Pack(h, c, b, a)) = Pack(Signed(a), b, c, h % 256)
<1>. USE DEF High, Octet
<1>. DEFINE w == Pack(h, c, b, a)
<1>1. w \in Int /\ (w \div 1) % 256 = a
  BY SMT DEF Pack
<1>2. w \div 256 = h * 65536 + c * 256 + b
  BY SMT DEF Pack
<1>3. (w \div 256) % 256 = b
  BY <1>2, SMT
<1>4. w \div 65536 = h * 256 + c
  BY SMT DEF Pack
<1>5. (w \div 65536) % 256 = c
  BY <1>4, SMT
<1>6. w \div 16777216 = h
  BY SMT DEF Pack
<1>7. (w \div 16777216) % 256 = h % 256
  BY <1>6, SMT
<1>. HIDE DEF w
<1>8. Htonl(w) = Pack(Signed(a), b, c, h % 256)
  BY <1>1, <1>3, <1>5, <1>7, SMT DEF Htonl, Signed, Pack
<1>. QED
  BY <1>8, Zenon DEF w

\* Every word has four bytes.
LEMMA FourBytes ==
  ASSUME NEW w \in Word
  PROVE  \E a \in Octet, b \in Octet, c \in Octet, h \in High :
           w = Pack(h, c, b, a)
<1>1. w \in Int /\ -2147483648 <= w /\ w <= 2147483647
  BY SMT DEF Word
<1>. DEFINE a == w % 256  x == w \div 256  b == x % 256  y == x \div 256  c == y % 256
            h == y \div 256
<1>2. a \in Octet /\ x \in Int /\ w = x * 256 + a /\ -8388608 <= x /\ x <= 8388607
  BY <1>1, SMT DEF Octet
<1>. HIDE DEF a, x
<1>3. b \in Octet /\ y \in Int /\ x = y * 256 + b /\ -32768 <= y /\ y <= 32767
  BY <1>2, SMT DEF Octet
<1>. HIDE DEF b, y
<1>4. c \in Octet /\ h \in High /\ y = h * 256 + c
  BY <1>3, SMT DEF High, Octet
<1>. HIDE DEF c, h
<1>5. w = Pack(h, c, b, a)
  BY <1>2, <1>3, <1>4, SMT DEF Pack, High, Octet
<1>6. a \in Octet /\ b \in Octet
  BY <1>2, <1>3
<1>. QED
  BY <1>4, <1>5, <1>6, Zenon

\* Swapped twice, a word is itself.
LEMMA HtonlTwice == ASSUME NEW w \in Word PROVE Htonl(Htonl(w)) = w
<1>1. PICK a \in Octet, b \in Octet, c \in Octet, h \in High :
           w = Pack(h, c, b, a)
  BY FourBytes, Zenon
<1>2. Htonl(w) = Pack(Signed(a), b, c, h % 256)
  BY <1>1, SwappedBytes, SMT
<1>3. Signed(a) \in High /\ Signed(a) % 256 = a
  BY SMT DEF Signed, High, Octet
<1>4. h % 256 \in Octet /\ Signed(h % 256) = h
  BY SMT DEF Signed, High, Octet
<1>5. Htonl(Pack(Signed(a), b, c, h % 256)) = Pack(Signed(h % 256), c, b, Signed(a) % 256)
  BY <1>3, <1>4, SwappedBytes, Z3
<1>. QED
  BY <1>1, <1>2, <1>3, <1>4, <1>5, Zenon

-----------------------------------------------------------------------------
(* Queues.  T are the elements that matter, G those that are right.        *)

\* The last element that matters is right.
Ends(q, T, G) ==
  \E i \in 1 .. Len(q) : q[i] \in G /\ \A j \in 1 .. Len(q) : j > i => q[j] \notin T

Without(q, T) == \A j \in 1 .. Len(q) : q[j] \notin T

\* A right element, added at the end, is the last that matters.
LEMMA EndsNow ==
  ASSUME NEW S, NEW q \in Seq(S), NEW x \in S, NEW T, NEW G, x \in G
  PROVE  Ends(Append(q, x), T, G)
<1>1. PICK n \in Nat : n = Len(q)
  OBVIOUS
<1>2. Len(Append(q, x)) = n + 1 /\ Append(q, x)[n + 1] = x /\ n + 1 \in 1 .. n + 1
  BY <1>1
<1>3. \A j \in 1 .. n + 1 : ~(j > n + 1)
  OBVIOUS
<1>. QED
  BY <1>2, <1>3, Zenon DEF Ends

\* An element that does not matter, added at the end, changes nothing.
LEMMA AppendOther ==
  ASSUME NEW S, NEW q \in Seq(S), NEW x \in S, NEW T, NEW G, x \notin T
  PROVE  /\ Ends(q, T, G) => Ends(Append(q, x), T, G)
         /\ Without(q, T) => Without(Append(q, x), T)
<1>1. PICK n \in Nat : n = Len(q)
  OBVIOUS
<1>2. /\ Len(Append(q, x)) = n + 1 /\ Append(q, x)[n + 1] = x
      /\ \A j \in 1 .. n : Append(q, x)[j] = q[j] /\ j \in 1 .. n + 1
      /\ \A j \in 1 .. n + 1 : j \in 1 .. n \/ j = n + 1
  BY <1>1
<1>3. ASSUME Ends(q, T, G) PROVE Ends(Append(q, x), T, G)
  <2>1. PICK i \in 1 .. n : q[i] \in G /\ \A j \in 1 .. n : j > i => q[j] \notin T
    BY <1>1, <1>3 DEF Ends
  <2>2. i \in 1 .. n + 1 /\ Append(q, x)[i] \in G
    BY <1>2, <2>1
  <2>3. \A j \in 1 .. n + 1 : j > i => Append(q, x)[j] \notin T
    BY <1>2, <2>1, Zenon
  <2>. QED
    BY <1>2, <2>2, <2>3, Zenon DEF Ends
<1>4. ASSUME Without(q, T) PROVE Without(Append(q, x), T)
  BY <1>1, <1>2, <1>4, Zenon DEF Without
<1>. QED
  BY <1>3, <1>4

\* Once the first element is taken, the last that matters is still there, or was the
\* one taken, and nothing that matters is left.
LEMMA TakeFirst ==
  ASSUME NEW S, NEW q \in Seq(S), q # <<>>, NEW T, NEW G
  PROVE  /\ Ends(q, T, G) => \/ Ends(Tail(q), T, G)
                             \/ Head(q) \in G /\ Without(Tail(q), T)
         /\ Without(q, T) => Without(Tail(q), T) /\ Head(q) \notin T
<1>1. PICK n \in Nat : Len(q) = n + 1
  <2>1. Len(q) \in Nat /\ Len(q) # 0
    OBVIOUS
  <2>2. Len(q) - 1 \in Nat /\ Len(q) = (Len(q) - 1) + 1
    BY <2>1
  <2>. QED
    BY <2>2, Zenon
<1>2. /\ Len(Tail(q)) = n /\ Head(q) = q[1] /\ 1 \in 1 .. n + 1
      /\ \A j \in 1 .. n : Tail(q)[j] = q[j + 1] /\ j + 1 \in 1 .. n + 1 /\ j + 1 > 1
  BY <1>1
<1>3. ASSUME Ends(q, T, G)
      PROVE  Ends(Tail(q), T, G) \/ (Head(q) \in G /\ Without(Tail(q), T))
  <2>1. PICK i \in 1 .. n + 1 : q[i] \in G /\ \A j \in 1 .. n + 1 : j > i => q[j] \notin T
    BY <1>1, <1>3 DEF Ends
  <2>2. CASE i = 1
    BY <1>2, <2>1, <2>2, Zenon DEF Without
  <2>3. CASE i # 1
    <3>1. PICK k \in 1 .. n : i = k + 1
      <4>1. i - 1 \in 1 .. n /\ i = (i - 1) + 1
        BY <2>3
      <4>. QED
        BY <4>1, Zenon
    <3>2. Tail(q)[k] \in G
      BY <1>2, <2>1, <3>1, Zenon
    <3>3. \A j \in 1 .. n : j > k => j + 1 > i
      BY <3>1
    <3>4. \A j \in 1 .. n : j > k => Tail(q)[j] \notin T
      BY <1>2, <2>1, <3>3, Zenon
    <3>. QED
      BY <1>2, <3>2, <3>4, Zenon DEF Ends
  <2>. QED
    BY <2>2, <2>3
<1>4. ASSUME Without(q, T) PROVE Without(Tail(q), T) /\ Head(q) \notin T
  BY <1>1, <1>2, <1>4, Zenon DEF Without
<1>. QED
  BY <1>3, <1>4

-----------------------------------------------------------------------------
(* What a parameter wants its registers to hold.                           *)

\* The registers a parameter is sent to, and the words they should hold.
Regs(p) ==
  CASE p \in DOMAIN RegisterOf -> {RegisterOf[p]}
    [] p \in TimePresets       -> {"COUNT_TIME_LO", "COUNT_TIME_HI"}
    [] p = "IPADDR"            -> {"UDP_IP_ADDR"}
    [] p = "CNT"               -> {"TRIG"}
    [] OTHER                   -> {}

LowHalf(ticks) == ticks % HalfWord
HighHalf(ticks) == (ticks \div HalfWord) % HalfWord

AimOf(p, value, r) ==
  IF p \in DOMAIN RegisterOf THEN value
  ELSE CASE r = "COUNT_TIME_LO" -> LowHalf(Ticks(p, value))
         [] r = "COUNT_TIME_HI" -> HighHalf(Ticks(p, value))
         [] r = "UDP_IP_ADDR"   -> Htonl(value.host)
         [] r = "TRIG"          -> IF value = 1 THEN 1 ELSE 0

Aim(p, r) == AimOf(p, param[p], r)

Watched ==
  {RegisterOf[p] : p \in DOMAIN RegisterOf}
    \cup {"COUNT_TIME_LO", "COUNT_TIME_HI", "UDP_IP_ADDR", "TRIG"}

For(r) == {d \in Datagrams : d.op.reg = r}
Writing(r, w) == {d \in For(r) : ~d.op.read /\ d.data = Htonl(w)}
From(r) == {x \in Replies : x.reg = r}
Telling(r, w) == {x \in From(r) : x.val = w /\ x.whole}

\* Clients see w, or will once the answers on their way are in.
Told(r, w) ==
  r \in DOMAIN ReadBack =>
    \/ Ends(responses, From(r), Telling(r, w))
    \/ Without(responses, From(r)) /\ param[ReadBack[r]] = ReadBackValue(r, w)

\* The register holds w, or will once the requests on their way are in.
Echo(r, w) ==
  /\ w \in Word
  /\ \/ Ends(requests, For(r), Writing(r, w))
     \/ Without(requests, For(r)) /\ registers[r] = w /\ Told(r, w)

Carried(p) == \A r \in Regs(p) : Echo(r, Aim(p, r))

-----------------------------------------------------------------------------
(* The tables of registers and parameters.                                 *)

\* The registers by their names.
LEMMA WatchedNames ==
  /\ Watched = {"SIM_EVT_SEL", "MARS_CALPULSE", "CALPULSE_RATE", "CALPULSE_CNT",
       "CALPULSE_MODE", "COUNT_MODE", "MARS_PIPE_DELAY", "MARS_RDOUT_ENB",
       "COUNT_TIME_LO", "COUNT_TIME_HI", "UDP_IP_ADDR", "TRIG"}
  /\ DOMAIN RegisterOf = {"LOAO", "TPAMP", "TPFRQ", "TPCNT", "TPENB", "MODE", "PLDEL", "RODEL"}
  BY DEF Watched, RegisterOf

\* Watched registers are registers; no one asks for them, and DLY is not among them.
LEMMA WatchedRegisters ==
  Watched \subseteq Registers /\ Watched \cap Polled = {} /\ "TD_CAL" \notin Watched
<1>1. Watched \subseteq Registers
  BY DEF Watched, Registers, ReadBack
<1>. QED
  BY <1>1, WatchedNames DEF Polled

\* A parameter that is sent to a register of its own is no other kind of parameter.
LEMMA Kinds ==
  /\ \A p \in DOMAIN RegisterOf : Regs(p) = {RegisterOf[p]} /\ p \notin TimePresets
                                  /\ p \notin {"IPADDR", "CNT", "DLY", "RATE", "none", "other"}
  /\ \A p \in TimePresets : Regs(p) = {"COUNT_TIME_LO", "COUNT_TIME_HI"}
                            /\ p \notin {"IPADDR", "CNT", "DLY", "RATE", "none", "other"}
  /\ Regs("IPADDR") = {"UDP_IP_ADDR"} /\ Regs("CNT") = {"TRIG"}
  /\ \A p : p \notin DOMAIN RegisterOf \cup TimePresets \cup {"IPADDR", "CNT"} => Regs(p) = {}
  BY DEF Regs, RegisterOf, TimePresets

\* Two parameters that share a register are rivals.
LEMMA Shared ==
  ASSUME NEW p, NEW q, NEW r \in Regs(p), r \in Regs(q)
  PROVE  p \in Rivals(q) /\ r \in Watched
<1>1. DOMAIN RegisterOf \cap {"ADAcquire", "FREQ", "TP", "TP1", "IPADDR", "CNT"} = {}
  BY WatchedNames
<1>2. \A x, y \in DOMAIN RegisterOf : RegisterOf[x] = RegisterOf[y] => x = y
  BY DEF RegisterOf
<1>3. \A x \in DOMAIN RegisterOf :
        RegisterOf[x] \in Watched \ {"COUNT_TIME_LO", "COUNT_TIME_HI", "UDP_IP_ADDR", "TRIG"}
  BY DEF RegisterOf, Watched
<1>4. {"COUNT_TIME_LO", "COUNT_TIME_HI", "UDP_IP_ADDR", "TRIG"} \subseteq Watched
  BY DEF Watched
<1>5. \/ p \in DOMAIN RegisterOf /\ r = RegisterOf[p]
      \/ p \in TimePresets /\ r \in {"COUNT_TIME_LO", "COUNT_TIME_HI"}
      \/ p = "IPADDR" /\ r = "UDP_IP_ADDR"
      \/ p = "CNT" /\ r = "TRIG"
  BY Kinds
<1>6. \/ q \in DOMAIN RegisterOf /\ r = RegisterOf[q]
      \/ q \in TimePresets /\ r \in {"COUNT_TIME_LO", "COUNT_TIME_HI"}
      \/ q = "IPADDR" /\ r = "UDP_IP_ADDR"
      \/ q = "CNT" /\ r = "TRIG"
  BY Kinds
<1>7. r \in Watched
  BY <1>3, <1>4, <1>5
<1>8. p = q \/ (p \in TimePresets /\ q \in TimePresets)
  BY <1>2, <1>3, <1>5, <1>6
<1>9. q # "ADAcquire"
  BY <1>1, <1>6 DEF TimePresets
<1>. QED
  BY <1>7, <1>8, <1>9 DEF Rivals, TimePresets

\* Registers are read back to parameters of their own, which no client writes but
\* the one of TRIG.
LEMMA OwnReadBack ==
  /\ \A r, s \in DOMAIN ReadBack : ReadBack[r] = ReadBack[s] => r = s
  /\ \A r \in DOMAIN ReadBack \cap Watched :
       /\ ReadBack[r] \in Parameters /\ ReadBack[r] \notin {"RATE", "IPADDR", "SS"}
       /\ ReadBack[r] \in Sent \cup Unhandled \cup {"CNT"} =>
            r = "TRIG" /\ ReadBack[r] = "ADAcquire"
<1>1. \A r, s \in DOMAIN ReadBack : ReadBack[r] = ReadBack[s] => r = s
  BY DEF ReadBack
<1>2. ASSUME NEW r \in DOMAIN ReadBack \cap Watched
      PROVE  ReadBack[r] \in {"TPAMP_RBV", "TPFRQ_RBV", "TPCNT_RBV", "TPENB_RBV",
                              "PLDEL_RBV", "RODEL_RBV", "IPADDR_RBV"}
             \/ (r = "TRIG" /\ ReadBack[r] = "ADAcquire")
  BY <1>2, WatchedNames DEF ReadBack
<1>3. Sent = {"LOAO", "TPAMP", "TPFRQ", "TPCNT", "TPENB", "MODE", "PLDEL", "RODEL",
              "FREQ", "TP", "TP1", "DLY"}
  BY DEF Sent, RegisterOf, TimePresets
<1>4. \A r \in DOMAIN ReadBack : ReadBack[r] \in Parameters
  BY Named
<1>. QED
  BY <1>1, <1>2, <1>3, <1>4 DEF Unhandled

-----------------------------------------------------------------------------
(* The invariant.                                                          *)

\* What the handler still sends to a watched register is what it should hold, and when
\* nothing went wrong, each of its registers has been written or will be.
Planned ==
  /\ \A i \in DOMAIN job.sends : job.sends[i].reg \in Watched =>
       /\ ~job.sends[i].read /\ job.sends[i].data \in Word
       /\ job.sends[i].reg \in Regs(job.of)
       /\ job.sends[i].data = Aim(job.of, job.sends[i].reg)
  /\ job.intact /\ job.ok /\ route = "device" =>
       \A r \in Regs(job.of) :
         Echo(r, Aim(job.of, r)) \/ \E i \in DOMAIN job.sends : job.sends[i].reg = r

\* The flag and CNT differ only while CNT is being written.
Counting == job.of # "CNT" => running = (param["CNT"] = 1)

\* A settled address is in its normal form, and the handler of a good one leaves it so;
\* that of a bad one fails.
Addressed ==
  /\ job.of = "IPADDR" => ~job.ignores
  /\ job.of = "IPADDR" /\ job.ok =>
       param["IPADDR"].host \in Word /\ job.then = IpStr(param["IPADDR"].host)
  /\ "IPADDR" \in settled /\ job.of # "IPADDR" =>
       param["IPADDR"].host \in Word /\ param["IPADDR"] = IpStr(param["IPADDR"].host)

\* Settled parameters get through, unless a handler has put them in question.
Settled == \A p \in settled : p \notin Rivals(job.of) => Carried(p)

AgreeInv == Planned /\ Counting /\ Addressed /\ Settled

-----------------------------------------------------------------------------
\* What gets through does so while neither the queues, the registers nor the read-back
\* change.
LEMMA EchoStays ==
  ASSUME UNCHANGED <<requests, responses, registers>>, NEW r, NEW w, Echo(r, w),
         r \in DOMAIN ReadBack => param'[ReadBack[r]] = param[ReadBack[r]]
  PROVE  Echo(r, w)'
<1>1. Told(r, w) => Told(r, w)'
  BY Zenon DEF Told
<1>. QED
  BY <1>1, Zenon DEF Echo

\* The first state.
LEMMA AgreeInit == Init => AgreeInv
<1>. SUFFICES ASSUME Init PROVE AgreeInv
  OBVIOUS
<1>1. job.of = "none" /\ job.sends = <<>> /\ settled = {} /\ running = FALSE
  BY IdleFits DEF Init
<1>2. Regs("none") = {}
  BY Kinds, WatchedNames DEF TimePresets
<1>3. param["CNT"] = 0
  <2>1. "CNT" \in DOMAIN Defaults /\ Defaults["CNT"] = 0
    BY SMT DEF Defaults
  <2>. QED
    BY <2>1, Named, Zenon DEF Init
<1>4. DOMAIN job.sends = {}
  BY <1>1
<1>5. Planned
  BY <1>1, <1>2, <1>4, Zenon DEF Planned
<1>6. Counting
  <2>1. running = FALSE /\ (param["CNT"] = 1) = FALSE
    BY <1>1, <1>3
  <2>. QED
    BY <2>1, Zenon DEF Counting
<1>7. Addressed /\ Settled
  BY <1>1 DEF Addressed, Settled
<1>. QED
  BY <1>5, <1>6, <1>7 DEF AgreeInv

\* The names a handler has besides those of parameters.
LEMMA OtherNamed == {"none", "other"} \cap Parameters = {}
<1>1. Sent = {"LOAO", "TPAMP", "TPFRQ", "TPCNT", "TPENB", "MODE", "PLDEL", "RODEL",
              "FREQ", "TP", "TP1", "DLY"}
  BY DEF Sent, RegisterOf, TimePresets
<1>2. \A r \in DOMAIN ReadBack : ReadBack[r] \notin {"none", "other"}
  BY DEF ReadBack
<1>3. "none" \notin {ReadBack[r] : r \in DOMAIN ReadBack}
      /\ "other" \notin {ReadBack[r] : r \in DOMAIN ReadBack}
  BY <1>2
<1>. QED
  BY <1>1, <1>3 DEF Parameters, Unhandled

\* A client's write puts its rivals in question, and plans what its registers are to hold.
LEMMA CallAgrees ==
  ASSUME TypeInv, AgreeInv,
         NEW p \in Sent \cup Unhandled \cup {"RATE", "CNT", "IPADDR"}, NEW value, NEW h,
         SetAndCall(p, value, h),
         \/ h.of = p
         \/ h.of = "other" /\ p = "CNT" /\ AimOf("CNT", value, "TRIG") = Aim("CNT", "TRIG"),
         \A i \in DOMAIN h.sends : h.sends[i].reg \in Watched =>
           /\ ~h.sends[i].read /\ h.sends[i].data \in Word
           /\ h.sends[i].reg \in Regs(h.of)
           /\ h.sends[i].data = AimOf(p, value, h.sends[i].reg),
         h.ok => \A r \in Regs(h.of) : \E i \in DOMAIN h.sends : h.sends[i].reg = r,
         p # "CNT" => UNCHANGED running,
         h.of = "other" => running' = (value = 1),
         p = "IPADDR" => ~h.ignores,
         p = "IPADDR" /\ h.ok => value.host \in Word /\ h.then = IpStr(value.host)
  PROVE  AgreeInv'
<1>1. /\ job' = h /\ job.of = "none" /\ param' = [param EXCEPT ![p] = value]
      /\ UNCHANGED <<requests, responses, registers, route, settled>>
  BY IdleFits DEF SetAndCall, Call, network, device
<1>2. /\ p \in Parameters /\ p # "none" /\ p # "other" /\ "IPADDR" \in Parameters
      /\ "CNT" \in Parameters /\ settled \subseteq Parameters
  <2>1. "other" \notin Parameters
    BY OtherNamed
  <2>. QED
    BY <2>1, Named DEF TypeInv
<1>3. param'[p] = value /\ \A q \in Parameters \ {p} : param'[q] = param[q]
  BY <1>1, <1>2 DEF TypeInv, ParamTypes, Store
<1>4. Regs("other") = {} /\ Regs("none") = {}
  BY Kinds, WatchedNames DEF TimePresets
<1>5. Planned'
  <2>1. CASE h.of = p
    <3>1. \A r : Aim(h.of, r)' = AimOf(p, value, r)
      BY <1>3, <2>1, Zenon DEF Aim
    <3>. QED
      BY <1>1, <2>1, <3>1, Zenon DEF Planned
  <2>2. CASE h.of = "other"
    BY <1>1, <1>4, <2>2, Zenon DEF Planned
  <2>. QED
    BY <2>1, <2>2
<1>6. Counting'
  <2>1. running = (param["CNT"] = 1)
    BY <1>1 DEF AgreeInv, Counting
  <2>. QED
    BY <1>1, <1>2, <1>3, <2>1 DEF Counting
<1>7. Addressed'
  <2>1. CASE p = "IPADDR"
    BY <1>1, <1>3, <2>1 DEF Addressed
  <2>2. CASE p # "IPADDR"
    <3>1. h.of # "IPADDR" /\ param'["IPADDR"] = param["IPADDR"] /\ job.of # "IPADDR"
      BY <1>1, <1>2, <1>3, <2>2
    <3>. QED
      BY <1>1, <3>1, Zenon DEF AgreeInv, Addressed
  <2>. QED
    BY <2>1, <2>2
<1>8. Settled'
  <2>. SUFFICES ASSUME NEW q \in settled, q \notin Rivals(h.of), NEW r \in Regs(q)
                PROVE  Echo(r, Aim(q, r))'
    BY <1>1, Zenon DEF Settled, Carried
  <2>1. Echo(r, Aim(q, r))
    <3>1. Rivals("none") = {"none"} /\ q # "none"
      BY <1>2, Named DEF Rivals, TimePresets
    <3>. QED
      BY <1>1, <3>1, Zenon DEF AgreeInv, Settled, Carried
  <2>2. Aim(q, r)' = Aim(q, r)
    <3>1. CASE q # p
      BY <1>2, <1>3, <3>1 DEF Aim
    <3>2. CASE q = p
      <4>1. h.of # p
        <5>1. p \in Rivals(p)
          BY <3>2, Shared
        <5>. QED
          BY <3>2, <5>1
      <4>2. r = "TRIG" /\ AimOf("CNT", value, "TRIG") = Aim("CNT", "TRIG") /\ p = "CNT"
        BY <3>2, <4>1, Kinds
      <4>. QED
        BY <1>3, <3>2, <4>2, Zenon DEF Aim
    <3>. QED
      BY <3>1, <3>2
  <2>3. ASSUME r \in DOMAIN ReadBack PROVE param'[ReadBack[r]] = param[ReadBack[r]]
    <3>1. r \in Watched
      BY Shared
    <3>2. ReadBack[r] \in Parameters /\ ReadBack[r] \notin {"RATE", "IPADDR"}
      BY <2>3, <3>1, OwnReadBack
    <3>3. ReadBack[r] # p
      <4>. SUFFICES ASSUME ReadBack[r] = p PROVE FALSE
        OBVIOUS
      <4>1. r = "TRIG" /\ p = "ADAcquire"
        BY <2>3, <3>1, <3>2, OwnReadBack
      <4>2. h.of = "ADAcquire" /\ q = "CNT"
        <5>1. q = "CNT"
          BY <4>1, Kinds, WatchedNames DEF RegisterOf
        <5>. QED
          BY <4>1, <5>1
      <4>. QED
        BY <4>2 DEF Rivals, TimePresets
    <3>. QED
      BY <1>3, <3>2, <3>3
  <2>. QED
    BY <1>1, <2>1, <2>2, <2>3, EchoStays, Zenon
<1>. QED
  BY <1>5, <1>6, <1>7, <1>8 DEF AgreeInv

\* What the registers should hold, one by one.
LEMMA AimValues ==
  /\ \A p \in DOMAIN RegisterOf : \A value, r : AimOf(p, value, r) = value
  /\ \A p : p \notin DOMAIN RegisterOf => \A value :
       /\ AimOf(p, value, "COUNT_TIME_LO") = LowHalf(Ticks(p, value))
       /\ AimOf(p, value, "COUNT_TIME_HI") = HighHalf(Ticks(p, value))
  /\ \A value : AimOf("IPADDR", value, "UDP_IP_ADDR") = Htonl(value.host)
  /\ \A value : AimOf("CNT", value, "TRIG") = (IF value = 1 THEN 1 ELSE 0)
<1>1. "IPADDR" \notin DOMAIN RegisterOf /\ "CNT" \notin DOMAIN RegisterOf
  BY WatchedNames
<1>2. ASSUME NEW p \in DOMAIN RegisterOf, NEW value, NEW r PROVE AimOf(p, value, r) = value
  BY SMT DEF AimOf
<1>3. ASSUME NEW p, p \notin DOMAIN RegisterOf, NEW value
      PROVE  /\ AimOf(p, value, "COUNT_TIME_LO") = LowHalf(Ticks(p, value))
             /\ AimOf(p, value, "COUNT_TIME_HI") = HighHalf(Ticks(p, value))
             /\ AimOf(p, value, "UDP_IP_ADDR") = Htonl(value.host)
             /\ AimOf(p, value, "TRIG") = (IF value = 1 THEN 1 ELSE 0)
  BY <1>3, SMT DEF AimOf
<1>4. \A value : AimOf("IPADDR", value, "UDP_IP_ADDR") = Htonl(value.host)
  BY <1>1, <1>3
<1>5. \A value : AimOf("CNT", value, "TRIG") = (IF value = 1 THEN 1 ELSE 0)
  BY <1>1, <1>3
<1>6. \A p : p \notin DOMAIN RegisterOf => \A value :
        /\ AimOf(p, value, "COUNT_TIME_LO") = LowHalf(Ticks(p, value))
        /\ AimOf(p, value, "COUNT_TIME_HI") = HighHalf(Ticks(p, value))
  BY <1>3, SMT
<1>7. \A p \in DOMAIN RegisterOf : \A value, r : AimOf(p, value, r) = value
  BY <1>2
<1>. QED
  BY <1>4, <1>5, <1>6, <1>7

\* The datagrams of a setting are what it wants its registers to hold, each once.
LEMMA WritesPlanned ==
  ASSUME WordValues, NEW p \in DOMAIN NumberWrites \cap Sent, NEW value \in NumberWrites[p],
         NEW sends, sends = WritesOf(p, value)
  PROVE  /\ \A i \in DOMAIN sends : sends[i].reg \in Watched =>
              /\ ~sends[i].read /\ sends[i].data \in Word
              /\ sends[i].reg \in Regs(p)
              /\ sends[i].data = AimOf(p, value, sends[i].reg)
         /\ \A r \in Regs(p) : \E i \in DOMAIN sends : sends[i].reg = r
<1>1. value \in Int
  BY ChannelAssumption
<1>2. CASE p \in DOMAIN RegisterOf
  <2>1. sends = <<Write(RegisterOf[p], value)>> /\ value \in Word /\ Regs(p) = {RegisterOf[p]}
    <3>1. sends = <<Write(RegisterOf[p], value)>>
      <4>1. p \notin {"DLY", "FREQ", "TP", "TP1"}
        BY <1>2, Kinds DEF TimePresets
      <4>. QED
        BY <1>2, <4>1, SMT DEF WritesOf
    <3>2. value \in Word
      BY <1>2, Zenon DEF WordValues
    <3>. QED
      BY <1>2, <3>1, <3>2, Kinds, Zenon
  <2>2. DOMAIN sends = {1} /\ sends[1] = Write(RegisterOf[p], value)
    BY <2>1
  <2>3. /\ ~sends[1].read /\ sends[1].data = value /\ sends[1].reg = RegisterOf[p]
    BY <2>2 DEF Write
  <2>4. \A r : AimOf(p, value, r) = value
    BY <1>2, AimValues, Zenon
  <2>. QED
    BY <2>1, <2>2, <2>3, <2>4, Zenon
<1>3. CASE p = "DLY"
  <2>1. p \notin DOMAIN RegisterOf \cup TimePresets \cup {"IPADDR", "CNT"}
    BY <1>3, WatchedNames DEF TimePresets
  <2>2. sends = <<Write("TD_CAL", 1000 * value)>> /\ Regs(p) = {}
    BY <1>3, <2>1, Kinds, SMT DEF WritesOf
  <2>3. \A i \in DOMAIN sends : sends[i].reg = "TD_CAL"
    BY <2>2 DEF Write
  <2>. QED
    BY <2>2, <2>3, WatchedRegisters, Zenon
<1>4. CASE p \in TimePresets
  <2>. DEFINE ticks == Ticks(p, value)
              low == LowHalf(ticks)
              high == HighHalf(ticks)
  <2>1. Regs(p) = {"COUNT_TIME_LO", "COUNT_TIME_HI"} /\ p \notin DOMAIN RegisterOf
    BY <1>4, Kinds
  <2>2. sends = TimeWrites(ticks) /\ ticks \in Int
    BY <1>1, <1>4, <2>1, SMT DEF WritesOf, Ticks, TimePresets
  <2>3. low \in Word /\ high \in Word
    BY <2>2, SMT DEF Word, LowHalf, HighHalf, HalfWord
  <2>4. /\ AimOf(p, value, "COUNT_TIME_LO") = low
        /\ AimOf(p, value, "COUNT_TIME_HI") = high
    BY <2>1, AimValues, Zenon
  <2>5. sends = <<Write("COUNT_TIME_LO", low), Write("COUNT_TIME_HI", high)>>
    BY <2>2, SMT DEF TimeWrites, LowHalf, HighHalf
  <2>. HIDE DEF ticks, low, high
  <2>6. /\ DOMAIN sends = {1, 2}
        /\ sends[1] = Write("COUNT_TIME_LO", low) /\ sends[2] = Write("COUNT_TIME_HI", high)
    BY <2>5
  <2>7. /\ ~sends[1].read /\ sends[1].data = low /\ sends[1].reg = "COUNT_TIME_LO"
        /\ ~sends[2].read /\ sends[2].data = high /\ sends[2].reg = "COUNT_TIME_HI"
    BY <2>6 DEF Write
  <2>. QED
    BY <2>1, <2>3, <2>4, <2>6, <2>7, Zenon
<1>. QED
  BY <1>2, <1>3, <1>4 DEF Sent

\* Each kind of client call.
LEMMA ClientAgrees ==
  ASSUME WordValues, TypeInv, AgreeInv, Clients
  PROVE  AgreeInv'
<1>1. ASSUME NEW p \in DOMAIN NumberWrites \cap Sent, NEW value \in NumberWrites[p],
             WriteSetting(p, value)
      PROVE  AgreeInv'
  <2>. DEFINE h == Handler(p, WritesOf(p, value), NoValue, FALSE)
  <2>1. h.of = p /\ h.sends = WritesOf(p, value)
    BY DEF Handler
  <2>2. SetAndCall(p, value, h) /\ UNCHANGED running
    BY <1>1 DEF WriteSetting
  <2>. HIDE DEF h
  <2>3. p \notin {"IPADDR", "CNT", "other"}
    BY Kinds DEF Sent
  <2>4. PICK sends : sends = WritesOf(p, value)
    OBVIOUS
  <2>5. /\ \A i \in DOMAIN sends : sends[i].reg \in Watched =>
             /\ ~sends[i].read /\ sends[i].data \in Word
             /\ sends[i].reg \in Regs(p)
             /\ sends[i].data = AimOf(p, value, sends[i].reg)
        /\ \A r \in Regs(p) : \E i \in DOMAIN sends : sends[i].reg = r
    BY <2>4, WritesPlanned
  <2>6. /\ \A i \in DOMAIN h.sends : h.sends[i].reg \in Watched =>
             /\ ~h.sends[i].read /\ h.sends[i].data \in Word
             /\ h.sends[i].reg \in Regs(h.of)
             /\ h.sends[i].data = AimOf(p, value, h.sends[i].reg)
        /\ \A r \in Regs(h.of) : \E i \in DOMAIN h.sends : h.sends[i].reg = r
    BY <2>1, <2>4, <2>5
  <2>7. p \in Sent \cup Unhandled \cup {"RATE", "CNT", "IPADDR"}
    OBVIOUS
  <2>. QED
    BY <2>1, <2>2, <2>3, <2>6, <2>7, CallAgrees, Zenon
<1>2. ASSUME NEW value \in NumberWrites["RATE"], WriteRate(value) PROVE AgreeInv'
  <2>. DEFINE h == Handler("RATE", <<>>, Clipped(value), FALSE)
  <2>1. h.of = "RATE" /\ h.sends = <<>> /\ DOMAIN <<>> = {}
    BY DEF Handler
  <2>2. SetAndCall("RATE", value, h) /\ UNCHANGED running
    BY <1>2 DEF WriteRate
  <2>. HIDE DEF h
  <2>3. Regs("RATE") = {} /\ "RATE" \notin {"IPADDR", "CNT", "other"}
    BY Kinds, WatchedNames DEF TimePresets
  <2>. QED
    BY <2>1, <2>2, <2>3, CallAgrees, Zenon
<1>3. ASSUME NEW p \in DOMAIN NumberWrites \cap Unhandled, NEW value \in NumberWrites[p],
             WriteUnhandled(p, value)
      PROVE  AgreeInv'
  <2>1. Refuse(p).of = p /\ Refuse(p).sends = <<>> /\ DOMAIN <<>> = {} /\ ~Refuse(p).ok
    BY DEF Refuse, Handler
  <2>2. SetAndCall(p, value, Refuse(p)) /\ UNCHANGED running
    BY <1>3 DEF WriteUnhandled
  <2>3. p \notin {"IPADDR", "CNT", "other"}
    BY DEF Unhandled
  <2>. QED
    BY <2>1, <2>2, <2>3, CallAgrees, Zenon
<1>4. ASSUME NEW text \in Texts \cup {InvalidText}, WriteIpaddr(text) PROVE AgreeInv'
  <2>1. UNCHANGED running
    BY <1>4 DEF WriteIpaddr
  <2>2. CASE text = InvalidText
    <3>1. SetAndCall("IPADDR", text, Refuse("IPADDR"))
      BY <1>4, <2>2 DEF WriteIpaddr
    <3>2. /\ Refuse("IPADDR").of = "IPADDR" /\ Refuse("IPADDR").sends = <<>>
          /\ DOMAIN <<>> = {} /\ ~Refuse("IPADDR").ok /\ ~Refuse("IPADDR").ignores
      BY DEF Refuse, Handler
    <3>. QED
      BY <2>1, <3>1, <3>2, CallAgrees, Zenon
  <2>3. CASE text # InvalidText
    <3>. DEFINE word == NetworkOrder(text.host)
                h == Handler("IPADDR", <<Write("UDP_IP_ADDR", word)>>, IpStr(text.host), FALSE)
    <3>1. text.host \in Word /\ text.host \in Int
      BY <2>3 DEF WordValues, Word
    <3>2. word \in Word /\ word = Htonl(text.host)
      BY <3>1, HtonlInWord, Zenon DEF NetworkOrder
    <3>3. SetAndCall("IPADDR", text, h)
      BY <1>4, <2>3 DEF WriteIpaddr
    <3>. HIDE DEF word
    <3>4. /\ h.of = "IPADDR" /\ h.then = IpStr(text.host) /\ ~h.ignores
          /\ DOMAIN h.sends = {1} /\ h.sends[1] = Write("UDP_IP_ADDR", word)
      BY DEF Handler
    <3>. HIDE DEF h
    <3>5. ~h.sends[1].read /\ h.sends[1].data = word /\ h.sends[1].reg = "UDP_IP_ADDR"
      BY <3>4 DEF Write
    <3>6. Regs("IPADDR") = {"UDP_IP_ADDR"} /\ AimOf("IPADDR", text, "UDP_IP_ADDR") = word
      BY <3>2, Kinds, AimValues, Zenon
    <3>. QED
      BY <2>1, <3>1, <3>2, <3>3, <3>4, <3>5, <3>6, CallAgrees, Zenon
  <2>. QED
    BY <2>2, <2>3
<1>5. ASSUME NEW value \in NumberWrites["CNT"], WriteCnt(value) PROVE AgreeInv'
  <2>. DEFINE word == IF value = 1 THEN 1 ELSE 0
              again == Handler("other", <<>>, NoValue, TRUE)
              told == Handler("CNT", <<Write("TRIG", word)>>, NoValue, TRUE)
  <2>1. Regs("CNT") = {"TRIG"} /\ Regs("other") = {}
    BY Kinds, WatchedNames DEF TimePresets
  <2>2. \A x : AimOf("CNT", x, "TRIG") = (IF x = 1 THEN 1 ELSE 0)
    BY AimValues, Zenon
  <2>3. running = (param["CNT"] = 1) /\ running \in BOOLEAN
    BY <1>5, IdleFits DEF WriteCnt, SetAndCall, Call, AgreeInv, Counting, TypeInv, JobTypes
  <2>4. CASE (value = 1) = running
    <3>1. SetAndCall("CNT", value, again)
      BY <1>5, <2>4 DEF WriteCnt
    <3>2. running' = (value = 1)
      BY <1>5, <2>3, <2>4 DEF WriteCnt
    <3>3. again.of = "other" /\ again.sends = <<>> /\ DOMAIN <<>> = {}
      BY DEF Handler
    <3>4. AimOf("CNT", value, "TRIG") = Aim("CNT", "TRIG")
      BY <2>2, <2>3, <2>4 DEF Aim
    <3>. HIDE DEF again
    <3>. QED
      BY <2>1, <3>1, <3>2, <3>3, <3>4, CallAgrees, Zenon
  <2>5. CASE (value = 1) # running
    <3>1. SetAndCall("CNT", value, told)
      BY <1>5, <2>5 DEF WriteCnt, StartTold, StopTold
    <3>2. word \in Word /\ AimOf("CNT", value, "TRIG") = word
      BY <2>2 DEF Word
    <3>. HIDE DEF word
    <3>3. told.of = "CNT" /\ DOMAIN told.sends = {1} /\ told.sends[1] = Write("TRIG", word)
      BY DEF Handler
    <3>. HIDE DEF told
    <3>4. ~told.sends[1].read /\ told.sends[1].data = word /\ told.sends[1].reg = "TRIG"
      BY <3>3 DEF Write
    <3>. QED
      BY <2>1, <3>1, <3>2, <3>3, <3>4, CallAgrees, Zenon
  <2>. QED
    BY <2>4, <2>5
<1>6. ASSUME NEW register \in Polled \cap DOMAIN Sensors, PollRegister(register)
      PROVE  AgreeInv'
  <2>. DEFINE h == Handler("other", <<Read(register)>>, NoValue, FALSE)
  <2>1. /\ job' = h /\ job = Idle
        /\ UNCHANGED <<param, running, requests, responses, registers, route, settled>>
    BY <1>6 DEF PollRegister, Call, network, device
  <2>2. h.of = "other" /\ DOMAIN h.sends = {1} /\ h.sends[1].reg = register
    BY DEF Handler, Read
  <2>. HIDE DEF h
  <2>3. Regs("other") = {} /\ register \notin Watched
    BY Kinds, WatchedNames, WatchedRegisters DEF TimePresets
  <2>4. Planned'
    BY <2>1, <2>2, <2>3, Zenon DEF Planned
  <2>5. Counting' /\ Addressed'
    BY <2>1, <2>2, IdleFits DEF AgreeInv, Counting, Addressed
  <2>6. Settled'
    <3>1. /\ Rivals("none") = {"none"} /\ Rivals("other") = {"other"}
          /\ \A q \in settled : q # "none" /\ q # "other"
      BY OtherNamed DEF Rivals, TimePresets, TypeInv
    <3>2. ASSUME NEW q \in settled PROVE Carried(q)'
      <4>1. Carried(q)
        BY <2>1, <3>1, IdleFits DEF AgreeInv, Settled
      <4>2. \A r : Aim(q, r)' = Aim(q, r)
        BY <2>1, Zenon DEF Aim
      <4>. QED
        BY <2>1, <4>1, <4>2, EchoStays, Zenon DEF Carried
    <3>. QED
      BY <2>1, <3>2, Zenon DEF Settled
  <2>. QED
    BY <2>4, <2>5, <2>6 DEF AgreeInv
<1>. QED
  BY <1>1, <1>2, <1>3, <1>4, <1>5, <1>6 DEF Clients

\* What gets through still does when a datagram for another register is sent.
LEMMA EchoSent ==
  ASSUME TypeInv, NEW d \in Datagrams, NEW r, NEW w, d.op.reg # r, Echo(r, w),
         requests' \in {requests, Append(requests, d)},
         UNCHANGED <<param, responses, registers>>
  PROVE  Echo(r, w)'
<1>1. CASE requests' = requests
  BY <1>1, EchoStays, Zenon
<1>2. CASE requests' = Append(requests, d)
  <2>1. requests \in Seq(Datagrams) /\ d \notin For(r)
    BY DEF TypeInv, WireTypes, For
  <2>2. /\ Ends(requests, For(r), Writing(r, w)) => Ends(requests', For(r), Writing(r, w))
        /\ Without(requests, For(r)) => Without(requests', For(r))
    BY <1>2, <2>1, AppendOther, Zenon
  <2>3. Told(r, w) => Told(r, w)'
    BY Zenon DEF Told
  <2>. QED
    BY <2>2, <2>3, Zenon DEF Echo
<1>. QED
  BY <1>1, <1>2

\* What a handler sends gets through, if it goes to the device.
LEMMA EchoStarts ==
  ASSUME TypeInv, NEW d \in Datagrams, NEW w \in Word, ~d.op.read, d.data = Htonl(w),
         requests' = Append(requests, d)
  PROVE  Echo(d.op.reg, w)'
<1>1. requests \in Seq(Datagrams) /\ d \in Writing(d.op.reg, w)
  BY DEF TypeInv, WireTypes, For, Writing
<1>2. Ends(requests', For(d.op.reg), Writing(d.op.reg, w))
  BY <1>1, EndsNow, Zenon
<1>. QED
  BY <1>2, Zenon DEF Echo

\* When something goes wrong, nothing is settled, nor will the handler settle anything.
LEMMA SpoiledAgrees ==
  ASSUME AgreeInv, NEW h \in Jobs, job' = Spoiled(h),
         h.of = job.of, h.ok = job.ok, h.then = job.then, h.ignores = job.ignores,
         \A i \in DOMAIN h.sends : \E j \in DOMAIN job.sends : h.sends[i] = job.sends[j],
         settled' = {}, UNCHANGED <<param, running>>
  PROVE  AgreeInv'
<1>1. /\ job'.of = job.of /\ job'.ok = job.ok /\ job'.then = job.then
      /\ job'.ignores = job.ignores /\ job'.sends = h.sends
      /\ job'.of = "none" \/ ~job'.intact
  <2>1. CASE h = Idle
    BY <2>1, IdleFits DEF Spoiled
  <2>2. CASE h # Idle
    BY <2>2 DEF Spoiled, Jobs
  <2>. QED
    BY <2>1, <2>2
<1>2. \A q, r : Aim(q, r)' = Aim(q, r)
  BY Zenon DEF Aim
<1>3. Regs("none") = {}
  BY Kinds, WatchedNames DEF TimePresets
<1>4. Planned'
  <2>1. ASSUME NEW i \in DOMAIN job'.sends, job'.sends[i].reg \in Watched
        PROVE  /\ ~job'.sends[i].read /\ job'.sends[i].data \in Word
               /\ job'.sends[i].reg \in Regs(job'.of)
               /\ job'.sends[i].data = Aim(job.of, job.sends[i].reg)'
    <3>1. PICK j \in DOMAIN job.sends : job'.sends[i] = job.sends[j]
      BY <1>1, <2>1
    <3>2. /\ ~job.sends[j].read /\ job.sends[j].data \in Word
          /\ job.sends[j].reg \in Regs(job.of)
          /\ job.sends[j].data = Aim(job.of, job.sends[j].reg)
      BY <2>1, <3>1 DEF AgreeInv, Planned
    <3>3. Aim(job.of, job.sends[i].reg)' = AimOf(job.of, param[job.of], job.sends[j].reg)
      BY <1>1, <3>1, Zenon DEF Aim
    <3>. QED
      BY <1>1, <3>1, <3>2, <3>3, Zenon DEF Aim
  <2>2. job'.of = "none" => Regs(job'.of) = {}
    BY <1>3
  <2>. QED
    BY <1>1, <2>1, <2>2, Zenon DEF Planned
<1>5. Counting' /\ Addressed' /\ Settled'
  BY <1>1, Zenon DEF AgreeInv, Counting, Addressed, Settled
<1>. QED
  BY <1>4, <1>5 DEF AgreeInv

\* A sent datagram is one less planned; sent to the device, it gets through, or what it
\* carries is spoilt.
LEMMA SendAgrees ==
  ASSUME TypeInv, AgreeInv, Send
  PROVE  AgreeInv'
<1>0. PICK message, p : message = Head(job.sends) /\ p = job.of
  OBVIOUS
<1>. DEFINE rest == [job EXCEPT !.sends = Tail(@)]
            d == Datagram(Operation(message), message)
<1>1. /\ job \in Jobs /\ job.sends \in Seq(Messages) /\ job.sends # <<>>
      /\ UNCHANGED <<param, running, route, responses, registers>>
  BY DEF TypeInv, JobTypes, Jobs, Send, device
<1>2. /\ message \in Messages /\ Tail(job.sends) \in Seq(Messages) /\ 1 \in DOMAIN job.sends
      /\ message = job.sends[1]
      /\ \A i \in DOMAIN Tail(job.sends) :
           i + 1 \in DOMAIN job.sends /\ Tail(job.sends)[i] = job.sends[i + 1]
      /\ \A i \in DOMAIN job.sends \ {1} :
           i - 1 \in DOMAIN Tail(job.sends) /\ Tail(job.sends)[i - 1] = job.sends[i]
  BY <1>0, <1>1
<1>3. /\ rest \in Jobs /\ rest.of = p /\ rest.ok = job.ok /\ rest.then = job.then
      /\ rest.ignores = job.ignores /\ rest.intact = job.intact
      /\ rest.sends = Tail(job.sends)
  BY <1>0, <1>1, <1>2 DEF Jobs
<1>4. \/ SendSucceeds(Operation(message)) /\ job' = rest /\ settled' = settled
      \/ job' = Spoiled(rest) /\ settled' = {}
  BY <1>0, Zenon DEF Send, Mishap
<1>5. d \in Datagrams /\ d.op.reg = message.reg /\ d.op.read = message.read
      /\ (~message.read => d.data = Htonl(message.data))
  <2>1. message.data \in Int /\ message.read \in BOOLEAN /\ message.reg \in Registers
    BY <1>2 DEF Messages
  <2>2. (IF message.read THEN NoValue ELSE Htonl(message.data)) \in Values
    BY <2>1, HtonlWord DEF Values
  <2>3. Operation(message) \in Operations
    BY <2>1 DEF Operation, Operations
  <2>. QED
    BY <2>1, <2>2, <2>3 DEF Datagram, Datagrams, Operation
<1>6. message.reg \in Watched =>
        /\ ~message.read /\ message.data \in Word
        /\ message.reg \in Regs(p)
        /\ message.data = Aim(p, message.reg)
  BY <1>0, <1>2, Zenon DEF AgreeInv, Planned
<1>7. SendSucceeds(Operation(message)) =>
        requests' = IF route = "device" THEN Append(requests, d) ELSE requests
  BY <1>0 DEF SendSucceeds
<1>. HIDE DEF rest, d
<1>8. CASE SendSucceeds(Operation(message)) /\ job' = rest /\ settled' = settled
  <2>1. requests' \in {requests, Append(requests, d)}
        /\ (route = "device" => requests' = Append(requests, d))
    BY <1>7, <1>8
  <2>2. \A q, r : Aim(q, r)' = Aim(q, r)
    BY <1>1, Zenon DEF Aim
  <2>3. ASSUME NEW r, NEW w, Echo(r, w), r # message.reg PROVE Echo(r, w)'
    BY <1>1, <1>5, <2>1, <2>3, EchoSent, Zenon
  <2>4. ASSUME NEW i \in DOMAIN rest.sends, rest.sends[i].reg \in Watched
        PROVE  /\ ~rest.sends[i].read /\ rest.sends[i].data \in Word
               /\ rest.sends[i].reg \in Regs(p)
               /\ rest.sends[i].data = Aim(p, rest.sends[i].reg)
    <3>1. PICK j \in DOMAIN job.sends : rest.sends[i] = job.sends[j]
      BY <1>2, <1>3
    <3>. QED
      BY <1>0, <2>4, <3>1 DEF AgreeInv, Planned
  <2>5. ASSUME job.intact, job.ok, route = "device", NEW r \in Regs(p)
        PROVE  Echo(r, Aim(p, r))' \/ \E i \in DOMAIN rest.sends : rest.sends[i].reg = r
    <3>1. CASE r = message.reg
      <4>1. r \in Watched
        BY <2>5, Shared
      <4>2. ~message.read /\ message.data \in Word /\ message.data = Aim(p, r)
        BY <1>6, <3>1, <4>1
      <4>3. Echo(r, message.data)'
        BY <1>5, <2>1, <2>5, <3>1, <4>2, EchoStarts, Zenon
      <4>. QED
        BY <2>2, <4>2, <4>3
    <3>2. CASE r # message.reg /\ Echo(r, Aim(p, r))
      BY <2>2, <2>3, <3>2
    <3>3. CASE r # message.reg /\ \E i \in DOMAIN job.sends : job.sends[i].reg = r
      <4>1. PICK i \in DOMAIN job.sends : job.sends[i].reg = r
        BY <3>3
      <4>2. i # 1
        BY <1>2, <3>3, <4>1
      <4>. QED
        BY <1>2, <1>3, <4>1, <4>2, Zenon
    <3>. QED
      BY <1>0, <2>5, <3>1, <3>2, <3>3, Zenon DEF AgreeInv, Planned
  <2>6. Planned'
    BY <1>1, <1>3, <1>8, <2>2, <2>4, <2>5, Zenon DEF Planned
  <2>7. Counting' /\ Addressed'
    BY <1>0, <1>1, <1>3, <1>8, Zenon DEF AgreeInv, Counting, Addressed
  <2>8. Settled'
    <3>. SUFFICES ASSUME NEW q \in settled, q \notin Rivals(p), NEW r \in Regs(q)
                  PROVE  Echo(r, Aim(q, r))'
      BY <1>3, <1>8, Zenon DEF Settled, Carried
    <3>1. Echo(r, Aim(q, r))
      BY <1>0, Zenon DEF AgreeInv, Settled, Carried
    <3>2. r # message.reg
      BY <1>6, Shared
    <3>. QED
      BY <2>2, <2>3, <3>1, <3>2
  <2>. QED
    BY <2>6, <2>7, <2>8 DEF AgreeInv
<1>9. CASE job' = Spoiled(rest) /\ settled' = {}
  <2>1. \A i \in DOMAIN rest.sends : \E j \in DOMAIN job.sends : rest.sends[i] = job.sends[j]
    BY <1>2, <1>3
  <2>. QED
    BY <1>0, <1>1, <1>3, <1>9, <2>1, SpoiledAgrees, Zenon
<1>. QED
  BY <1>4, <1>8, <1>9

\* A failed send ends what was planned.
LEMMA SendFailsAgrees ==
  ASSUME TypeInv, AgreeInv, SendFails
  PROVE  AgreeInv'
<1>1. /\ job' = [job EXCEPT !.sends = <<>>, !.ok = job.ignores, !.intact = FALSE]
      /\ job \in Jobs
      /\ UNCHANGED <<param, running, route, requests, responses, registers, settled>>
  BY DEF SendFails, network, device, TypeInv, JobTypes
<1>2. /\ job'.of = job.of /\ job'.ok = job.ignores /\ job'.then = job.then
      /\ job'.ignores = job.ignores /\ job'.sends = <<>> /\ ~job'.intact
  BY <1>1 DEF Jobs
<1>3. DOMAIN <<>> = {}
  OBVIOUS
<1>4. Planned'
  BY <1>2, <1>3, Zenon DEF Planned
<1>5. Counting' /\ Addressed'
  BY <1>1, <1>2, Zenon DEF AgreeInv, Counting, Addressed
<1>6. Settled'
  <2>. SUFFICES ASSUME NEW q \in settled, q \notin Rivals(job.of), NEW r \in Regs(q)
                PROVE  Echo(r, Aim(q, r))'
    BY <1>1, <1>2, Zenon DEF Settled, Carried
  <2>1. Echo(r, Aim(q, r))
    BY Zenon DEF AgreeInv, Settled, Carried
  <2>2. Aim(q, r)' = Aim(q, r) /\ UNCHANGED <<requests, responses, registers, param>>
    BY <1>1, Zenon DEF Aim
  <2>. QED
    BY <2>1, <2>2, EchoStays, Zenon
<1>. QED
  BY <1>4, <1>5, <1>6 DEF AgreeInv

\* The handler's end settles what got through.
LEMMA FinishAgrees ==
  ASSUME TypeInv, AgreeInv, Finish
  PROVE  AgreeInv'
<1>0. PICK p : p = job.of
  OBVIOUS
<1>1. /\ job \in Jobs /\ Fitting(job) /\ job.sends = <<>> /\ job' = Idle
      /\ param = [q \in Parameters |-> param[q]]
      /\ UNCHANGED <<requests, responses, registers, route>>
  BY DEF Finish, network, device, TypeInv, JobTypes, ParamTypes, Store
<1>2. /\ param' = IF job.ok /\ job.then # NoValue THEN [param EXCEPT ![p] = job.then] ELSE param
      /\ running' = IF p = "CNT" THEN param["CNT"] = 1 ELSE running
      /\ \A q \in settled' : \/ q \in settled /\ q \notin Rivals(p)
                             \/ q = p /\ job.ok /\ job.intact /\ route = "device"
  BY <1>0 DEF Finish
<1>3. \A q \in Parameters \ {"RATE", "IPADDR"} : param'[q] = param[q]
  <2>1. job.then # NoValue => p \in {"RATE", "IPADDR"}
    BY <1>0, <1>1 DEF Fitting
  <2>. QED
    BY <1>1, <1>2, <2>1
<1>4. p # "IPADDR" => param'["IPADDR"] = param["IPADDR"]
  BY <1>1, <1>2
<1>5. p = "IPADDR" /\ job.ok =>
        /\ param["IPADDR"].host \in Word
        /\ param'["IPADDR"] = IpStr(param["IPADDR"].host)
        /\ IpStr(param["IPADDR"].host).host = param["IPADDR"].host
  <2>. SUFFICES ASSUME p = "IPADDR", job.ok
                PROVE  /\ param["IPADDR"].host \in Word
                       /\ param'["IPADDR"] = IpStr(param["IPADDR"].host)
                       /\ IpStr(param["IPADDR"].host).host = param["IPADDR"].host
    OBVIOUS
  <2>1. PICK w \in Word : w = param["IPADDR"].host /\ job.then = IpStr(w)
    BY <1>0 DEF AgreeInv, Addressed
  <2>2. w \in Int /\ IpStr(w) \in [host : Int, normal : BOOLEAN] /\ IpStr(w).host = w
    BY DEF IpStr, Word
  <2>3. IpStr(w) # NoValue
    BY <2>2, ChannelAssumption
  <2>4. "IPADDR" \in Parameters
    BY Named
  <2>. QED
    BY <1>1, <1>2, <2>1, <2>2, <2>3, <2>4
<1>6. ASSUME NEW q, NEW r \in Regs(q), q = p => job.ok, q \in Parameters
      PROVE  Aim(q, r)' = Aim(q, r)
  <2>1. CASE q \notin {"RATE", "IPADDR"}
    BY <1>3, <1>6, <2>1, Zenon DEF Aim
  <2>2. q # "RATE"
    BY <1>6, Kinds, WatchedNames DEF TimePresets
  <2>3. CASE q = "IPADDR" /\ p # "IPADDR"
    BY <1>4, <2>3, Zenon DEF Aim
  <2>4. CASE q = "IPADDR" /\ p = "IPADDR"
    <3>1. r = "UDP_IP_ADDR"
      BY <1>6, <2>4, Kinds
    <3>2. \A value : AimOf("IPADDR", value, "UDP_IP_ADDR") = Htonl(value.host)
      BY AimValues
    <3>3. param'["IPADDR"].host = param["IPADDR"].host
      BY <1>5, <1>6, <2>4
    <3>. QED
      BY <2>4, <3>1, <3>2, <3>3, Zenon DEF Aim
  <2>. QED
    BY <2>1, <2>2, <2>3, <2>4
<1>7. ASSUME NEW q, NEW r \in Regs(q), NEW w, Echo(r, w) PROVE Echo(r, w)'
  <2>1. r \in DOMAIN ReadBack => param'[ReadBack[r]] = param[ReadBack[r]]
    <3>1. r \in Watched
      BY Shared
    <3>2. r \in DOMAIN ReadBack => ReadBack[r] \in Parameters \ {"RATE", "IPADDR"}
      BY <3>1, OwnReadBack
    <3>. QED
      BY <1>3, <3>2
  <2>. QED
    BY <1>1, <1>7, <2>1, EchoStays, Zenon
<1>8. DOMAIN <<>> = {} /\ Regs("none") = {} /\ settled \subseteq Parameters
      /\ "CNT" \in Parameters
  BY Kinds, WatchedNames, Named DEF TimePresets, TypeInv
<1>9. Planned'
  BY <1>1, <1>8, IdleFits, Zenon DEF Planned
<1>10. Counting'
  <2>1. p # "CNT" => running = (param["CNT"] = 1)
    BY <1>0 DEF AgreeInv, Counting
  <2>2. param'["CNT"] = param["CNT"]
    BY <1>3, <1>8
  <2>. QED
    BY <1>2, <2>1, <2>2 DEF Counting
<1>11. Addressed'
  <2>1. job'.of # "IPADDR"
    BY <1>1, IdleFits
  <2>2. ASSUME "IPADDR" \in settled'
        PROVE  /\ param'["IPADDR"].host \in Word
               /\ param'["IPADDR"] = IpStr(param'["IPADDR"].host)
    <3>1. CASE p = "IPADDR"
      <4>1. "IPADDR" \in Rivals(p)
        BY <3>1, Kinds DEF Rivals, TimePresets
      <4>2. job.ok
        BY <1>2, <2>2, <4>1
      <4>. QED
        BY <1>5, <3>1, <4>2
    <3>2. CASE p # "IPADDR"
      <4>1. "IPADDR" \in settled
        BY <1>2, <2>2, <3>2
      <4>. QED
        BY <1>0, <1>4, <3>2, <4>1 DEF AgreeInv, Addressed
    <3>. QED
      BY <3>1, <3>2
  <2>. QED
    BY <2>1, <2>2 DEF Addressed
<1>12. Settled'
  <2>. SUFFICES ASSUME NEW q \in settled', NEW r \in Regs(q) PROVE Echo(r, Aim(q, r))'
    BY Zenon DEF Settled, Carried
  <2>1. Echo(r, Aim(q, r)) /\ (q = p => job.ok) /\ q \in Parameters
    <3>1. CASE q \in settled /\ q \notin Rivals(p)
      <4>1. p \in Rivals(p) \/ Regs(p) = {}
        BY Shared
      <4>2. q # p
        BY <3>1, <4>1
      <4>3. Echo(r, Aim(q, r))
        BY <1>0, <3>1, Zenon DEF AgreeInv, Settled, Carried
      <4>. QED
        BY <1>8, <3>1, <4>2, <4>3
    <3>2. CASE q = p /\ job.ok /\ job.intact /\ route = "device"
      <4>1. Echo(r, Aim(p, r))
        BY <1>0, <1>1, <1>8, <3>2, Zenon DEF AgreeInv, Planned
      <4>2. p \in Parameters
        BY <1>0, <1>1, <1>8, <3>2, OtherNamed, Kinds, WatchedNames DEF Jobs, TimePresets
      <4>. QED
        BY <3>2, <4>1, <4>2
    <3>. QED
      BY <1>2, <3>1, <3>2
  <2>2. Aim(q, r)' = Aim(q, r)
    BY <1>6, <2>1
  <2>. QED
    BY <1>7, <2>1, <2>2
<1>. QED
  BY <1>9, <1>10, <1>11, <1>12 DEF AgreeInv

\* The parameters that are sent to registers.
Aimed == DOMAIN RegisterOf \cup TimePresets \cup {"IPADDR", "CNT"}

\* None of them is a read-back, or the state.
LEMMA AimedApart ==
  /\ Aimed \subseteq Parameters
  /\ \A r \in DOMAIN ReadBack : ReadBack[r] \notin Aimed \cup {"SS"}
  /\ "SS" \notin Aimed
<1>1. Aimed = {"LOAO", "TPAMP", "TPFRQ", "TPCNT", "TPENB", "MODE", "PLDEL", "RODEL",
               "FREQ", "TP", "TP1", "IPADDR", "CNT"}
  BY WatchedNames DEF Aimed, TimePresets
<1>2. Aimed \subseteq Sent \cup {"IPADDR", "CNT"}
  BY DEF Aimed, Sent
<1>3. \A r \in DOMAIN ReadBack :
        ReadBack[r] \in {"VER", "TPAMP_RBV", "TPFRQ_RBV", "TPCNT_RBV", "TPENB_RBV",
          "ADAcquire", "PLDEL_RBV", "RODEL_RBV", "DETTYPE", "IPADDR_RBV", "TEMP1", "TEMP2",
          "TEMP3", "ZTEMP", "HV", "HV_RBV", "HV_CURR"}
  BY DEF ReadBack
<1>4. Aimed \subseteq Parameters
  BY <1>2, Named
<1>. QED
  BY <1>1, <1>3, <1>4

\* A step of the surroundings that leaves these parameters and the handler alone keeps
\* the invariant, if what gets through still does.
LEMMA StepAgrees ==
  ASSUME AgreeInv, UNCHANGED <<job, running, route, settled>>,
         \A p \in Aimed : param'[p] = param[p],
         \A r \in Watched : \A w : Echo(r, w) => Echo(r, w)'
  PROVE  AgreeInv'
<1>1. "IPADDR" \in Aimed /\ "CNT" \in Aimed
  BY DEF Aimed
<1>2. ASSUME NEW p, NEW r \in Regs(p)
      PROVE  Aim(p, r)' = Aim(p, r) /\ r \in Watched
  <2>1. p \in Aimed
    BY <1>2, Kinds DEF Aimed
  <2>2. r \in Watched
    BY Shared
  <2>. QED
    BY <2>1, <2>2, Zenon DEF Aim
<1>3. PICK p : p = job.of
  OBVIOUS
<1>4. Planned'
  <2>1. ASSUME NEW i \in DOMAIN job.sends, job.sends[i].reg \in Watched
        PROVE  /\ ~job.sends[i].read /\ job.sends[i].data \in Word
               /\ job.sends[i].reg \in Regs(p)
               /\ job.sends[i].data = Aim(p, job.sends[i].reg)'
    <3>1. PICK r : r = job.sends[i].reg
      OBVIOUS
    <3>2. /\ ~job.sends[i].read /\ job.sends[i].data \in Word
          /\ r \in Regs(p) /\ job.sends[i].data = Aim(p, r)
      BY <1>3, <2>1, <3>1 DEF AgreeInv, Planned
    <3>3. job.sends[i].data = Aim(p, r)'
      BY <1>2, <3>2
    <3>. QED
      BY <3>1, <3>2, <3>3
  <2>2. ASSUME job.intact, job.ok, route = "device", NEW r \in Regs(p)
        PROVE  Echo(r, Aim(p, r))' \/ \E i \in DOMAIN job.sends : job.sends[i].reg = r
    <3>1. Echo(r, Aim(p, r)) \/ \E i \in DOMAIN job.sends : job.sends[i].reg = r
      BY <1>3, <2>2, Zenon DEF AgreeInv, Planned
    <3>2. PICK w : w = Aim(p, r)
      OBVIOUS
    <3>3. Aim(p, r)' = w /\ (Echo(r, w) => Echo(r, w)')
      BY <1>2, <3>2
    <3>. QED
      BY <3>1, <3>2, <3>3
  <2>. QED
    BY <1>3, <2>1, <2>2, Zenon DEF Planned
<1>5. Counting' /\ Addressed'
  BY <1>1, Zenon DEF AgreeInv, Counting, Addressed
<1>6. Settled'
  <2>. SUFFICES ASSUME NEW q \in settled, q \notin Rivals(p), NEW r \in Regs(q)
                PROVE  Echo(r, Aim(q, r))'
    BY <1>3, Zenon DEF Settled, Carried
  <2>1. PICK w : w = Aim(q, r)
    OBVIOUS
  <2>2. Echo(r, w)
    BY <1>3, <2>1, Zenon DEF AgreeInv, Settled, Carried
  <2>3. Aim(q, r)' = w /\ Echo(r, w)'
    BY <1>2, <2>1, <2>2
  <2>. QED
    BY <2>3
<1>. QED
  BY <1>4, <1>5, <1>6 DEF AgreeInv

\* The device carries a request out and answers.
LEMMA DeviceAgrees ==
  ASSUME TypeInv, AgreeInv, DeviceReceive
  PROVE  AgreeInv'
<1>1. PICK d : d = Head(requests)
  OBVIOUS
<1>2. /\ requests \in Seq(Datagrams) /\ responses \in Seq(Replies)
      /\ requests # <<>> /\ requests' = Tail(requests) /\ d \in Datagrams
      /\ registers \in [Registers -> Int]
      /\ UNCHANGED <<param, job, running, route, settled>>
  BY <1>1 DEF TypeInv, WireTypes, DeviceTypes, DeviceReceive
<1>3. \/ /\ d.op.reg \notin Registers \/ (~d.op.read /\ d.data = NoValue)
         /\ UNCHANGED <<registers, responses>>
      \/ \E word \in Outcomes(d.op, d.data) :
           /\ registers' = [registers EXCEPT ![d.op.reg] = word]
           /\ responses' = Append(responses,
                [reg |-> d.op.reg, val |-> word, whole |-> TRUE])
           /\ d.op.reg \in Registers /\ word \in Int
  <2>1. CASE d.op.reg \notin Registers \/ (~d.op.read /\ d.data = NoValue)
    BY <1>1, <2>1, Zenon DEF DeviceReceive, device
  <2>2. CASE ~(d.op.reg \notin Registers \/ (~d.op.read /\ d.data = NoValue))
    <3>1. PICK word \in Outcomes(d.op, d.data) :
            /\ registers' = [registers EXCEPT ![d.op.reg] = word]
            /\ held' = [held EXCEPT ![d.op.reg] = @ \cup {word}]
            /\ responses' = Append(responses,
                 [reg |-> d.op.reg, val |-> word, whole |-> TRUE])
      BY <1>1, <2>2, Zenon DEF DeviceReceive
    <3>2. TypeInv'
      BY SurroundingTypes DEF Surroundings
    <3>3. registers' \in [Registers -> Int] /\ registers'[d.op.reg] = word
      BY <1>2, <2>2, <3>1, <3>2 DEF TypeInv, DeviceTypes
    <3>. QED
      BY <2>2, <3>1, <3>3
  <2>. QED
    BY <2>1, <2>2
<1>4. ASSUME NEW r \in Watched, NEW w, Echo(r, w) PROVE Echo(r, w)'
  <2>1. w \in Word /\ r \in Registers /\ Htonl(w) # NoValue /\ Htonl(Htonl(w)) = w
    <3>1. w \in Word /\ w \in Int
      BY <1>4 DEF Echo, Word
    <3>2. Htonl(w) \in Int
      BY <3>1, HtonlWord
    <3>. QED
      BY <3>1, <3>2, HtonlTwice, WatchedRegisters, ChannelAssumption
  <2>2. \/ Ends(requests', For(r), Writing(r, w))
        \/ d \in Writing(r, w) /\ Without(requests', For(r))
        \/ Without(requests', For(r)) /\ d \notin For(r) /\ registers[r] = w /\ Told(r, w)
    BY <1>1, <1>2, <1>4, TakeFirst, Zenon DEF Echo
  <2>3. CASE Ends(requests', For(r), Writing(r, w))
    BY <2>1, <2>3, Zenon DEF Echo
  <2>4. CASE d \in Writing(r, w) /\ Without(requests', For(r))
    <3>1. d.op.reg = r /\ ~d.op.read /\ d.data = Htonl(w)
      BY <2>4 DEF Writing, For
    <3>2. /\ registers' = [registers EXCEPT ![r] = w]
          /\ responses' = Append(responses, [reg |-> r, val |-> w, whole |-> TRUE])
      BY <1>3, <2>1, <3>1 DEF Outcomes
    <3>3. registers'[r] = w
      BY <1>2, <2>1, <3>2
    <3>4. Told(r, w)'
      <4>. DEFINE x == [reg |-> r, val |-> w, whole |-> TRUE]
      <4>1. x \in Replies /\ x \in Telling(r, w)
        BY <2>1 DEF Replies, Telling, From, Word
      <4>. HIDE DEF x
      <4>2. responses' = Append(responses, x)
        BY <3>2 DEF x
      <4>3. Ends(responses', From(r), Telling(r, w))
        BY <1>2, <4>1, <4>2, EndsNow, Zenon
      <4>. QED
        BY <4>3, Zenon DEF Told
    <3>. QED
      BY <2>1, <2>4, <3>3, <3>4, Zenon DEF Echo
  <2>5. CASE Without(requests', For(r)) /\ d \notin For(r) /\ registers[r] = w /\ Told(r, w)
    <3>1. d.op.reg # r
      BY <1>2, <2>5 DEF For
    <3>2. registers'[r] = w /\ Told(r, w)'
      <4>1. CASE UNCHANGED <<registers, responses>>
        BY <1>2, <2>5, <4>1, Zenon DEF Told
      <4>2. ASSUME NEW word \in Int, d.op.reg \in Registers,
                   registers' = [registers EXCEPT ![d.op.reg] = word],
                   responses' = Append(responses,
                     [reg |-> d.op.reg, val |-> word, whole |-> TRUE])
            PROVE  registers'[r] = w /\ Told(r, w)'
        <5>. DEFINE x == [reg |-> d.op.reg, val |-> word, whole |-> TRUE]
        <5>1. x \in Replies /\ x \notin From(r)
          BY <3>1, <4>2 DEF Replies, From
        <5>. HIDE DEF x
        <5>2. responses' = Append(responses, x)
          BY <4>2 DEF x
        <5>3. /\ Ends(responses, From(r), Telling(r, w)) =>
                   Ends(responses', From(r), Telling(r, w))
              /\ Without(responses, From(r)) => Without(responses', From(r))
          BY <1>2, <5>1, <5>2, AppendOther, Zenon
        <5>4. registers'[r] = registers[r]
          BY <1>2, <2>1, <3>1, <4>2
        <5>. QED
          BY <1>2, <2>5, <5>3, <5>4, Zenon DEF Told
      <4>. QED
        BY <1>3, <4>1, <4>2, Zenon
    <3>. QED
      BY <2>1, <2>5, <3>2, Zenon DEF Echo
  <2>. QED
    BY <2>2, <2>3, <2>4, <2>5
<1>. QED
  BY <1>2, <1>4, StepAgrees, Zenon

\* An answer that comes in shows what it tells.
LEMMA ResponseAgrees ==
  ASSUME TypeInv, AgreeInv, ProcessResponse
  PROVE  AgreeInv'
<1>1. PICK x : x = Head(responses)
  OBVIOUS
<1>2. /\ responses \in Seq(Replies) /\ responses # <<>> /\ responses' = Tail(responses)
      /\ x \in Replies
      /\ param = [p \in Parameters |-> param[p]]
      /\ UNCHANGED <<job, running, route, requests, registers, settled>>
  BY <1>1 DEF TypeInv, WireTypes, ParamTypes, Store, ProcessResponse, device
<1>3. param' = IF x.whole /\ x.reg \in DOMAIN ReadBack
                 THEN [param EXCEPT ![ReadBack[x.reg]] = ReadBackValue(x.reg, x.val)]
                 ELSE param
  BY <1>1 DEF ProcessResponse
<1>4. \A q \in Parameters : x.reg \notin DOMAIN ReadBack \/ q # ReadBack[x.reg] =>
        param'[q] = param[q]
  BY <1>2, <1>3
<1>5. \A p \in Aimed : param'[p] = param[p]
  BY <1>4, AimedApart
<1>6. ASSUME NEW r \in Watched, NEW w, Told(r, w) PROVE Told(r, w)'
  <2>. SUFFICES ASSUME r \in DOMAIN ReadBack
                PROVE  \/ Ends(responses', From(r), Telling(r, w))
                       \/ /\ Without(responses', From(r))
                          /\ param'[ReadBack[r]] = ReadBackValue(r, w)
    BY Zenon DEF Told
  <2>1. \/ Ends(responses', From(r), Telling(r, w))
        \/ x \in Telling(r, w) /\ Without(responses', From(r))
        \/ /\ Without(responses', From(r)) /\ x \notin From(r)
           /\ param[ReadBack[r]] = ReadBackValue(r, w)
    BY <1>1, <1>2, <1>6, TakeFirst, Zenon DEF Told
  <2>2. ReadBack[r] \in Parameters
    BY Named
  <2>3. CASE x \in Telling(r, w) /\ Without(responses', From(r))
    <3>1. x.reg = r /\ x.val = w /\ x.whole
      BY <2>3 DEF Telling, From
    <3>2. param'[ReadBack[r]] = ReadBackValue(r, w)
      BY <1>2, <1>3, <2>2, <3>1
    <3>. QED
      BY <2>3, <3>2
  <2>4. CASE /\ Without(responses', From(r)) /\ x \notin From(r)
             /\ param[ReadBack[r]] = ReadBackValue(r, w)
    <3>1. x.reg # r
      BY <1>2, <2>4 DEF From
    <3>2. x.reg \notin DOMAIN ReadBack \/ ReadBack[r] # ReadBack[x.reg]
      BY <3>1, OwnReadBack
    <3>. QED
      BY <1>4, <2>2, <2>4, <3>2
  <2>. QED
    BY <2>1, <2>3, <2>4
<1>7. ASSUME NEW r \in Watched, NEW w, Echo(r, w) PROVE Echo(r, w)'
  BY <1>2, <1>6, <1>7, Zenon DEF Echo
<1>. QED
  BY <1>2, <1>5, <1>7, StepAgrees, Zenon

\* The state is set, which is no setting.
LEMMA DataAgrees ==
  ASSUME TypeInv, AgreeInv, DataProcessing
  PROVE  AgreeInv'
<1>1. /\ param = [p \in Parameters |-> param[p]]
      /\ param' = [param EXCEPT !["SS"] = IF running THEN 1 ELSE 0]
      /\ UNCHANGED <<job, running, route, requests, responses, registers, settled>>
  BY DEF TypeInv, ParamTypes, Store, DataProcessing, network, device
<1>2. \A q \in Parameters \ {"SS"} : param'[q] = param[q]
  BY <1>1
<1>3. \A p \in Aimed : param'[p] = param[p]
  BY <1>2, AimedApart
<1>4. ASSUME NEW r \in Watched, NEW w, Echo(r, w) PROVE Echo(r, w)'
  <2>1. r \in DOMAIN ReadBack => ReadBack[r] \in Parameters \ {"SS"}
    BY Named, AimedApart
  <2>2. r \in DOMAIN ReadBack => param'[ReadBack[r]] = param[ReadBack[r]]
    BY <1>2, <2>1
  <2>. QED
    BY <1>1, <1>4, <2>2, EchoStays, Zenon
<1>. QED
  BY <1>1, <1>3, <1>4, StepAgrees, Zenon

\* What goes wrong between driver and device.
LEMMA MishapAgrees ==
  ASSUME TypeInv, AgreeInv, Disturb \/ Shorten
  PROVE  AgreeInv'
<1>1. job' = Spoiled(job) /\ settled' = {} /\ UNCHANGED <<param, running>>
  BY DEF Disturb, Shorten, Mishap
<1>2. job \in Jobs
  BY DEF TypeInv, JobTypes
<1>. QED
  BY <1>1, <1>2, SpoiledAgrees, Zenon

\* Every step keeps the invariant.
LEMMA AgreeStep ==
  ASSUME WordValues
  PROVE  TypeInv /\ AgreeInv /\ [Next]_vars => AgreeInv'
<1>. SUFFICES ASSUME TypeInv, AgreeInv, [Next]_vars PROVE AgreeInv'
  OBVIOUS
<1>1. CASE Clients
  BY <1>1, ClientAgrees
<1>2. CASE Port
  BY <1>2, SendAgrees, SendFailsAgrees, FinishAgrees DEF Port
<1>3. CASE Surroundings
  BY <1>3, MishapAgrees, DeviceAgrees DEF Surroundings
<1>4. CASE ProcessResponse
  BY <1>4, ResponseAgrees
<1>5. CASE DataProcessing
  BY <1>5, DataAgrees
<1>6. CASE UNCHANGED vars
  <2>1. UNCHANGED <<param, job, running, route, requests, responses, registers, settled>>
    BY <1>6 DEF vars
  <2>2. \A r \in Watched : \A w : Echo(r, w) => Echo(r, w)'
    BY <2>1, EchoStays, Zenon
  <2>. QED
    BY <2>1, <2>2, StepAgrees, Zenon
<1>. QED
  BY <1>1, <1>2, <1>3, <1>4, <1>5, <1>6 DEF Next

\* So it always holds.
LEMMA AgreeAlways == ASSUME WordValues PROVE Spec => [](TypeInv /\ AgreeInv)
<1>1. TypeInv /\ AgreeInv /\ [Next]_vars => TypeInv' /\ AgreeInv'
  BY AgreeStep, TypesStep
<1>2. Init => TypeInv /\ AgreeInv
  BY TypesInit, AgreeInit
<1>. QED
  BY <1>1, <1>2, PTL DEF Spec

-----------------------------------------------------------------------------
(* When all is quiet.                                                      *)

\* A settled parameter is what its registers hold and its read-backs show.
LEMMA QuietCarried ==
  ASSUME TypeInv, AgreeInv, Quiet, NEW p \in settled, NEW r \in Regs(p)
  PROVE  /\ registers[r] = Aim(p, r) /\ Aim(p, r) \in Word
         /\ r \in DOMAIN ReadBack => param[ReadBack[r]] = ReadBackValue(r, Aim(p, r))
<1>1. job.of = "none" /\ requests = <<>> /\ responses = <<>>
  BY IdleFits DEF Quiet
<1>2. p \notin Rivals(job.of)
  BY <1>1, OtherNamed DEF TypeInv, Rivals, TimePresets
<1>3. Echo(r, Aim(p, r))
  BY <1>2, Zenon DEF AgreeInv, Settled, Carried
<1>4. \A T, G : ~Ends(<<>>, T, G)
  BY DEF Ends
<1>. QED
  BY <1>1, <1>3, <1>4, Zenon DEF Echo, Told

\* Register, read-back and setting agree when all is quiet, for every setting whose last
\* write went out undisturbed (writeInt32, writeOctet, processResponse).
THEOREM SettingsAgree == ASSUME WordValues PROVE Spec => []Agreement
<1>1. ASSUME TypeInv, AgreeInv PROVE Agreement
  <2>. SUFFICES ASSUME Quiet
                PROVE  /\ \A p \in DOMAIN RegisterOf \cap settled :
                            registers[RegisterOf[p]] = param[p]
                       /\ \A p \in DOMAIN ReadBackOf \cap settled :
                            param[ReadBackOf[p]] = param[p]
                       /\ "IPADDR" \in settled =>
                            registers["UDP_IP_ADDR"] = Htonl(param["IPADDR"].host)
    BY DEF Agreement
  <2>1. ASSUME NEW p \in DOMAIN RegisterOf \cap settled
        PROVE  /\ registers[RegisterOf[p]] = param[p]
               /\ RegisterOf[p] \in DOMAIN ReadBack =>
                    param[ReadBack[RegisterOf[p]]] = ReadBackValue(RegisterOf[p], param[p])
    <3>1. RegisterOf[p] \in Regs(p)
      BY <2>1, Kinds
    <3>2. Aim(p, RegisterOf[p]) = param[p]
      BY <2>1, AimValues DEF Aim
    <3>. QED
      BY <1>1, <2>1, <3>1, <3>2, QuietCarried
  <2>2. ASSUME "IPADDR" \in settled
        PROVE  /\ registers["UDP_IP_ADDR"] = Htonl(param["IPADDR"].host)
               /\ param["IPADDR_RBV"] = param["IPADDR"]
    <3>1. "UDP_IP_ADDR" \in Regs("IPADDR") /\ "UDP_IP_ADDR" \in DOMAIN ReadBack
          /\ ReadBack["UDP_IP_ADDR"] = "IPADDR_RBV"
      BY Kinds DEF ReadBack
    <3>2. PICK host \in Word : param["IPADDR"] = IpStr(host) /\ param["IPADDR"].host = host
      BY <1>1, <2>2, IdleFits DEF AgreeInv, Addressed, Quiet
    <3>3. Aim("IPADDR", "UDP_IP_ADDR") = Htonl(host)
      BY <3>2, AimValues DEF Aim
    <3>4. /\ registers["UDP_IP_ADDR"] = Htonl(host)
          /\ param["IPADDR_RBV"] = ReadBackValue("UDP_IP_ADDR", Htonl(host))
      BY <1>1, <2>2, <3>1, <3>3, QuietCarried
    <3>5. ReadBackValue("UDP_IP_ADDR", Htonl(host)) = IpStr(host)
      BY HtonlTwice, Zenon DEF ReadBackValue
    <3>. QED
      BY <3>2, <3>4, <3>5
  <2>3. \A p \in DOMAIN ReadBackOf \ {"IPADDR"} :
          /\ p \in DOMAIN RegisterOf /\ RegisterOf[p] \in DOMAIN ReadBack
          /\ ReadBack[RegisterOf[p]] = ReadBackOf[p] /\ RegisterOf[p] # "UDP_IP_ADDR"
    BY DEF ReadBackOf, RegisterOf, ReadBack
  <2>4. ASSUME NEW p \in DOMAIN ReadBackOf \cap settled PROVE param[ReadBackOf[p]] = param[p]
    <3>1. CASE p = "IPADDR"
      <4>1. ReadBackOf["IPADDR"] = "IPADDR_RBV"
        BY DEF ReadBackOf
      <4>. QED
        BY <2>2, <2>4, <3>1, <4>1
    <3>2. CASE p # "IPADDR"
      <4>1. ReadBackValue(RegisterOf[p], param[p]) = param[p]
        BY <2>3, <3>2 DEF ReadBackValue
      <4>. QED
        BY <2>1, <2>3, <3>2, <4>1
    <3>. QED
      BY <3>1, <3>2
  <2>. QED
    BY <2>1, <2>2, <2>4
<1>. QED
  BY <1>1, AgreeAlways, PTL

\* A time preset is a number, or was never written.
Timed == \A p \in TimePresets : param[p] \in Int \/ (p \notin settled /\ job.of # p)

\* It stays so when no time preset is set and the handler is that of before or of no time.
LEMMA TimedStays ==
  ASSUME Timed, \A p \in TimePresets : param'[p] = param[p],
         settled' \subseteq settled \cup {job.of},
         job'.of = job.of \/ job'.of \notin TimePresets
  PROVE  Timed'
BY DEF Timed

\* Clients write numbers.
LEMMA ClientTimed ==
  ASSUME TypeInv, Timed, Clients
  PROVE  Timed'
<1>1. TimePresets \subseteq Parameters /\ param = [q \in Parameters |-> param[q]]
  BY AimedApart DEF Aimed, TypeInv, ParamTypes, Store
<1>2. ASSUME NEW p, NEW value, NEW h, SetAndCall(p, value, h),
             h.of \in TimePresets => h.of = p, p \in TimePresets => value \in Int
      PROVE  Timed'
  <2>1. /\ param' = [param EXCEPT ![p] = value]
        /\ job' = h /\ settled' = settled
    BY <1>2 DEF SetAndCall, Call
  <2>2. \A q \in TimePresets : q # p => param'[q] = param[q]
    BY <1>1, <2>1
  <2>3. p \in TimePresets => param'[p] = value
    BY <1>1, <2>1
  <2>. QED
    BY <1>2, <2>1, <2>2, <2>3, Zenon DEF Timed
<1>3. \A p, sends, value, ignores : Handler(p, sends, value, ignores).of = p
  BY DEF Handler
<1>4. \A p : Refuse(p).of = p
  BY DEF Refuse, Handler
<1>5. {"RATE", "IPADDR", "CNT", "other", "none"} \cap TimePresets = {}
      /\ Unhandled \cap TimePresets = {}
  BY DEF TimePresets, Unhandled
<1>6. ASSUME NEW p \in DOMAIN NumberWrites \cap Sent, NEW value \in NumberWrites[p],
             WriteSetting(p, value)
      PROVE  Timed'
  <2>1. value \in Int
    BY ChannelAssumption
  <2>2. \E h : SetAndCall(p, value, h) /\ h.of = p
    BY <1>3, <1>6, Zenon DEF WriteSetting
  <2>. QED
    BY <1>2, <2>1, <2>2, Zenon
<1>7. ASSUME NEW value, WriteRate(value) PROVE Timed'
  BY <1>2, <1>3, <1>5, <1>7, Zenon DEF WriteRate
<1>8. ASSUME NEW p \in Unhandled, NEW value, WriteUnhandled(p, value) PROVE Timed'
  <2>1. \E h : SetAndCall(p, value, h) /\ h.of = p
    BY <1>4, <1>8, Zenon DEF WriteUnhandled
  <2>2. p \notin TimePresets
    BY <1>5
  <2>. QED
    BY <1>2, <2>1, <2>2, Zenon
<1>9. ASSUME NEW text, WriteIpaddr(text) PROVE Timed'
  <2>. DEFINE h == Handler("IPADDR", <<Write("UDP_IP_ADDR", NetworkOrder(text.host))>>,
                           IpStr(text.host), FALSE)
  <2>1. h.of = "IPADDR" /\ Refuse("IPADDR").of = "IPADDR"
    BY <1>3, <1>4, Zenon
  <2>2. SetAndCall("IPADDR", text, IF text = InvalidText THEN Refuse("IPADDR") ELSE h)
    BY <1>9, Zenon DEF WriteIpaddr
  <2>. HIDE DEF h
  <2>3. SetAndCall("IPADDR", text, Refuse("IPADDR")) \/ SetAndCall("IPADDR", text, h)
    <3>1. CASE text = InvalidText
      BY <2>2, <3>1, Zenon
    <3>2. CASE text # InvalidText
      BY <2>2, <3>2, Zenon
    <3>. QED
      BY <3>1, <3>2
  <2>. QED
    BY <1>2, <1>5, <2>1, <2>3, Zenon
<1>10. ASSUME NEW value, WriteCnt(value) PROVE Timed'
  <2>. DEFINE other == Handler("other", <<>>, NoValue, TRUE)
              again == (value = 1) = running
  <2>1. other.of = "other" /\ StartTold.of = "CNT" /\ StopTold.of = "CNT"
    BY <1>3, Zenon DEF StartTold, StopTold
  <2>2. SetAndCall("CNT", value,
          IF again THEN other ELSE IF value = 1 THEN StartTold ELSE StopTold)
    BY <1>10, Zenon DEF WriteCnt
  <2>. HIDE DEF other, again
  <2>3. \E h \in {other, StartTold, StopTold} : SetAndCall("CNT", value, h)
    <3>1. CASE again
      BY <2>2, <3>1, Zenon
    <3>2. CASE ~again /\ value = 1
      BY <2>2, <3>2, Zenon
    <3>3. CASE ~again /\ value # 1
      BY <2>2, <3>3, Zenon
    <3>. QED
      BY <3>1, <3>2, <3>3
  <2>. QED
    BY <1>2, <1>5, <2>1, <2>3, Zenon
<1>11. ASSUME NEW register, PollRegister(register) PROVE Timed'
  <2>1. job'.of = "other" /\ UNCHANGED <<param, settled>>
    BY <1>3, <1>11 DEF PollRegister, Call
  <2>. QED
    BY <1>5, <2>1, TimedStays
<1>. QED
  BY <1>6, <1>7, <1>8, <1>9, <1>10, <1>11 DEF Clients

\* Every step.
LEMMA TimedStep == TypeInv /\ Timed /\ [Next]_vars => Timed'
<1>. SUFFICES ASSUME TypeInv, Timed, [Next]_vars PROVE Timed'
  OBVIOUS
<1>1. /\ TimePresets \subseteq Aimed /\ Aimed \subseteq Parameters
      /\ param = [q \in Parameters |-> param[q]] /\ job \in Jobs /\ Fitting(job)
  BY AimedApart DEF Aimed, TypeInv, ParamTypes, Store, JobTypes
<1>2. CASE Clients
  BY <1>2, ClientTimed
<1>3. CASE Send \/ SendFails
  <2>1. param' = param /\ settled' \subseteq settled
    BY <1>3 DEF Send, SendFails, Mishap
  <2>2. job'.of = job.of
    BY <1>1, <1>3 DEF Send, SendFails, Spoiled, Jobs
  <2>. QED
    BY <2>1, <2>2, TimedStays
<1>4. CASE Finish
  <2>1. job' = Idle /\ settled' \subseteq settled \cup {job.of}
    BY <1>4 DEF Finish
  <2>2. job'.of = "none" /\ "none" \notin TimePresets
    BY <2>1, IdleFits DEF TimePresets
  <2>3. job.then # NoValue => job.of \in {"RATE", "IPADDR"}
    BY <1>1 DEF Fitting
  <2>4. \A p \in TimePresets : param'[p] = param[p]
    BY <1>1, <1>4, <2>3 DEF Finish, TimePresets
  <2>. QED
    BY <2>1, <2>2, <2>4, TimedStays
<1>5. CASE Surroundings
  <2>1. param' = param /\ settled' \subseteq settled
    BY <1>5 DEF Surroundings, Disturb, DeviceReceive, Shorten, Mishap
  <2>2. job' = job \/ job' = Spoiled(job)
    BY <1>5 DEF Surroundings, Disturb, DeviceReceive, Shorten
  <2>3. job'.of = job.of
    BY <1>1, <2>2 DEF Spoiled, Jobs
  <2>. QED
    BY <2>1, <2>3, TimedStays
<1>6. CASE ProcessResponse \/ DataProcessing
  <2>1. UNCHANGED <<job, settled>>
    BY <1>6 DEF ProcessResponse, DataProcessing
  <2>2. \A p \in TimePresets : param'[p] = param[p]
    <3>1. \E b \in {ReadBack[r] : r \in DOMAIN ReadBack} \cup {"SS"} : \E value :
            param' = [param EXCEPT ![b] = value] \/ param' = param
      BY <1>6 DEF ProcessResponse, DataProcessing
    <3>2. PICK b, value :
            b \notin Aimed /\ (param' = [param EXCEPT ![b] = value] \/ param' = param)
      BY <3>1, AimedApart
    <3>. QED
      BY <1>1, <3>2
  <2>. QED
    BY <2>1, <2>2, TimedStays
<1>7. CASE UNCHANGED vars
  BY <1>7, TimedStays DEF vars
<1>. QED
  BY <1>2, <1>3, <1>4, <1>5, <1>6, <1>7 DEF Next, Port

\* Division by a half word.
LEMMA Quotient ==
  ASSUME NEW x \in Int, NEW q, q = x \div HalfWord, NEW low, low = x % HalfWord
  PROVE  q \in Int /\ low \in 0 .. (HalfWord - 1) /\ x = q * HalfWord + low
<1>1. \A h \in Nat \ {0} : x % h \in 0 .. (h - 1)
  BY SMT
<1>2. HalfWord \in Nat \ {0}
  BY SMT DEF HalfWord
<1>3. x % HalfWord \in 0 .. (HalfWord - 1)
  BY <1>1, <1>2, Zenon
<1>4. q \in Int /\ low \in Int
  BY SMT DEF HalfWord
<1>5. x = q * HalfWord + low
  BY <1>4, SMT DEF HalfWord
<1>. QED
  BY <1>3, <1>4, <1>5

\* A multiple of it.
LEMMA Multiple ==
  ASSUME NEW k \in Int, NEW l \in Int, NEW y \in Int, y = k * HalfWord + l
  PROVE  (y - l) % HalfWord = 0 /\ (y - l) \div HalfWord = k
<1>1. y - l = HalfWord * k
  BY SMT DEF HalfWord
<1>2. (HalfWord * k) % HalfWord = 0 /\ (HalfWord * k) \div HalfWord = k
  BY SMT DEF HalfWord
<1>. QED
  BY <1>1, <1>2, Zenon

\* Two halves that were cut from a number make it up again.
LEMMA HalvesMeet ==
  ASSUME NEW ticks \in Int, NEW low, low = LowHalf(ticks), NEW high, high = HighHalf(ticks)
  PROVE  /\ low \in 0 .. (HalfWord - 1) /\ high \in 0 .. (HalfWord - 1)
         /\ (ticks - low) % HalfWord = 0
         /\ ((ticks - low) \div HalfWord - high) % HalfWord = 0
<1>1. PICK q : q = ticks \div HalfWord
  OBVIOUS
<1>2. low = ticks % HalfWord /\ high = q % HalfWord
  BY <1>1 DEF LowHalf, HighHalf
<1>3. \A l \in 0 .. (HalfWord - 1) : l \in Int
  BY SMT DEF HalfWord
<1>4. q \in Int /\ low \in 0 .. (HalfWord - 1) /\ ticks = q * HalfWord + low
  BY <1>1, <1>2, Quotient
<1>5. (ticks - low) % HalfWord = 0 /\ (ticks - low) \div HalfWord = q
  BY <1>3, <1>4, Multiple, Zenon
<1>6. PICK k : k = q \div HalfWord
  OBVIOUS
<1>7. k \in Int /\ high \in 0 .. (HalfWord - 1) /\ q = k * HalfWord + high
  BY <1>2, <1>4, <1>6, Quotient
<1>8. (q - high) % HalfWord = 0
  BY <1>3, <1>4, <1>7, Multiple, Zenon
<1>. QED
  BY <1>4, <1>5, <1>7, <1>8, Zenon

\* When all is quiet the registers make up the ticks of the last time preset, if it went
\* out undisturbed (the two writes of FREQ, TP and TP1).
THEOREM TimesWhole == ASSUME WordValues PROVE Spec => []TimeWhole
<1>1. ASSUME TypeInv, AgreeInv, Timed PROVE TimeWhole
  <2>. DEFINE low == registers["COUNT_TIME_LO"]
              high == registers["COUNT_TIME_HI"]
  <2>1. ASSUME Quiet, NEW p \in TimePresets \cap settled
        PROVE  /\ Ticks(p, param[p]) \in Int
               /\ low = LowHalf(Ticks(p, param[p])) /\ high = HighHalf(Ticks(p, param[p]))
    <3>1. /\ "COUNT_TIME_LO" \in Regs(p) /\ "COUNT_TIME_HI" \in Regs(p)
          /\ p \notin DOMAIN RegisterOf
      BY <2>1, Kinds
    <3>2. param[p] \in Int
      BY <1>1, <2>1 DEF Timed
    <3>3. Ticks(p, param[p]) \in Int
      BY <3>2 DEF Ticks
    <3>. QED
      BY <1>1, <2>1, <3>1, <3>3, QuietCarried, AimValues DEF Aim
  <2>. HIDE DEF low, high
  <2>2. ASSUME Quiet, NEW p \in TimePresets \cap settled
        PROVE  /\ low \in 0 .. (HalfWord - 1) /\ high \in 0 .. (HalfWord - 1)
               /\ (Ticks(p, param[p]) - low) % HalfWord = 0
               /\ ((Ticks(p, param[p]) - low) \div HalfWord - high) % HalfWord = 0
    BY <2>1, <2>2, HalvesMeet, Zenon
  <2>. QED
    BY <2>2, Zenon DEF TimeWhole, low, high
<1>2. Init => Timed
  <2>1. "none" \notin TimePresets
    BY DEF TimePresets
  <2>. QED
    BY <2>1, IdleFits DEF Init, Timed
<1>. QED
  BY <1>1, <1>2, AgreeAlways, TimedStep, PTL DEF Spec

\* When all is quiet the device counts exactly while acquisition runs, and ADAcquire tells
\* so, if the last start or stop went out undisturbed (the branches of CNT).
THEOREM TriggerAgrees == ASSUME WordValues PROVE Spec => []TriggerFollows
<1>1. ASSUME TypeInv, AgreeInv PROVE TriggerFollows
  <2>. SUFFICES ASSUME Quiet, "CNT" \in settled
                PROVE  /\ registers["TRIG"] = (IF running THEN 1 ELSE 0)
                       /\ param["ADAcquire"] = registers["TRIG"]
    BY DEF TriggerFollows
  <2>1. "TRIG" \in Regs("CNT") /\ "TRIG" \in DOMAIN ReadBack
        /\ ReadBack["TRIG"] = "ADAcquire"
    BY Kinds DEF ReadBack
  <2>2. Aim("CNT", "TRIG") = (IF param["CNT"] = 1 THEN 1 ELSE 0)
    BY AimValues DEF Aim
  <2>3. running = (param["CNT"] = 1)
    BY <1>1, IdleFits DEF Quiet, AgreeInv, Counting
  <2>4. ReadBackValue("TRIG", Aim("CNT", "TRIG")) = Aim("CNT", "TRIG")
    BY DEF ReadBackValue
  <2>. QED
    BY <1>1, <2>1, <2>2, <2>3, <2>4, QuietCarried
<1>. QED
  BY <1>1, AgreeAlways, PTL
=============================================================================
