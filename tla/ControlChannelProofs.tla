------------------------ MODULE ControlChannelProofs ------------------------
(***************************************************************************)
(* Theorems about ControlChannel, for every number and order of writes and *)
(* whatever the network does: read-backs show values that their registers  *)
(* have held, and everything keeps its type.  That clients write no        *)
(* read-back is an assumption (ChannelAssumption).                         *)
(***************************************************************************)
EXTENDS ControlChannel, TLAPS, SequenceTheorems

Measured == {"TEMP1", "TEMP2", "TEMP3", "ZTEMP", "HV_RBV", "HV_CURR"}
Plain == DOMAIN ReadBackOf \ {"IPADDR"}
ReadBacks == {ReadBackOf[p] : p \in Plain} \cup Measured \cup {"IPADDR_RBV"}

\* The answers that may be on their way: what the register held at some time.
Answers == UNION {[reg : {r}, val : held[r], whole : BOOLEAN] : r \in Registers}

\* A handler leaves a value behind in a setting only.
Leaves == job.then # NoValue => job.of \in {"RATE", "IPADDR"}

HeldInv ==
  /\ param = [p \in Parameters |-> param[p]]
  /\ held = [r \in Registers |-> held[r]]
  /\ responses \in Seq(Answers)
  /\ Leaves
  /\ ReadBackHeld

-----------------------------------------------------------------------------
\* Read-backs are parameters of their own.
LEMMA Separate ==
  /\ ReadBacks \subseteq Parameters
  /\ \A p \in Sent \cup Unhandled \cup {"RATE", "CNT", "SS", "IPADDR"} : p \notin ReadBacks
<1>1. ReadBacks = {"TPAMP_RBV", "TPFRQ_RBV", "TPCNT_RBV", "TPENB_RBV", "PLDEL_RBV",
                   "RODEL_RBV"} \cup Measured \cup {"IPADDR_RBV"}
  BY DEF ReadBacks, Plain, ReadBackOf
<1>2. ReadBacks \subseteq {ReadBack[r] : r \in DOMAIN ReadBack}
  BY <1>1 DEF ReadBack, Measured
<1>3. Sent = {"LOAO", "TPAMP", "TPFRQ", "TPCNT", "TPENB", "MODE", "PLDEL", "RODEL",
              "FREQ", "TP", "TP1", "DLY"}
  BY DEF Sent, RegisterOf, TimePresets
<1>. QED
  BY <1>1, <1>2, <1>3 DEF Parameters, Measured, Unhandled

\* processResponse files every answer under the read-back of its own register.
LEMMA Tables ==
  \A r \in DOMAIN ReadBack :
    /\ r \in Registers
    /\ \A p \in Plain : ReadBack[r] = ReadBackOf[p] =>
         r = RegisterOf[p] /\ r # "UDP_IP_ADDR"
    /\ \A m \in Measured : ReadBack[r] = m => r = m /\ r # "UDP_IP_ADDR"
    /\ ReadBack[r] = "IPADDR_RBV" => r = "UDP_IP_ADDR"
  BY DEF ReadBack, ReadBackOf, RegisterOf, Plain, Measured, Registers

\* Read-backs that stay keep their promise, as held only grows.
LEMMA Frame ==
  ASSUME ReadBackHeld,
         \A b \in ReadBacks : param'[b] = param[b],
         \A r \in Registers : held[r] \subseteq held'[r]
  PROVE  ReadBackHeld'
<1>1. /\ \A p \in Plain : ReadBackOf[p] \in ReadBacks /\ RegisterOf[p] \in Registers
      /\ Measured \subseteq ReadBacks /\ Measured \subseteq Registers
      /\ "IPADDR_RBV" \in ReadBacks /\ "UDP_IP_ADDR" \in Registers
  BY DEF ReadBacks, Plain, Measured, Registers, ReadBackOf, RegisterOf, ReadBack
<1>. QED
  BY <1>1 DEF ReadBackHeld, Plain, Measured

\* Answers on their way stay answers while held grows.
LEMMA AnswersGrow ==
  ASSUME \A r \in Registers : held[r] \subseteq held'[r]
  PROVE  Seq(Answers) \subseteq Seq(Answers')
<1>1. Answers \subseteq Answers'
  BY DEF Answers
<1>. QED
  BY <1>1, SeqMonotonic

\* A datagram lost, repeated or overtaken leaves nothing but answers.
LEMMA Disturbance ==
  ASSUME NEW S, NEW queue \in Seq(S), NEW result \in Disturbed(queue)
  PROVE  result \in Seq(S)
<1>1. CASE \E i \in 1 .. Len(queue) : result = RemoveAt(queue, i)
  <2>1. PICK i \in 1 .. Len(queue) : result = RemoveAt(queue, i)
    BY <1>1
  <2>2. SubSeq(queue, 1, i - 1) \in Seq(S) /\ SubSeq(queue, i + 1, Len(queue)) \in Seq(S)
    OBVIOUS
  <2>. QED
    BY <2>1, <2>2 DEF RemoveAt
<1>2. CASE \E i \in 1 .. Len(queue) : result = InsertAt(queue, i, queue[i])
  <2>1. PICK i \in 1 .. Len(queue) : result = InsertAt(queue, i, queue[i])
    BY <1>2
  <2>2. /\ SubSeq(queue, 1, i - 1) \in Seq(S) /\ SubSeq(queue, i, Len(queue)) \in Seq(S)
        /\ <<queue[i]>> \in Seq(S)
    OBVIOUS
  <2>. QED
    BY <2>1, <2>2 DEF InsertAt
<1>3. CASE \E i \in 1 .. Len(queue) - 1 :
             result = [queue EXCEPT ![i] = queue[i + 1], ![i + 1] = queue[i]]
  <2>1. PICK i \in 1 .. Len(queue) - 1 :
               result = [queue EXCEPT ![i] = queue[i + 1], ![i + 1] = queue[i]]
    BY <1>3
  <2>2. i \in 1 .. Len(queue) /\ i + 1 \in 1 .. Len(queue)
    OBVIOUS
  <2>3. queue[i] \in S /\ queue[i + 1] \in S
    BY <2>2
  <2>4. [queue EXCEPT ![i] = queue[i + 1]] \in Seq(S)
    BY <2>2, <2>3
  <2>5. Len([queue EXCEPT ![i] = queue[i + 1]]) = Len(queue)
    BY <2>2, <2>3
  <2>. QED
    BY <2>1, <2>2, <2>3, <2>4, <2>5
<1>. QED
  BY <1>1, <1>2, <1>3 DEF Disturbed

-----------------------------------------------------------------------------
LEMMA HeldInit == Init => HeldInv
<1>. SUFFICES ASSUME Init PROVE HeldInv
  OBVIOUS
<1>1. responses \in Seq(Answers)
  BY DEF Init
<1>5. Leaves
  BY DEF Init, Leaves, Idle, Handler
<1>2. \A b \in ReadBacks : b \notin DOMAIN Defaults
  BY DEF ReadBacks, Plain, ReadBackOf, Measured, Defaults
<1>3. \A b \in ReadBacks : param[b] = NoValue
  BY <1>2, Separate DEF Init
<1>4. ReadBackHeld
  BY <1>3 DEF ReadBackHeld, ReadBacks, Plain, Measured
<1>. QED
  BY <1>1, <1>4, <1>5 DEF HeldInv, Init

LEMMA HeldStep == HeldInv /\ [Next]_vars => HeldInv'
<1>. SUFFICES ASSUME HeldInv, [Next]_vars PROVE HeldInv'
  OBVIOUS
<1>. USE DEF HeldInv
<1>1. ASSUME NEW p \in Sent \cup Unhandled \cup {"RATE", "CNT", "IPADDR"}, NEW value,
             NEW handler, SetAndCall(p, value, handler),
             handler.then # NoValue => handler.of \in {"RATE", "IPADDR"}
      PROVE  HeldInv'
  <2>1. Leaves' /\ UNCHANGED <<responses, held>>
    BY <1>1 DEF SetAndCall, Call, Leaves, network, device
  <2>2. \A b \in ReadBacks : param'[b] = param[b]
    BY <1>1, Separate DEF SetAndCall
  <2>3. ReadBackHeld'
    BY <2>1, <2>2, Frame
  <2>. QED
    BY <1>1, <2>1, <2>3 DEF SetAndCall, Answers
<1>2. ASSUME UNCHANGED <<param, responses, held>>, Leaves' PROVE HeldInv'
  BY <1>2 DEF Answers, ReadBackHeld
<1>3. ASSUME NEW p \in Sent, NEW value, WriteSetting(p, value) PROVE HeldInv'
  BY <1>1, <1>3 DEF WriteSetting, Handler
<1>4. ASSUME NEW value, WriteRate(value) PROVE HeldInv'
  BY <1>1, <1>4 DEF WriteRate, Handler
<1>5. ASSUME NEW p \in Unhandled, NEW value, WriteUnhandled(p, value) PROVE HeldInv'
  BY <1>1, <1>5 DEF WriteUnhandled, Handler, Refuse
<1>6. ASSUME NEW text, WriteIpaddr(text) PROVE HeldInv'
  BY <1>1, <1>6 DEF WriteIpaddr, Handler, Refuse
<1>7. ASSUME NEW value, WriteCnt(value) PROVE HeldInv'
  BY <1>1, <1>7 DEF WriteCnt, StartTold, StopTold, Handler
<1>8. ASSUME NEW register, PollRegister(register) PROVE HeldInv'
  BY <1>2, <1>8 DEF PollRegister, Call, Handler, Leaves, network, device
<1>9. CASE Send
  <2>1. UNCHANGED <<param, responses, held>>
    BY <1>9 DEF Send, device
  <2>2. \/ job' = [job EXCEPT !.sends = Tail(@)]
        \/ job' = Spoiled([job EXCEPT !.sends = Tail(@)])
    BY <1>9 DEF Send
  <2>3. Leaves'
    <3>. DEFINE rest == [job EXCEPT !.sends = Tail(@)]
    <3>1. rest.then # NoValue => rest.of \in {"RATE", "IPADDR"}
      BY DEF Leaves
    <3>2. Idle.then = NoValue
      BY DEF Idle, Handler
    <3>. HIDE DEF rest
    <3>3. Spoiled(rest).then # NoValue => Spoiled(rest).of \in {"RATE", "IPADDR"}
      BY <3>1, <3>2 DEF Spoiled
    <3>. QED
      BY <2>2, <3>1, <3>3 DEF Leaves, rest
  <2>. QED
    BY <1>2, <2>1, <2>3
<1>10. CASE SendFails
  BY <1>2, <1>10 DEF SendFails, Leaves, network, device
<1>11. CASE Finish
  <2>1. Leaves' /\ UNCHANGED <<responses, held>>
    BY <1>11 DEF Finish, Leaves, Idle, Handler, network, device
  <2>2. \A b \in ReadBacks : param'[b] = param[b]
    BY <1>11, Separate DEF Finish, Leaves
  <2>3. ReadBackHeld'
    BY <2>1, <2>2, Frame
  <2>4. param' = [p \in Parameters |-> param'[p]]
    BY <1>11 DEF Finish
  <2>. QED
    BY <2>1, <2>3, <2>4 DEF Answers
<1>12. CASE Disturb
  <2>1. responses' \in Seq(Answers)
    BY <1>12, Disturbance DEF Disturb
  <2>2. Leaves' /\ UNCHANGED <<param, held>>
    BY <1>12 DEF Disturb, Spoiled, Idle, Handler, Leaves, device
  <2>. QED
    BY <2>1, <2>2 DEF Answers, ReadBackHeld
<1>13. CASE DeviceReceive
  <2>1. \/ UNCHANGED <<held, responses>>
        \/ \E r \in Registers : \E word :
             /\ held' = [held EXCEPT ![r] = @ \cup {word}]
             /\ responses' = Append(responses, [reg |-> r, val |-> word, whole |-> TRUE])
    BY <1>13 DEF DeviceReceive, device
  <2>2. Leaves' /\ UNCHANGED param
    BY <1>13 DEF DeviceReceive, Leaves
  <2>3. CASE UNCHANGED <<held, responses>>
    BY <1>2, <2>2, <2>3
  <2>4. ASSUME NEW r \in Registers, NEW word, held' = [held EXCEPT ![r] = @ \cup {word}],
               responses' = Append(responses, [reg |-> r, val |-> word, whole |-> TRUE])
        PROVE  HeldInv'
    <3>1. \A s \in Registers : held[s] \subseteq held'[s]
      BY <2>4
    <3>2. held' = [s \in Registers |-> held'[s]] /\ word \in held'[r]
      BY <2>4
    <3>3. [reg |-> r, val |-> word, whole |-> TRUE] \in Answers'
      BY <3>2 DEF Answers
    <3>4. responses' \in Seq(Answers')
      BY <2>4, <3>1, <3>3, AnswersGrow
    <3>5. ReadBackHeld'
      BY <2>2, <3>1, Frame
    <3>. QED
      BY <2>2, <3>2, <3>4, <3>5
  <2>. QED
    BY <2>1, <2>3, <2>4
<1>14. CASE Shorten
  <2>1. PICK i \in DOMAIN responses : responses' = [responses EXCEPT ![i].whole = FALSE]
    BY <1>14 DEF Shorten
  <2>2. [responses[i] EXCEPT !.whole = FALSE] \in Answers
    <3>1. PICK r \in Registers : responses[i] \in [reg : {r}, val : held[r], whole : BOOLEAN]
      BY <2>1 DEF Answers
    <3>2. [responses[i] EXCEPT !.whole = FALSE] \in [reg : {r}, val : held[r], whole : BOOLEAN]
      BY <3>1
    <3>. QED
      BY <3>2 DEF Answers
  <2>3. responses' \in Seq(Answers)
    BY <2>1, <2>2
  <2>4. Leaves' /\ UNCHANGED <<param, held>>
    BY <1>14 DEF Shorten, Spoiled, Idle, Handler, Leaves, device
  <2>. QED
    BY <2>3, <2>4 DEF Answers, ReadBackHeld
<1>15. CASE ProcessResponse
  <2>. DEFINE r == Head(responses)
  <2>1. r \in Answers /\ responses' \in Seq(Answers)
    BY <1>15 DEF ProcessResponse
  <2>2. r.reg \in Registers /\ r.val \in held[r.reg]
    BY <2>1 DEF Answers
  <2>3. Leaves' /\ UNCHANGED held
    BY <1>15 DEF ProcessResponse, Leaves, device
  <2>4. CASE UNCHANGED param
    BY <2>1, <2>3, <2>4 DEF Answers, ReadBackHeld
  <2>5. CASE r.reg \in DOMAIN ReadBack
             /\ param' = [param EXCEPT ![ReadBack[r.reg]] = ReadBackValue(r.reg, r.val)]
    <3>. HIDE DEF r
    <3>1. param' = [p \in Parameters |-> param'[p]]
      BY <2>5
    <3>2. ASSUME NEW b \in ReadBacks, b # ReadBack[r.reg] PROVE param'[b] = param[b]
      BY <2>5, <3>2, Separate
    <3>3. ASSUME NEW b \in ReadBacks, b = ReadBack[r.reg]
          PROVE  param'[b] = ReadBackValue(r.reg, r.val)
      BY <2>5, <3>3, Separate
    <3>4. ReadBackHeld'
      <4>1. ASSUME NEW p \in Plain
            PROVE  param'[ReadBackOf[p]] \in {NoValue} \cup held[RegisterOf[p]]
        <5>1. ReadBackOf[p] \in ReadBacks
          BY DEF ReadBacks
        <5>2. CASE ReadBackOf[p] = ReadBack[r.reg]
          BY <2>2, <2>5, <3>3, <5>1, <5>2, Tables DEF ReadBackValue
        <5>3. CASE ReadBackOf[p] # ReadBack[r.reg]
          BY <3>2, <5>1, <5>3 DEF ReadBackHeld, Plain
        <5>. QED
          BY <5>2, <5>3
      <4>2. ASSUME NEW m \in Measured PROVE param'[m] \in {NoValue} \cup held[m]
        <5>1. m \in ReadBacks
          BY DEF ReadBacks
        <5>2. CASE m = ReadBack[r.reg]
          BY <2>2, <2>5, <3>3, <5>1, <5>2, Tables DEF ReadBackValue
        <5>3. CASE m # ReadBack[r.reg]
          BY <3>2, <5>1, <5>3 DEF ReadBackHeld, Measured
        <5>. QED
          BY <5>2, <5>3
      <4>3. param'["IPADDR_RBV"] \in
              {NoValue} \cup {IpStr(Htonl(word)) : word \in held["UDP_IP_ADDR"]}
        <5>1. "IPADDR_RBV" \in ReadBacks
          BY DEF ReadBacks
        <5>2. CASE "IPADDR_RBV" = ReadBack[r.reg]
          <6>1. r.reg = "UDP_IP_ADDR"
            BY <2>5, <5>2, Tables
          <6>. QED
            BY <2>2, <3>3, <5>1, <5>2, <6>1 DEF ReadBackValue
        <5>3. CASE "IPADDR_RBV" # ReadBack[r.reg]
          BY <3>2, <5>1, <5>3 DEF ReadBackHeld
        <5>. QED
          BY <5>2, <5>3
      <4>. QED
        BY <2>3, <4>1, <4>2, <4>3 DEF ReadBackHeld, Plain, Measured
    <3>. QED
      BY <2>1, <2>3, <3>1, <3>4 DEF Answers
  <2>. QED
    BY <1>15, <2>4, <2>5 DEF ProcessResponse
<1>16. CASE DataProcessing
  <2>1. Leaves' /\ UNCHANGED <<responses, held>>
    BY <1>16 DEF DataProcessing, Leaves, network, device
  <2>2. /\ \A b \in ReadBacks : param'[b] = param[b]
        /\ param' = [p \in Parameters |-> param'[p]]
    BY <1>16, Separate DEF DataProcessing
  <2>3. ReadBackHeld'
    BY <2>1, <2>2, Frame
  <2>. QED
    BY <2>1, <2>2, <2>3 DEF Answers
<1>17. CASE UNCHANGED vars
  BY <1>2, <1>17 DEF vars, Leaves
<1>. QED
  BY <1>3, <1>4, <1>5, <1>6, <1>7, <1>8, <1>9, <1>10, <1>11, <1>12, <1>13, <1>14, <1>15,
     <1>16, <1>17 DEF Next, Clients, Port, Surroundings

\* ReadBackHeld holds for any settings, texts, sensors, leftovers and numbers of writes
\* and mishaps, as long as clients write no read-back (ChannelAssumption): a read-back is
\* undefined or was held by the register that processResponse maps it to.
THEOREM ReadBacksHeld == Spec => []ReadBackHeld
<1>1. HeldInv => ReadBackHeld
  BY DEF HeldInv
<1>. QED
  BY <1>1, HeldInit, HeldStep, PTL DEF Spec

-----------------------------------------------------------------------------
(* Types.  What a parameter may hold depends on its name, and RATE is out  *)
(* of bounds only while its own handler runs, which cannot fail.           *)

Shelf(p) == IF p \in {"IPADDR", "IPADDR_RBV"} THEN Addresses ELSE Values
Store(f) == f = [p \in Parameters |-> f[p]] /\ \A p \in Parameters : f[p] \in Shelf(p)

Messages == [read : BOOLEAN, reg : Registers, data : Int]
Operations == Leftovers \cup [read : BOOLEAN, reg : Registers]
Datagrams == [op : Operations, data : Values]
Replies == [reg : Registers, val : Int, whole : BOOLEAN]
Jobs == [of : Parameters \cup {"none", "other"}, sends : Seq(Messages),
         then : Values \cup Addresses, ok : BOOLEAN, ignores : BOOLEAN, intact : BOOLEAN]

\* What a handler leaves behind fits the parameter it is for; the one of RATE always
\* gets to its end.
Fitting(h) ==
  /\ h.then = NoValue \/ h.of = "RATE" \/ (h.of = "IPADDR" /\ h.then \in Addresses)
  /\ h.of = "RATE" => h.then \in 0 .. 60 /\ h.ok /\ h.sends = <<>>

ParamTypes == Store(param)
JobTypes ==
  /\ job \in Jobs /\ Fitting(job)
  /\ param["RATE"] \in 0 .. 60 \/ job.of = "RATE"
  /\ running \in BOOLEAN
WireTypes == requests \in Seq(Datagrams) /\ responses \in Seq(Replies)
DeviceTypes ==
  /\ registers \in [Registers -> Int]
  /\ held \in [Registers -> SUBSET Int]
  /\ \A r \in Registers : registers[r] \in held[r]

TypeInv == ParamTypes /\ JobTypes /\ WireTypes /\ DeviceTypes /\ settled \subseteq Parameters

\* The names that matter are parameters, and registers.
LEMMA Named ==
  /\ Sent \cup Unhandled \cup {"RATE", "CNT", "SS", "IPADDR", "IPADDR_RBV"} \subseteq Parameters
  /\ \A p \in Sent \cup Unhandled \cup {"RATE", "CNT", "SS"} : Shelf(p) = Values
  /\ \A r \in DOMAIN ReadBack : ReadBack[r] \in Parameters \ {"RATE", "IPADDR"}
  /\ "SS" # "RATE" /\ "none" \notin Parameters /\ "RATE" \notin Sent \cup Unhandled
<1>1. Sent = {"LOAO", "TPAMP", "TPFRQ", "TPCNT", "TPENB", "MODE", "PLDEL", "RODEL",
              "FREQ", "TP", "TP1", "DLY"}
  BY DEF Sent, RegisterOf, TimePresets
<1>2. DOMAIN ReadBack = {"VERSIONREG", "MARS_CALPULSE", "CALPULSE_RATE", "CALPULSE_CNT",
         "CALPULSE_MODE", "TRIG", "MARS_PIPE_DELAY", "MARS_RDOUT_ENB", "DETECTOR_TYPE",
         "UDP_IP_ADDR", "TEMP1", "TEMP2", "TEMP3", "ZTEMP", "HV", "HV_RBV", "HV_CURR"}
  BY DEF ReadBack
<1>3. {ReadBack[r] : r \in DOMAIN ReadBack} =
        {"VER", "TPAMP_RBV", "TPFRQ_RBV", "TPCNT_RBV", "TPENB_RBV", "ADAcquire",
         "PLDEL_RBV", "RODEL_RBV", "DETTYPE", "IPADDR_RBV", "TEMP1", "TEMP2", "TEMP3",
         "ZTEMP", "HV", "HV_RBV", "HV_CURR"}
  BY <1>2 DEF ReadBack
<1>4. Parameters = Sent \cup Unhandled \cup {"RATE", "CNT", "SS", "IPADDR"} \cup
        {"VER", "TPAMP_RBV", "TPFRQ_RBV", "TPCNT_RBV", "TPENB_RBV", "ADAcquire",
         "PLDEL_RBV", "RODEL_RBV", "DETTYPE", "IPADDR_RBV", "TEMP1", "TEMP2", "TEMP3",
         "ZTEMP", "HV", "HV_RBV", "HV_CURR"}
  BY <1>3, Zenon DEF Parameters
<1>5. \A r \in DOMAIN ReadBack : ReadBack[r] \in {ReadBack[q] : q \in DOMAIN ReadBack}
  OBVIOUS
<1>. QED
  BY <1>1, <1>3, <1>4, <1>5 DEF Unhandled, Shelf

\* Words are words in either order.
LEMMA HtonlWord == ASSUME NEW word \in Int PROVE Htonl(word) \in Int
  BY SMT DEF Htonl

\* Only the address is read back to IPADDR_RBV, and as an address.
LEMMA ReadBackFits ==
  ASSUME NEW r \in DOMAIN ReadBack, NEW word \in Int
  PROVE  ReadBackValue(r, word) \in Shelf(ReadBack[r])
<1>1. CASE r = "UDP_IP_ADDR"
  <2>1. Htonl(word) \in Int
    BY HtonlWord
  <2>2. ReadBack[r] = "IPADDR_RBV"
    BY <1>1 DEF ReadBack
  <2>. QED
    BY <1>1, <2>1, <2>2 DEF ReadBackValue, IpStr, Shelf, Addresses, Values
<1>2. CASE r # "UDP_IP_ADDR"
  <2>1. ReadBack[r] \notin {"IPADDR", "IPADDR_RBV"}
    BY <1>2 DEF ReadBack
  <2>. QED
    BY <1>2, <2>1 DEF ReadBackValue, Shelf, Values
<1>. QED
  BY <1>1, <1>2

\* A parameter may be set to what fits it.
LEMMA StoreExcept ==
  ASSUME NEW f, Store(f), NEW p \in Parameters, NEW value \in Shelf(p)
  PROVE  /\ Store([f EXCEPT ![p] = value])
         /\ p # "RATE" => [f EXCEPT ![p] = value]["RATE"] = f["RATE"]
  BY Named DEF Store

\* A refusal leaves nothing behind.
LEMMA RefuseFits ==
  ASSUME NEW p \in Parameters, p # "RATE"
  PROVE  Refuse(p) \in Jobs /\ Fitting(Refuse(p))
<1>. DEFINE h == [Handler(p, <<>>, NoValue, FALSE) EXCEPT !.ok = FALSE]
<1>1. <<>> \in Seq(Messages) /\ NoValue \in Values \cup Addresses
  BY DEF Values
<1>2. h \in Jobs /\ h.of = p /\ h.then = NoValue
  BY <1>1 DEF Handler, Jobs
<1>3. Refuse(p) = h
  BY Zenon DEF Refuse
<1>. HIDE DEF h
<1>. QED
  BY <1>2, <1>3, Zenon DEF Fitting

\* No handler is a handler too.
LEMMA IdleFits == Idle \in Jobs /\ Fitting(Idle) /\ Idle.of = "none" /\ Idle.sends = <<>>
  BY DEF Idle, Handler, Jobs, Fitting, Values

\* The datagrams of a setting.
LEMMA WritesFit ==
  ASSUME NEW p \in Sent, NEW value \in Int
  PROVE  WritesOf(p, value) \in Seq(Messages)
<1>1. \A r \in Registers, word \in Int : Write(r, word) \in Messages
  BY DEF Write, Messages
<1>2. \A ticks \in Int : TimeWrites(ticks) \in Seq(Messages)
  <2>. SUFFICES ASSUME NEW ticks \in Int PROVE TimeWrites(ticks) \in Seq(Messages)
    OBVIOUS
  <2>1. "COUNT_TIME_LO" \in Registers /\ "COUNT_TIME_HI" \in Registers
    BY DEF Registers
  <2>2. ticks % HalfWord \in Int /\ (ticks \div HalfWord) % HalfWord \in Int
    BY DEF HalfWord
  <2>. QED
    BY <1>1, <2>1, <2>2 DEF TimeWrites
<1>3. CASE p \in DOMAIN RegisterOf
  <2>1. RegisterOf[p] \in Registers
    BY <1>3 DEF Registers
  <2>2. WritesOf(p, value) = <<Write(RegisterOf[p], value)>>
    BY <1>3 DEF WritesOf, RegisterOf
  <2>. QED
    BY <1>1, <2>1, <2>2
<1>4. CASE p = "DLY"
  <2>1. WritesOf(p, value) = <<Write("TD_CAL", 1000 * value)>> /\ 1000 * value \in Int
    BY <1>4 DEF WritesOf, RegisterOf
  <2>2. "TD_CAL" \in Registers
    BY DEF Registers
  <2>. QED
    BY <1>1, <2>1, <2>2
<1>5. CASE p = "FREQ"
  <2>1. WritesOf(p, value) = TimeWrites(value \div 1000) /\ value \div 1000 \in Int
    BY <1>5 DEF WritesOf, RegisterOf
  <2>. QED
    BY <1>2, <2>1
<1>6. CASE p \in {"TP", "TP1"}
  <2>1. WritesOf(p, value) = TimeWrites(1000000 * value) /\ 1000000 * value \in Int
    BY <1>6 DEF WritesOf, RegisterOf
  <2>. QED
    BY <1>2, <2>1
<1>. QED
  BY <1>3, <1>4, <1>5, <1>6 DEF Sent, TimePresets

\* A rate is clipped on both sides.
LEMMA RateInBounds ==
  ASSUME NEW rate \in Int
  PROVE  Clipped(rate) \in 0 .. 60
<1>. DEFINE m == Max({0, rate})
<1>1. \E x \in {0, rate} : \A y \in {0, rate} : x >= y
  <2>1. CASE rate >= 0
    BY <2>1
  <2>2. CASE ~(rate >= 0)
    BY <2>2
  <2>. QED
    BY <2>1, <2>2
<1>2. m \in {0, rate} /\ \A y \in {0, rate} : m >= y
  BY <1>1, Zenon DEF Max
<1>3. m \in Int /\ m >= 0
  BY <1>2
<1>. HIDE DEF m
<1>4. \E x \in {60, m} : \A y \in {60, m} : x =< y
  <2>1. CASE 60 <= m
    BY <1>3, <2>1
  <2>2. CASE ~(60 <= m)
    BY <1>3, <2>2
  <2>. QED
    BY <2>1, <2>2
<1>5. Min({60, m}) \in {60, m} /\ \A y \in {60, m} : Min({60, m}) =< y
  BY <1>4, Zenon DEF Min
<1>6. Clipped(rate) = Min({60, m})
  BY Zenon DEF Clipped, m
<1>. QED
  BY <1>3, <1>5, <1>6

-----------------------------------------------------------------------------
\* A client's write keeps the types when its value and its handler fit.
LEMMA SetAndCallTypes ==
  ASSUME TypeInv, NEW p \in Parameters, NEW value \in Shelf(p), NEW handler \in Jobs,
         Fitting(handler), p = "RATE" => handler.of = "RATE",
         SetAndCall(p, value, handler), running' \in BOOLEAN
  PROVE  TypeInv'
<1>1. param' = [param EXCEPT ![p] = value] /\ job' = handler /\ job.of # "RATE"
  BY IdleFits DEF SetAndCall, Call
<1>2. UNCHANGED <<requests, responses, registers, held, settled>>
  BY DEF SetAndCall, Call, network, device
<1>3. Store(param')
  BY <1>1, StoreExcept, Zenon DEF TypeInv, ParamTypes
<1>4. p # "RATE" => param'["RATE"] = param["RATE"]
  BY <1>1, StoreExcept, Zenon DEF TypeInv, ParamTypes
<1>5. ParamTypes'
  BY <1>2, <1>3 DEF TypeInv, ParamTypes, Store
<1>6. JobTypes'
  BY <1>1, <1>4, Zenon DEF TypeInv, JobTypes, Fitting
<1>7. WireTypes' /\ DeviceTypes' /\ settled' \subseteq Parameters
  BY <1>2, Zenon DEF TypeInv, WireTypes, DeviceTypes
<1>. QED
  BY <1>5, <1>6, <1>7 DEF TypeInv

\* The first values fit.
LEMMA TypesInit == Init => TypeInv
<1>. SUFFICES ASSUME Init PROVE TypeInv
  OBVIOUS
<1>1. \A p \in DOMAIN Defaults : Defaults[p] \in Shelf(p)
  <2>1. Defaults["IPADDR"] \in Addresses
    BY SMT DEF Defaults, Addresses, Values, IpStr
  <2>2. \A p \in DOMAIN Defaults \ {"IPADDR"} : Defaults[p] \in Values /\ p # "IPADDR_RBV"
    BY SMT DEF Defaults, Values
  <2>. QED
    BY <2>1, <2>2, Zenon DEF Shelf
<1>2. \A p \in Parameters : NoValue \in Shelf(p)
  BY DEF Shelf, Values, Addresses
<1>3. Store(param)
  BY <1>1, <1>2, Zenon DEF Init, Store
<1>4. ParamTypes
  BY <1>3 DEF Init, ParamTypes
<1>5. param["RATE"] \in 0 .. 60
  <2>1. "RATE" \in DOMAIN Defaults /\ Defaults["RATE"] = 2
    BY DEF Defaults
  <2>2. param["RATE"] = 2
    BY <2>1, Named, Zenon DEF Init
  <2>. QED
    BY <2>2
<1>6. JobTypes
  BY <1>5, IdleFits DEF Init, JobTypes
<1>7. WireTypes
  BY DEF Init, WireTypes
<1>8. DeviceTypes
  BY DEF Init, DeviceTypes
<1>. QED
  BY <1>4, <1>6, <1>7, <1>8 DEF TypeInv, Init

\* Each kind of client call.
LEMMA ClientTypes ==
  ASSUME TypeInv, Clients
  PROVE  TypeInv'
<1>. USE DEF TypeInv, JobTypes
<1>1. ASSUME NEW p \in DOMAIN NumberWrites \cap Sent, NEW value \in NumberWrites[p],
             WriteSetting(p, value)
      PROVE  TypeInv'
  <2>1. value \in Int /\ value \in Shelf(p) /\ p \in Parameters /\ p # "RATE"
    BY <1>1, Named, ChannelAssumption DEF Values
  <2>2. WritesOf(p, value) \in Seq(Messages) /\ NoValue \in Values
    BY <1>1, <2>1, WritesFit DEF Values
  <2>3. Fitting(Handler(p, WritesOf(p, value), NoValue, FALSE))
    BY <2>1 DEF Fitting, Handler
  <2>4. Handler(p, WritesOf(p, value), NoValue, FALSE) \in Jobs
    <3>1. p \in Parameters \cup {"none", "other"} /\ NoValue \in Values \cup Addresses
      BY <2>1, <2>2, Zenon
    <3>. QED
      BY <2>2, <3>1 DEF Handler, Jobs
  <2>. QED
    BY <1>1, <2>1, <2>3, <2>4, SetAndCallTypes DEF WriteSetting
<1>2. ASSUME NEW value \in NumberWrites["RATE"], WriteRate(value) PROVE TypeInv'
  <2>1. value \in Int /\ value \in Shelf("RATE") /\ "RATE" \in Parameters
    BY <1>2, Named, ChannelAssumption DEF Values
  <2>2. Clipped(value) \in 0 .. 60
    BY <2>1, RateInBounds
  <2>. DEFINE h == Handler("RATE", <<>>, Clipped(value), FALSE)
  <2>3. h \in Jobs /\ h.of = "RATE" /\ h.then = Clipped(value) /\ h.ok = TRUE /\ h.sends = <<>>
    <3>1. Clipped(value) \in Values /\ <<>> \in Seq(Messages)
      BY <2>2 DEF Values
    <3>2. /\ "RATE" \in Parameters \cup {"none", "other"}
          /\ Clipped(value) \in Values \cup Addresses
      BY <2>1, <3>1, Zenon
    <3>. QED
      BY <3>1, <3>2 DEF Handler, Jobs
  <2>4. SetAndCall("RATE", value, h) /\ running' \in BOOLEAN
    BY <1>2 DEF WriteRate
  <2>. HIDE DEF h
  <2>5. Fitting(h)
    BY <2>2, <2>3 DEF Fitting
  <2>. QED
    BY <2>1, <2>3, <2>4, <2>5, SetAndCallTypes
<1>3. ASSUME NEW p \in DOMAIN NumberWrites \cap Unhandled, NEW value \in NumberWrites[p],
             WriteUnhandled(p, value)
      PROVE  TypeInv'
  <2>1. value \in Shelf(p) /\ p \in Parameters /\ p # "RATE"
    BY <1>3, Named, ChannelAssumption DEF Values
  <2>. QED
    BY <1>3, <2>1, RefuseFits, SetAndCallTypes DEF WriteUnhandled
<1>4. ASSUME NEW text \in Texts \cup {InvalidText}, WriteIpaddr(text) PROVE TypeInv'
  <2>1. text \in Addresses /\ text \in Shelf("IPADDR") /\ "IPADDR" \in Parameters
    <3>1. InvalidText \in Addresses
      BY DEF InvalidText, Addresses, Values
    <3>2. [host : Int, normal : BOOLEAN] \subseteq Addresses
      BY DEF Addresses, Values
    <3>. QED
      BY <1>4, <3>1, <3>2, Named, ChannelAssumption, Zenon DEF Shelf
  <2>2. CASE text = InvalidText
    BY <1>4, <2>1, <2>2, RefuseFits, SetAndCallTypes DEF WriteIpaddr
  <2>3. CASE text # InvalidText
    <3>. DEFINE sends == <<Write("UDP_IP_ADDR", NetworkOrder(text.host))>>
                h == Handler("IPADDR", sends, IpStr(text.host), FALSE)
    <3>1. text.host \in Int
      BY <2>3, ChannelAssumption
    <3>2. NetworkOrder(text.host) \in Int
      BY <3>1, HtonlWord, Zenon DEF NetworkOrder
    <3>3. sends \in Seq(Messages)
      BY <3>2 DEF Write, Messages, Registers, ReadBack
    <3>4. IpStr(text.host) \in Addresses
      BY <3>1 DEF IpStr, Addresses, Values
    <3>. HIDE DEF sends
    <3>5. h \in Jobs /\ h.of = "IPADDR" /\ h.then = IpStr(text.host)
      <4>1. /\ "IPADDR" \in Parameters \cup {"none", "other"}
            /\ IpStr(text.host) \in Values \cup Addresses
        BY <2>1, <3>4, Zenon
      <4>. QED
        BY <3>3, <4>1 DEF Handler, Jobs
    <3>6. SetAndCall("IPADDR", text, h) /\ running' \in BOOLEAN
      BY <1>4, <2>3, Zenon DEF WriteIpaddr, sends
    <3>. HIDE DEF h
    <3>7. Fitting(h)
      BY <3>4, <3>5 DEF Fitting
    <3>. QED
      BY <2>1, <3>5, <3>6, <3>7, SetAndCallTypes
  <2>. QED
    BY <2>2, <2>3
<1>5. ASSUME NEW value \in NumberWrites["CNT"], WriteCnt(value) PROVE TypeInv'
  <2>1. value \in Shelf("CNT") /\ "CNT" \in Parameters
    BY <1>5, Named, ChannelAssumption DEF Values
  <2>2. running' \in BOOLEAN
    BY <1>5 DEF WriteCnt
  <2>3. PICK of \in {"CNT", "other"}, sends \in Seq(Messages) :
          SetAndCall("CNT", value, Handler(of, sends, NoValue, TRUE))
    <3>1. \A word \in Int : <<Write("TRIG", word)>> \in Seq(Messages)
      BY DEF Write, Messages, Registers, ReadBack
    <3>2. <<>> \in Seq(Messages)
      OBVIOUS
    <3>3. \/ SetAndCall("CNT", value, Handler("other", <<>>, NoValue, TRUE))
          \/ SetAndCall("CNT", value, Handler("CNT", <<Write("TRIG", 1)>>, NoValue, TRUE))
          \/ SetAndCall("CNT", value, Handler("CNT", <<Write("TRIG", 0)>>, NoValue, TRUE))
      BY <1>5, Zenon DEF WriteCnt, StartTold, StopTold
    <3>4. 0 \in Int /\ 1 \in Int
      OBVIOUS
    <3>. QED
      BY <3>1, <3>2, <3>3, <3>4, Zenon
  <2>. DEFINE h == Handler(of, sends, NoValue, TRUE)
  <2>4. h \in Jobs /\ h.of = of /\ h.then = NoValue
    <3>1. of \in Parameters \cup {"none", "other"}
          /\ NoValue \in Values \cup Addresses
      BY <2>1, <2>3, Zenon DEF Values
    <3>. QED
      BY <2>3, <3>1 DEF Handler, Jobs
  <2>5. SetAndCall("CNT", value, h)
    BY <2>3
  <2>. HIDE DEF h
  <2>6. Fitting(h)
    BY <2>4 DEF Fitting
  <2>. QED
    BY <2>1, <2>2, <2>4, <2>5, <2>6, SetAndCallTypes
<1>6. ASSUME NEW register \in Polled \cap DOMAIN Sensors, PollRegister(register)
      PROVE  TypeInv'
  <2>. DEFINE h == Handler("other", <<Read(register)>>, NoValue, FALSE)
  <2>1. <<Read(register)>> \in Seq(Messages)
    BY <1>6, ChannelAssumption DEF Read, Messages
  <2>2. h \in Jobs /\ h.of = "other" /\ h.then = NoValue
    <3>1. /\ "other" \in Parameters \cup {"none", "other"}
          /\ NoValue \in Values \cup Addresses
      BY Zenon DEF Values
    <3>. QED
      BY <2>1, <3>1 DEF Handler, Jobs
  <2>3. /\ job' = h /\ job.of # "RATE"
        /\ UNCHANGED <<param, running, requests, responses, registers, held, settled>>
    BY <1>6, IdleFits DEF PollRegister, Call, network, device
  <2>. HIDE DEF h
  <2>4. Fitting(h)
    BY <2>2 DEF Fitting
  <2>5. JobTypes'
    BY <2>2, <2>3, <2>4 DEF Fitting
  <2>6. ParamTypes' /\ WireTypes' /\ DeviceTypes' /\ settled' \subseteq Parameters
    BY <2>3, Zenon DEF ParamTypes, Store, WireTypes, DeviceTypes
  <2>. QED
    BY <2>5, <2>6
<1>. QED
  BY <1>1, <1>2, <1>3, <1>4, <1>5, <1>6 DEF Clients

\* The port thread's steps: a datagram less to send, or the end of the handler.
LEMMA PortTypes ==
  ASSUME TypeInv, Port
  PROVE  TypeInv'
<1>1. /\ job \in Jobs /\ Fitting(job) /\ job.sends \in Seq(Messages)
      /\ requests \in Seq(Datagrams)
  BY DEF TypeInv, JobTypes, WireTypes, Jobs
<1>2. ASSUME NEW h \in Jobs, Fitting(h), h.of = job.of, job' = h,
             UNCHANGED <<param, running, responses, registers, held>>,
             requests' \in Seq(Datagrams), settled' \subseteq settled
      PROVE  TypeInv'
  BY <1>2, Zenon DEF TypeInv, ParamTypes, Store, JobTypes, WireTypes, DeviceTypes, Fitting
<1>3. CASE Send
  <2>. DEFINE message == Head(job.sends)
              rest == [job EXCEPT !.sends = Tail(@)]
  <2>1. job.sends # <<>> /\ UNCHANGED <<param, running, responses, registers, held>>
    BY <1>3 DEF Send, device
  <2>2. message \in Messages /\ Tail(job.sends) \in Seq(Messages)
    BY <1>1, <2>1
  <2>3. rest \in Jobs /\ rest.of = job.of /\ Fitting(rest)
    <3>1. rest \in Jobs /\ rest.of = job.of /\ rest.then = job.then
      BY <1>1, <2>2 DEF Jobs
    <3>2. job.of # "RATE"
      BY <1>1, <2>1 DEF Fitting
    <3>. HIDE DEF rest
    <3>. QED
      BY <1>1, <3>1, <3>2 DEF Fitting
  <2>4. Spoiled(rest) \in Jobs /\ Spoiled(rest).of = job.of /\ Fitting(Spoiled(rest))
    <3>1. CASE rest = Idle
      BY <2>3, <3>1 DEF Spoiled
    <3>2. CASE rest # Idle
      <4>. HIDE DEF rest
      <4>1. [rest EXCEPT !.intact = FALSE] \in Jobs
        BY <2>3 DEF Jobs
      <4>2. /\ [rest EXCEPT !.intact = FALSE].of = rest.of
            /\ [rest EXCEPT !.intact = FALSE].then = rest.then
            /\ [rest EXCEPT !.intact = FALSE].ok = rest.ok
            /\ [rest EXCEPT !.intact = FALSE].sends = rest.sends
        BY <2>3 DEF Jobs
      <4>. QED
        BY <2>3, <3>2, <4>1, <4>2, Zenon DEF Spoiled, Fitting
    <3>. QED
      BY <3>1, <3>2
  <2>5. ASSUME NEW op \in Operations, SendSucceeds(op) PROVE requests' \in Seq(Datagrams)
    <3>1. Datagram(op, message) \in Datagrams
      <4>1. message.data \in Int /\ message.read \in BOOLEAN
        BY <2>2 DEF Messages
      <4>2. (IF message.read THEN NoValue ELSE Htonl(message.data)) \in Values
        BY <4>1, HtonlWord DEF Values
      <4>. HIDE DEF message
      <4>. QED
        BY <2>5, <4>2 DEF Datagram, Datagrams
    <3>. QED
      BY <1>1, <2>5, <3>1 DEF SendSucceeds
  <2>6. Operation(message) \in Operations
    BY <2>2 DEF Operation, Operations, Messages
  <2>7. \/ SendSucceeds(Operation(message)) /\ job' = rest /\ settled' = settled
        \/ \E op \in Leftovers : SendSucceeds(op) /\ job' = Spoiled(rest) /\ settled' = {}
    BY <1>3, Zenon DEF Send, Mishap
  <2>8. Leftovers \subseteq Operations
    BY DEF Operations
  <2>. HIDE DEF message, rest
  <2>9. CASE SendSucceeds(Operation(message)) /\ job' = rest /\ settled' = settled
    BY <1>2, <2>1, <2>3, <2>5, <2>6, <2>9, Zenon
  <2>10. CASE \E op \in Leftovers :
                SendSucceeds(op) /\ job' = Spoiled(rest) /\ settled' = {}
    <3>1. requests' \in Seq(Datagrams)
      BY <2>5, <2>8, <2>10
    <3>. QED
      BY <1>2, <2>1, <2>4, <2>10, <3>1, Zenon
  <2>. QED
    BY <2>7, <2>9, <2>10
<1>4. CASE SendFails
  <2>1. /\ job' = [job EXCEPT !.sends = <<>>, !.ok = job.ignores, !.intact = FALSE]
        /\ job.sends # <<>>
        /\ UNCHANGED <<param, running, requests, responses, registers, held, settled>>
    BY <1>4 DEF SendFails, network, device
  <2>2. job' \in Jobs /\ job'.of = job.of /\ job'.then = job.then /\ job.of # "RATE"
    <3>1. job.of # "RATE"
      BY <1>1, <2>1 DEF Fitting
    <3>2. job.ignores \in BOOLEAN /\ <<>> \in Seq(Messages)
      BY <1>1 DEF Jobs
    <3>3. [job EXCEPT !.sends = <<>>, !.ok = job.ignores, !.intact = FALSE] \in Jobs
      BY <1>1, <3>2 DEF Jobs
    <3>4. job'.of = job.of /\ job'.then = job.then
      BY <1>1, <2>1 DEF Jobs
    <3>. QED
      BY <2>1, <3>1, <3>3, <3>4, Zenon
  <2>3. Fitting(job')
    BY <1>1, <2>2 DEF Fitting
  <2>. QED
    BY <1>1, <1>2, <2>1, <2>2, <2>3
<1>5. CASE Finish
  <2>1. /\ job' = Idle /\ UNCHANGED <<requests, responses, registers, held>>
        /\ running' = IF job.of = "CNT" THEN param["CNT"] = 1 ELSE running
    BY <1>5 DEF Finish, network, device
  <2>2. Store(param) /\ settled \subseteq Parameters
    BY DEF TypeInv, ParamTypes
  <2>3. ASSUME job.ok, job.then # NoValue
        PROVE  Store(param') /\ param'["RATE"] \in 0 .. 60
    <3>1. param' = [param EXCEPT ![job.of] = job.then]
      BY <1>5, <2>3 DEF Finish
    <3>2. job.of \in {"RATE", "IPADDR"} /\ job.of \in Parameters
      BY <1>1, <2>3, Named DEF Fitting
    <3>3. job.then \in Shelf(job.of)
      <4>1. CASE job.of = "RATE"
        <5>1. job.then \in 0 .. 60 /\ 0 .. 60 \subseteq Values
          BY <1>1, <4>1 DEF Fitting, Values
        <5>. QED
          BY <4>1, <5>1, Named, Zenon
      <4>2. CASE job.of = "IPADDR"
        BY <1>1, <2>3, <4>2, Zenon DEF Fitting, Shelf
      <4>. QED
        BY <3>2, <4>1, <4>2
    <3>4. Store(param')
      BY <2>2, <3>1, <3>2, <3>3, StoreExcept, Zenon
    <3>5. param'["RATE"] \in 0 .. 60
      <4>1. CASE job.of = "RATE"
        <5>1. param'["RATE"] = job.then
          BY <2>2, <3>1, <3>2, <4>1 DEF Store
        <5>. QED
          BY <1>1, <4>1, <5>1 DEF Fitting
      <4>2. CASE job.of # "RATE"
        <5>1. param'["RATE"] = param["RATE"]
          BY <2>2, <3>1, <3>2, <3>3, <4>2, StoreExcept, Zenon
        <5>. QED
          BY <4>2, <5>1 DEF TypeInv, JobTypes
      <4>. QED
        BY <4>1, <4>2
    <3>. QED
      BY <2>2, <3>4, <3>5
  <2>4. ASSUME ~(job.ok /\ job.then # NoValue)
        PROVE  Store(param') /\ param'["RATE"] \in 0 .. 60
    <3>1. param' = param
      BY <1>5, <2>4 DEF Finish
    <3>2. job.of # "RATE"
      <4>1. NoValue \notin 0 .. 60
        BY ChannelAssumption
      <4>. QED
        BY <1>1, <2>4, <4>1, Zenon DEF Fitting
    <3>. QED
      BY <2>2, <3>1, <3>2 DEF TypeInv, JobTypes, Store
  <2>5. Store(param') /\ param'["RATE"] \in 0 .. 60
    BY <2>3, <2>4
  <2>7. JobTypes'
    <3>1. running' \in BOOLEAN
      BY <2>1 DEF TypeInv, JobTypes
    <3>. QED
      BY <2>1, <2>5, <3>1, IdleFits, Zenon DEF JobTypes, Fitting
  <2>8. settled' \subseteq Parameters
    BY <1>5, <2>2 DEF Finish
  <2>9. WireTypes' /\ DeviceTypes'
    BY <2>1, Zenon DEF TypeInv, WireTypes, DeviceTypes
  <2>. QED
    BY <2>5, <2>7, <2>8, <2>9 DEF TypeInv, ParamTypes, Store
<1>. QED
  BY <1>3, <1>4, <1>5 DEF Port

\* The network makes no messages of its own, and the device answers with what it holds.
LEMMA SurroundingTypes ==
  ASSUME TypeInv, Surroundings
  PROVE  TypeInv'
<1>1. job \in Jobs /\ Fitting(job) /\ requests \in Seq(Datagrams) /\ responses \in Seq(Replies)
  BY DEF TypeInv, JobTypes, WireTypes
<1>2. Spoiled(job) \in Jobs /\ Fitting(Spoiled(job)) /\ Spoiled(job).of = job.of
  <2>1. CASE job = Idle
    BY <1>1, <2>1 DEF Spoiled
  <2>2. CASE job # Idle
    <3>1. [job EXCEPT !.intact = FALSE] \in Jobs
      BY <1>1 DEF Jobs
    <3>2. /\ [job EXCEPT !.intact = FALSE].of = job.of
          /\ [job EXCEPT !.intact = FALSE].then = job.then
          /\ [job EXCEPT !.intact = FALSE].ok = job.ok
          /\ [job EXCEPT !.intact = FALSE].sends = job.sends
      BY <1>1 DEF Jobs
    <3>. QED
      BY <1>1, <2>2, <3>1, <3>2, Zenon DEF Spoiled, Fitting
  <2>. QED
    BY <2>1, <2>2
<1>3. ASSUME job' = Spoiled(job), settled' = {},
             UNCHANGED <<param, running, registers, held>>, WireTypes'
      PROVE  TypeInv'
  <2>1. JobTypes'
    BY <1>2, <1>3, Zenon DEF TypeInv, JobTypes, Fitting
  <2>2. ParamTypes' /\ DeviceTypes'
    BY <1>3, Zenon DEF TypeInv, ParamTypes, Store, DeviceTypes
  <2>3. settled' \subseteq Parameters
    BY <1>3
  <2>. QED
    BY <1>3, <2>1, <2>2, <2>3 DEF TypeInv
<1>4. CASE Disturb
  <2>1. requests' \in Seq(Datagrams) /\ responses' \in Seq(Replies)
    BY <1>1, <1>4, Disturbance, Zenon DEF Disturb
  <2>. QED
    BY <1>3, <1>4, <2>1 DEF Disturb, Mishap, device, WireTypes
<1>5. CASE Shorten
  <2>1. PICK i \in DOMAIN responses : responses' = [responses EXCEPT ![i].whole = FALSE]
    BY <1>5 DEF Shorten
  <2>2. [responses[i] EXCEPT !.whole = FALSE] \in Replies
    <3>1. responses[i] \in Replies
      BY <1>1, <2>1, ElementOfSeq, LenProperties, Zenon
    <3>. QED
      BY <3>1 DEF Replies
  <2>3. responses' \in Seq(Replies)
    BY <1>1, <2>1, <2>2
  <2>. QED
    BY <1>1, <1>3, <1>5, <2>3 DEF Shorten, Mishap, device, WireTypes
<1>6. CASE DeviceReceive
  <2>. DEFINE op == Head(requests).op
              data == Head(requests).data
  <2>1. /\ UNCHANGED <<param, job, running, settled>>
        /\ requests # <<>> /\ requests' = Tail(requests)
    BY <1>6 DEF DeviceReceive
  <2>2. Head(requests) \in Datagrams /\ requests' \in Seq(Datagrams)
    BY <1>1, <2>1
  <2>3. op.read \in BOOLEAN /\ data \in Values
    BY <2>2, ChannelAssumption DEF Datagrams, Operations
  <2>4. ParamTypes' /\ JobTypes' /\ settled' \subseteq Parameters
    BY <2>1, Zenon DEF TypeInv, ParamTypes, Store, JobTypes, Fitting
  <2>5. CASE UNCHANGED <<registers, held, responses>>
    <3>1. WireTypes' /\ DeviceTypes'
      BY <2>2, <2>5, Zenon DEF TypeInv, WireTypes, DeviceTypes
    <3>. QED
      BY <2>4, <3>1 DEF TypeInv
  <2>6. ASSUME op.reg \in Registers, op.read \/ data # NoValue,
               NEW word \in Outcomes(op, data),
               registers' = [registers EXCEPT ![op.reg] = word],
               held' = [held EXCEPT ![op.reg] = @ \cup {word}],
               responses' = Append(responses, [reg |-> op.reg, val |-> word, whole |-> TRUE])
        PROVE  TypeInv'
    <3>. HIDE DEF op, data
    <3>1. /\ registers \in [Registers -> Int] /\ held \in [Registers -> SUBSET Int]
          /\ \A r \in Registers : registers[r] \in held[r]
      BY DEF TypeInv, DeviceTypes
    <3>2. word \in Int
      <4>1. CASE ~op.read
        <5>1. data \in Int /\ word = Htonl(data)
          BY <2>3, <2>6, <4>1 DEF Outcomes, Values
        <5>. QED
          BY <5>1, HtonlWord
      <4>2. CASE op.read /\ op.reg \in DOMAIN Sensors
        BY <2>6, <4>2, ChannelAssumption DEF Outcomes
      <4>3. CASE op.read /\ op.reg \notin DOMAIN Sensors
        BY <2>6, <3>1, <4>3 DEF Outcomes
      <4>. QED
        BY <2>3, <4>1, <4>2, <4>3
    <3>3. registers' \in [Registers -> Int] /\ held' \in [Registers -> SUBSET Int]
      BY <2>6, <3>1, <3>2
    <3>4. \A r \in Registers : registers'[r] \in held'[r]
      BY <2>6, <3>1
    <3>5. responses' \in Seq(Replies)
      <4>1. [reg |-> op.reg, val |-> word, whole |-> TRUE] \in Replies
        BY <2>6, <3>2 DEF Replies
      <4>. QED
        BY <1>1, <2>6, <4>1
    <3>. QED
      BY <2>2, <2>4, <3>3, <3>4, <3>5 DEF TypeInv, WireTypes, DeviceTypes
  <2>7. \/ UNCHANGED <<registers, held, responses>>
        \/ /\ op.reg \in Registers /\ (op.read \/ data # NoValue)
           /\ \E word \in Outcomes(op, data) :
                /\ registers' = [registers EXCEPT ![op.reg] = word]
                /\ held' = [held EXCEPT ![op.reg] = @ \cup {word}]
                /\ responses' = Append(responses,
                     [reg |-> op.reg, val |-> word, whole |-> TRUE])
    BY <1>6, Zenon DEF DeviceReceive, device
  <2>. QED
    BY <2>5, <2>6, <2>7, Zenon
<1>. QED
  BY <1>4, <1>5, <1>6 DEF Surroundings

\* Every step keeps the types.
LEMMA TypesStep == TypeInv /\ [Next]_vars => TypeInv'
<1>. SUFFICES ASSUME TypeInv, [Next]_vars PROVE TypeInv'
  OBVIOUS
<1>1. CASE ProcessResponse
  <2>. DEFINE r == Head(responses)
  <2>1. /\ UNCHANGED <<job, running, requests, registers, held, settled>>
        /\ responses # <<>> /\ responses' = Tail(responses)
    BY <1>1 DEF ProcessResponse, device
  <2>2. r \in Replies /\ responses' \in Seq(Replies)
    BY <2>1 DEF TypeInv, WireTypes
  <2>3. Store(param)
    BY DEF TypeInv, ParamTypes
  <2>4. ASSUME r.reg \in DOMAIN ReadBack,
               param' = [param EXCEPT ![ReadBack[r.reg]] = ReadBackValue(r.reg, r.val)]
        PROVE  Store(param') /\ param'["RATE"] = param["RATE"]
    <3>1. r.val \in Int
      BY <2>2 DEF Replies
    <3>. HIDE DEF r
    <3>2. ReadBackValue(r.reg, r.val) \in Shelf(ReadBack[r.reg])
      BY <2>4, <3>1, ReadBackFits
    <3>3. ReadBack[r.reg] \in Parameters /\ ReadBack[r.reg] # "RATE"
      BY <2>4, Named
    <3>. QED
      BY <2>3, <2>4, <3>2, <3>3, StoreExcept, Zenon
  <2>5. Store(param') /\ param'["RATE"] = param["RATE"]
    BY <1>1, <2>3, <2>4, Zenon DEF ProcessResponse
  <2>6. ParamTypes'
    BY <2>3, <2>5 DEF ParamTypes, Store
  <2>7. JobTypes' /\ DeviceTypes' /\ settled' \subseteq Parameters
    BY <2>1, <2>5, Zenon DEF TypeInv, JobTypes, DeviceTypes, Fitting
  <2>8. WireTypes'
    BY <2>1, <2>2, Zenon DEF TypeInv, WireTypes
  <2>. QED
    BY <2>6, <2>7, <2>8 DEF TypeInv
<1>2. CASE DataProcessing
  <2>1. /\ UNCHANGED <<job, running, requests, responses, registers, held, settled>>
        /\ \E value \in {0, 1} : param' = [param EXCEPT !["SS"] = value]
    BY <1>2 DEF DataProcessing, network, device
  <2>2. Store(param) /\ "SS" \in Parameters /\ "SS" # "RATE"
    BY Named DEF TypeInv, ParamTypes
  <2>3. \A value \in {0, 1} : value \in Shelf("SS")
    BY Named DEF Values
  <2>4. Store(param') /\ param'["RATE"] = param["RATE"]
    <3>1. PICK value \in {0, 1} : param' = [param EXCEPT !["SS"] = value]
      BY <2>1
    <3>2. value \in Shelf("SS")
      BY <2>3
    <3>. QED
      BY <2>2, <3>1, <3>2, StoreExcept, Zenon
  <2>5. ParamTypes'
    BY <2>1, <2>4 DEF ParamTypes, Store
  <2>6. JobTypes' /\ WireTypes' /\ DeviceTypes' /\ settled' \subseteq Parameters
    BY <2>1, <2>4, Zenon DEF TypeInv, JobTypes, WireTypes, DeviceTypes, Fitting
  <2>. QED
    BY <2>5, <2>6 DEF TypeInv
<1>3. CASE UNCHANGED vars
  BY <1>3, Zenon DEF vars, TypeInv, ParamTypes, Store, JobTypes, WireTypes, DeviceTypes, Fitting
<1>. QED
  BY <1>1, <1>2, <1>3, ClientTypes, PortTypes, SurroundingTypes, Zenon DEF Next

\* So they hold always.
LEMMA TypesAlways == Spec => []TypeInv
  BY TypesInit, TypesStep, PTL DEF Spec

\* Parameters, handlers, registers and answers keep their types for any values that
\* clients write to what ChannelAssumption names, sensors and mishaps, and RATE is within its bounds whenever no handler runs
\* (writeInt32 clips it in a second step).
THEOREM TypesKept == Spec => []TypeOK
<1>1. ASSUME TypeInv PROVE TypeOK
  <2>1. \A p \in Parameters :
          param[p] \in IF p \in {"IPADDR", "IPADDR_RBV"} THEN Addresses ELSE Values
    BY <1>1, Zenon DEF TypeInv, ParamTypes, Store, Shelf
  <2>2. /\ job = Idle => param["RATE"] \in 0 .. 60
        /\ job.of \in Parameters \cup {"none", "other"} /\ running \in BOOLEAN
    BY <1>1, IdleFits DEF TypeInv, JobTypes, Jobs
  <2>3. \A i \in DOMAIN job.sends : job.sends[i].reg \in Registers
    <3>1. job.sends \in Seq(Messages)
      BY <1>1 DEF TypeInv, JobTypes, Jobs
    <3>2. \A i \in DOMAIN job.sends : job.sends[i] \in Messages
      BY <3>1, ElementOfSeq, LenProperties, Zenon
    <3>. QED
      BY <3>2 DEF Messages
  <2>4. \A i \in DOMAIN responses : responses[i].reg \in Registers
    <3>1. responses \in Seq(Replies)
      BY <1>1 DEF TypeInv, WireTypes
    <3>2. \A i \in DOMAIN responses : responses[i] \in Replies
      BY <3>1, ElementOfSeq, LenProperties, Zenon
    <3>. QED
      BY <3>2 DEF Replies
  <2>5. /\ \A r \in Registers : registers[r] \in held[r] /\ held[r] \subseteq Int
        /\ settled \subseteq Parameters
    BY <1>1 DEF TypeInv, DeviceTypes
  <2>. QED
    BY <2>1, <2>2, <2>3, <2>4, <2>5 DEF TypeOK
<1>. QED
  BY <1>1, TypesAlways, PTL
=============================================================================
