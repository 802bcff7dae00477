--------------------------- MODULE ControlChannel ---------------------------
(***************************************************************************)
(* The control channel: client writes that set a register of the device    *)
(* (writeInt32, writeFloat64, writeOctet, germaniumDetectorDriver.cpp),    *)
(* the datagrams that carry them (sendUDPCommand,                          *)
(* germaniumDetectorNetwork.cpp), the answers of the device                *)
(* (udpControlThread, processResponse), and the state that the data        *)
(* processing thread publishes.                                            *)
(*                                                                         *)
(* Handlers run one at a time, under the lock of the port; the other       *)
(* threads, which take no lock, come between any two of their steps, or    *)
(* take none when they could not be created.  Setting one parameter is one *)
(* step.  What clients are told of the parameters, and when                *)
(* (callParamCallbacks), is left to asyn.  A 32-bit word is the int with   *)
(* the same bits; the host is little-endian.                               *)
(***************************************************************************)
EXTENDS Integers, Sequences, SequencesExt, FiniteSetsExt

CONSTANTS
  NumberWrites,   \* [numeric parameter -> the values clients write to it]
  Texts,          \* what clients write to IPADDR, besides an invalid text
  Sensors,        \* [register -> the values the device measures]
  Leftovers,      \* the operations that an unset msg.op may hold
  MaxWrites,      \* bounds the client calls
  MaxMishaps,     \* and what goes wrong between driver and device
  NoValue         \* the value of an undefined parameter

InvalidText == [host |-> NoValue, normal |-> FALSE]

\* Settings that are a register of their own.
RegisterOf ==
  [LOAO |-> "SIM_EVT_SEL", TPAMP |-> "MARS_CALPULSE", TPFRQ |-> "CALPULSE_RATE",
   TPCNT |-> "CALPULSE_CNT", TPENB |-> "CALPULSE_MODE", MODE |-> "COUNT_MODE",
   PLDEL |-> "MARS_PIPE_DELAY", RODEL |-> "MARS_RDOUT_ENB"]

\* Fault: the two delays are read back in each other's place.
ReadBackSwapped ==
  [VERSIONREG |-> "VER", MARS_CALPULSE |-> "TPAMP_RBV", CALPULSE_RATE |-> "TPFRQ_RBV",
   CALPULSE_CNT |-> "TPCNT_RBV", CALPULSE_MODE |-> "TPENB_RBV", TRIG |-> "ADAcquire",
   MARS_PIPE_DELAY |-> "RODEL_RBV", MARS_RDOUT_ENB |-> "PLDEL_RBV",
   DETECTOR_TYPE |-> "DETTYPE", UDP_IP_ADDR |-> "IPADDR_RBV", TEMP1 |-> "TEMP1",
   TEMP2 |-> "TEMP2", TEMP3 |-> "TEMP3", ZTEMP |-> "ZTEMP", HV |-> "HV",
   HV_RBV |-> "HV_RBV", HV_CURR |-> "HV_CURR"]

\* The parameter that a response for a register sets.
ReadBack ==
  [VERSIONREG |-> "VER", MARS_CALPULSE |-> "TPAMP_RBV", CALPULSE_RATE |-> "TPFRQ_RBV",
   CALPULSE_CNT |-> "TPCNT_RBV", CALPULSE_MODE |-> "TPENB_RBV", TRIG |-> "ADAcquire",
   MARS_PIPE_DELAY |-> "PLDEL_RBV", MARS_RDOUT_ENB |-> "RODEL_RBV",
   DETECTOR_TYPE |-> "DETTYPE", UDP_IP_ADDR |-> "IPADDR_RBV", TEMP1 |-> "TEMP1",
   TEMP2 |-> "TEMP2", TEMP3 |-> "TEMP3", ZTEMP |-> "ZTEMP", HV |-> "HV",
   HV_RBV |-> "HV_RBV", HV_CURR |-> "HV_CURR"]

Registers ==
  DOMAIN ReadBack \cup {RegisterOf[p] : p \in DOMAIN RegisterOf}
    \cup {"TD_CAL", "COUNT_TIME_LO", "COUNT_TIME_HI"}

\* The registers that readInt32 asks for.
Polled == {"VERSIONREG", "TEMP1", "TEMP2", "TEMP3", "ZTEMP", "HV", "HV_CURR"}

TimePresets == {"FREQ", "TP", "TP1"}
Sent == DOMAIN RegisterOf \cup TimePresets \cup {"DLY"}

\* Parameters that no branch of a write handler knows.  Every handler sets what it is
\* called with before it looks for a branch, so that clients could write the read-backs
\* too; they are taken to leave them alone, as no output record of the database writes
\* one.
Unhandled == {"ADAcquire", "HV"}

Parameters ==
  Sent \cup Unhandled \cup {"RATE", "CNT", "SS", "IPADDR"}
    \cup {ReadBack[r] : r \in DOMAIN ReadBack}

\* The types of what clients write, and that they write no read-back (see Unhandled).
ASSUME ChannelAssumption ==
  /\ NoValue \notin Int \cup [host : Int, normal : BOOLEAN]
  /\ {"RATE", "CNT"} \subseteq DOMAIN NumberWrites
  /\ DOMAIN NumberWrites \subseteq Sent \cup Unhandled \cup {"RATE", "CNT"}
  /\ \A p \in DOMAIN NumberWrites : NumberWrites[p] \subseteq Int
  /\ Texts \subseteq [host : Int, normal : BOOLEAN]
  /\ DOMAIN Sensors \subseteq Registers
  /\ \A r \in DOMAIN Sensors : Sensors[r] \subseteq Int
  /\ \A op \in Leftovers : op.read \in BOOLEAN
  /\ MaxWrites \in Nat /\ MaxMishaps \in Nat

VARIABLES
  param,       \* the parameter library
  job,         \* the handler that runs on the port thread
  running,     \* acquisitionRunning
  route,       \* where deviceAddr, never initialised, leads
  requests,    \* datagrams on their way to the device
  responses,   \* and back
  registers,   \* of the device
  held,        \* history: the values each register has held
  settled,     \* history: parameters whose last write went out, undisturbed since
  writes, mishaps

vars == <<param, job, running, route, requests, responses, registers, held,
          settled, writes, mishaps>>
device == <<registers, held>>
network == <<route, requests, responses>>

-----------------------------------------------------------------------------
(* Words and texts.                                                        *)

\* htonl and ntohl: the four bytes the other way round.
Htonl(word) ==
  LET Byte(unit) == (word \div unit) % 256
      high == IF Byte(1) >= 128 THEN Byte(1) - 256 ELSE Byte(1)
  IN  high * 16777216 + Byte(256) * 65536 + Byte(65536) * 256 + Byte(16777216)

\* u32HostToIpStr: the dotted text of a host, in its normal form.
IpStr(host) == [host |-> host, normal |-> TRUE]

\* What a response for a register makes of its word; only UDP_IP_ADDR is swapped.
ReadBackValue(register, word) ==
  IF register = "UDP_IP_ADDR" THEN IpStr(Htonl(word)) ELSE word

-----------------------------------------------------------------------------
(* What a handler sends.                                                   *)

\* Fault: the address is not put in network order first.
NetworkOrderKept(host) == host

NetworkOrder(host) == Htonl(host)

Write(register, word) == [read |-> FALSE, reg |-> register, data |-> word]
Read(register) == [read |-> TRUE, reg |-> register, data |-> 0]

HalfWord == 65536

\* A time is two writes of 16 bits each.
TimeWrites(ticks) == <<Write("COUNT_TIME_LO", ticks % HalfWord),
                       Write("COUNT_TIME_HI", (ticks \div HalfWord) % HalfWord)>>

WritesOf(p, value) ==
  CASE p \in DOMAIN RegisterOf -> <<Write(RegisterOf[p], value)>>
    [] p = "DLY"               -> <<Write("TD_CAL", 1000 * value)>>
    [] p = "FREQ"              -> TimeWrites(value \div 1000)
    [] p \in {"TP", "TP1"}     -> TimeWrites(1000000 * value)

\* A handler: the parameter it is for, what it has still to send, the value it leaves
\* in the parameter at last, its status, whether it ignores the status of its sends,
\* and whether everything went out as it should.
Handler(p, sends, value, ignores) ==
  [of |-> p, sends |-> sends, then |-> value, ok |-> TRUE, ignores |-> ignores,
   intact |-> TRUE]

Idle == Handler("none", <<>>, NoValue, FALSE)
Refuse(p) == [Handler(p, <<>>, NoValue, FALSE) EXCEPT !.ok = FALSE]

-----------------------------------------------------------------------------
\* setGermaniumInitialValues; the address may be any.
Defaults ==
  [PLDEL |-> 72, RODEL |-> 15, LOAO |-> 1, FREQ |-> 100000000, RATE |-> 2, TP1 |-> 1,
   MODE |-> 0, TPENB |-> 0, CNT |-> 0, IPADDR |-> IpStr(0)]

Init ==
  /\ param = [p \in Parameters |-> IF p \in DOMAIN Defaults THEN Defaults[p] ELSE NoValue]
  /\ job = Idle
  /\ running = FALSE
  /\ route \in {"device", "elsewhere", "refused"}
  /\ requests = <<>>
  /\ responses = <<>>
  /\ registers = [r \in Registers |-> 0]
  /\ held = [r \in Registers |-> {0}]
  /\ settled = {}
  /\ writes = 0
  /\ mishaps = 0

-----------------------------------------------------------------------------
(* Client calls.  Every write sets the parameter before it does anything   *)
(* else, and leaves it so if it fails.                                     *)

Call(handler) ==
  /\ job = Idle
  /\ writes < MaxWrites
  /\ writes' = writes + 1
  /\ job' = handler
  /\ UNCHANGED <<network, device, settled, mishaps>>

SetAndCall(p, value, handler) ==
  /\ Call(handler)
  /\ param' = [param EXCEPT ![p] = value]

\* writeInt32 and writeFloat64 of a parameter that goes to the device
WriteSetting(p, value) ==
  /\ SetAndCall(p, value, Handler(p, WritesOf(p, value), NoValue, FALSE))
  /\ UNCHANGED running

\* Fault: a rate is kept as it comes.
Unclipped(rate) == rate

Clipped(rate) == Min({60, Max({0, rate})})

\* Clipped in a second step.
WriteRate(value) ==
  /\ SetAndCall("RATE", value, Handler("RATE", <<>>, Clipped(value), FALSE))
  /\ UNCHANGED running

\* Parameters without a branch are set all the same.
WriteUnhandled(p, value) ==
  /\ SetAndCall(p, value, Refuse(p))
  /\ UNCHANGED running

WriteIpaddr(text) ==
  /\ SetAndCall("IPADDR", text,
       IF text = InvalidText THEN Refuse("IPADDR")
       ELSE Handler("IPADDR", <<Write("UDP_IP_ADDR", NetworkOrder(text.host))>>,
                    IpStr(text.host), FALSE))
  /\ UNCHANGED running

\* Fault: the device is not told.
StopUntold == Handler("CNT", <<>>, NoValue, TRUE)

\* The handlers of startDataAcquisition and stopDataAcquisition, which ignore the
\* status of the send.
StartTold == Handler("CNT", <<Write("TRIG", 1)>>, NoValue, TRUE)
StopTold == Handler("CNT", <<Write("TRIG", 0)>>, NoValue, TRUE)

\* The flag is set before the device is told, and cleared after.
WriteCnt(value) ==
  LET again == (value = 1) = running
  IN  /\ SetAndCall("CNT", value,
           IF again THEN Handler("other", <<>>, NoValue, TRUE)
           ELSE IF value = 1 THEN StartTold ELSE StopTold)
      /\ running' = (running \/ value = 1)

\* readInt32 asks, and the answer comes in later.  (At this commit nothing calls it: it
\* takes one argument, and does not override the asyn handler of that name.)
PollRegister(register) ==
  /\ Call(Handler("other", <<Read(register)>>, NoValue, FALSE))
  /\ UNCHANGED <<param, running>>

-----------------------------------------------------------------------------
(* sendUDPCommand, for the first datagram the handler has to send.         *)

Operation(message) == [read |-> message.read, reg |-> message.reg]

\* A datagram: the operation is what msg.op held; a read carries no data.
Datagram(op, message) ==
  [op |-> op, data |-> IF message.read THEN NoValue ELSE Htonl(message.data)]

Spoiled(handler) == IF handler = Idle THEN Idle ELSE [handler EXCEPT !.intact = FALSE]

\* Something goes wrong between driver and device, and what was written may be undone.
Mishap ==
  /\ mishaps < MaxMishaps
  /\ mishaps' = mishaps + 1
  /\ settled' = {}

\* sendto takes the datagram.
SendSucceeds(op) ==
  /\ requests' = IF route = "device" THEN Append(requests, Datagram(op, Head(job.sends)))
                 ELSE requests
  /\ route # "refused"

Send ==
  /\ job.sends # <<>>
  /\ LET rest == [job EXCEPT !.sends = Tail(@)]
         right == Operation(Head(job.sends))
     IN  \/ /\ SendSucceeds(right)
            /\ job' = rest
            /\ UNCHANGED <<settled, mishaps>>
         \/ \E op \in Leftovers \ {right} :
              /\ SendSucceeds(op)
              /\ job' = Spoiled(rest)
              /\ Mishap
  /\ UNCHANGED <<param, running, route, responses, device, writes>>

\* Fault: the second half of a time is sent although the first failed.
FailOnward ==
  /\ job.sends # <<>>
  /\ job' = [job EXCEPT !.sends = Tail(@), !.ok = job.ignores \/ Len(job.sends) > 1]
  /\ UNCHANGED <<param, running, network, device, settled, writes, mishaps>>

\* sendto fails, or the sockets were never opened; nothing more is sent.  What was sent
\* before stays sent: of a time, the lower half.
SendFails ==
  /\ job.sends # <<>>
  /\ job' = [job EXCEPT !.sends = <<>>, !.ok = job.ignores, !.intact = FALSE]
  /\ UNCHANGED <<param, running, network, device, settled, writes, mishaps>>

\* The parameters that a write of p puts in question.
Rivals(p) ==
  CASE p \in TimePresets -> TimePresets
    [] p = "ADAcquire"   -> {"CNT"}
    [] OTHER             -> {p}

\* The end of the handler.
Finish ==
  /\ job # Idle
  /\ job.sends = <<>>
  /\ param' = IF job.ok /\ job.then # NoValue THEN [param EXCEPT ![job.of] = job.then]
              ELSE param
  /\ running' = IF job.of = "CNT" THEN param["CNT"] = 1 ELSE running
  /\ settled' = (settled \ Rivals(job.of))
                  \cup (IF job.ok /\ job.intact /\ route = "device" THEN {job.of} \cap Parameters ELSE {})
  /\ job' = Idle
  /\ UNCHANGED <<network, device, writes, mishaps>>

-----------------------------------------------------------------------------
(* The network and the device.                                             *)

\* A datagram is lost, arrives twice, or is overtaken by the next.
Disturbed(queue) ==
  {RemoveAt(queue, i) : i \in 1 .. Len(queue)}
    \cup {InsertAt(queue, i, queue[i]) : i \in 1 .. Len(queue)}
    \cup {[queue EXCEPT ![i] = queue[i + 1], ![i + 1] = queue[i]] : i \in 1 .. Len(queue) - 1}

Disturb ==
  /\ Mishap
  /\ \/ requests' \in Disturbed(requests) /\ UNCHANGED responses
     \/ responses' \in Disturbed(responses) /\ UNCHANGED requests
  /\ job' = Spoiled(job)
  /\ UNCHANGED <<param, running, route, device, writes>>

\* What a register may hold after a request: what is written to it, or what the device
\* measures when it is asked.
Outcomes(op, data) ==
  IF ~op.read THEN {Htonl(data)}
  ELSE IF op.reg \in DOMAIN Sensors THEN Sensors[op.reg]
  ELSE {registers[op.reg]}

\* The device answers with what the register holds, in a message of the full size; it
\* ignores what it does not know and writes that have no data.
DeviceReceive ==
  /\ requests # <<>>
  /\ requests' = Tail(requests)
  /\ LET op == Head(requests).op
         data == Head(requests).data
     IN  IF op.reg \notin Registers \/ (~op.read /\ data = NoValue)
           THEN UNCHANGED <<device, responses>>
           ELSE \E word \in Outcomes(op, data) :
                  /\ registers' = [registers EXCEPT ![op.reg] = word]
                  /\ held' = [held EXCEPT ![op.reg] = @ \cup {word}]
                  /\ responses' = Append(responses,
                       [reg |-> op.reg, val |-> word, whole |-> TRUE])
  /\ UNCHANGED <<param, job, running, route, settled, writes, mishaps>>

\* An answer comes in a message that is too short, or not marked as a response.
Shorten ==
  /\ Mishap
  /\ \E i \in DOMAIN responses : responses' = [responses EXCEPT ![i].whole = FALSE]
  /\ job' = Spoiled(job)
  /\ UNCHANGED <<param, running, route, requests, device, writes>>

-----------------------------------------------------------------------------
(* The control thread and the data processing thread.                      *)

\* processResponse sets one parameter at most.
ProcessResponse ==
  /\ responses # <<>>
  /\ responses' = Tail(responses)
  /\ LET r == Head(responses)
     IN  param' = IF r.whole /\ r.reg \in DOMAIN ReadBack
                    THEN [param EXCEPT ![ReadBack[r.reg]] = ReadBackValue(r.reg, r.val)]
                    ELSE param
  /\ UNCHANGED <<job, running, route, requests, device, settled, writes, mishaps>>

\* The data processing thread sets SS; the frame statistics never change.
DataProcessing ==
  /\ param' = [param EXCEPT !["SS"] = IF running THEN 1 ELSE 0]
  /\ UNCHANGED <<job, running, network, device, settled, writes, mishaps>>

-----------------------------------------------------------------------------
Clients ==
  \/ \E p \in DOMAIN NumberWrites \cap Sent :
       \E value \in NumberWrites[p] : WriteSetting(p, value)
  \/ \E value \in NumberWrites["RATE"] : WriteRate(value)
  \/ \E p \in DOMAIN NumberWrites \cap Unhandled :
       \E value \in NumberWrites[p] : WriteUnhandled(p, value)
  \/ \E text \in Texts \cup {InvalidText} : WriteIpaddr(text)
  \/ \E value \in NumberWrites["CNT"] : WriteCnt(value)
  \/ \E register \in Polled \cap DOMAIN Sensors : PollRegister(register)

Port == Send \/ SendFails \/ Finish

Surroundings ==
  \/ Disturb
  \/ DeviceReceive
  \/ Shorten

Next == Clients \/ Port \/ Surroundings \/ ProcessResponse \/ DataProcessing

Spec == Init /\ [][Next]_vars

-----------------------------------------------------------------------------
(* Properties.                                                             *)

Values == Int \cup {NoValue}
Addresses == [host : Values, normal : BOOLEAN] \cup {NoValue}

\* Every variable has its type, whatever arrives; RATE is between 0 and 60 when no
\* handler runs.
TypeOK ==
  /\ \A p \in Parameters :
       param[p] \in IF p \in {"IPADDR", "IPADDR_RBV"} THEN Addresses ELSE Values
  /\ job = Idle => param["RATE"] \in 0 .. 60
  /\ job.of \in Parameters \cup {"none", "other"}
  /\ running \in BOOLEAN
  /\ \A i \in DOMAIN job.sends : job.sends[i].reg \in Registers
  /\ \A i \in DOMAIN responses : responses[i].reg \in Registers
  /\ \A r \in Registers : registers[r] \in held[r] /\ held[r] \subseteq Int
  /\ settled \subseteq Parameters

\* The read-backs of settings, by their names.
ReadBackOf ==
  [TPAMP |-> "TPAMP_RBV", TPFRQ |-> "TPFRQ_RBV", TPCNT |-> "TPCNT_RBV",
   TPENB |-> "TPENB_RBV", PLDEL |-> "PLDEL_RBV", RODEL |-> "RODEL_RBV",
   IPADDR |-> "IPADDR_RBV"]

\* A read-back shows its own register: it is undefined or a value that this register has
\* held, whatever is lost, repeated, overtaken, cut short or sent to a wrong register; no
\* invalid text ever gets there.  That clients write no read-back is assumed.
ReadBackHeld ==
  /\ \A p \in DOMAIN ReadBackOf \ {"IPADDR"} :
       param[ReadBackOf[p]] \in {NoValue} \cup held[RegisterOf[p]]
  /\ \A r \in {"TEMP1", "TEMP2", "TEMP3", "ZTEMP", "HV_RBV", "HV_CURR"} :
       param[r] \in {NoValue} \cup held[r]
  /\ param["IPADDR_RBV"] \in
       {NoValue} \cup {IpStr(Htonl(word)) : word \in held["UDP_IP_ADDR"]}

Quiet == job = Idle /\ requests = <<>> /\ responses = <<>>

\* When all is quiet, the register and its read-back hold the setting, for every setting
\* whose last write went out and was not disturbed since: earlier losses, stale answers
\* and failed writes are made good by writing again.
Agreement ==
  Quiet =>
    /\ \A p \in DOMAIN RegisterOf \cap settled : registers[RegisterOf[p]] = param[p]
    /\ \A p \in DOMAIN ReadBackOf \cap settled : param[ReadBackOf[p]] = param[p]
    /\ "IPADDR" \in settled => registers["UDP_IP_ADDR"] = Htonl(param["IPADDR"].host)

\* The ticks of the counting time that a time preset asks for.
Ticks(p, value) == IF p = "FREQ" THEN value \div 1000 ELSE 1000000 * value

\* The two halves of a time belong together: unless the last write of a time failed (or
\* was disturbed), the two registers make up its ticks, but for a multiple of 2^32 (a
\* number that TLC does not have: first the lower half is compared, then what is left).
TimeWhole ==
  Quiet => \A p \in TimePresets \cap settled :
    LET low == registers["COUNT_TIME_LO"]
        high == registers["COUNT_TIME_HI"]
        ticks == Ticks(p, param[p])
    IN  /\ low \in 0 .. (HalfWord - 1) /\ high \in 0 .. (HalfWord - 1)
        /\ (ticks - low) % HalfWord = 0
        /\ ((ticks - low) \div HalfWord - high) % HalfWord = 0

\* The device counts exactly while acquisition runs, and ADAcquire tells so, unless the
\* last start or stop was disturbed or not sent; then a second start changes nothing, but
\* a stop does.
TriggerFollows ==
  Quiet /\ "CNT" \in settled =>
    registers["TRIG"] = (IF running THEN 1 ELSE 0) /\ param["ADAcquire"] = registers["TRIG"]

\* "using proper message format": a datagram sent with success goes to the device and
\* carries the operation it was called with.
ProperMessage ==
  [][job.sends # <<>> /\ job'.sends = Tail(job.sends) /\ job'.ok =>
       requests' = Append(requests, Datagram(Operation(Head(job.sends)), Head(job.sends)))]_vars
=============================================================================
