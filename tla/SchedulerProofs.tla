---------------------------- MODULE SchedulerProofs ----------------------------
(* Proofs about Scheduler, and the packets it sends, for all scenarios,     *)
(* ports, descriptors and bounds.                                           *)
EXTENDS Scheduler, ScenarioEngineProofs, SenderProofs

-------------------------------------------------------------------------------
(* The wire format (PacketBuilder), for every state the engine can be in:   *)
(* the fields of StreamState have the widths ScenarioEngine.h gives them.   *)

StreamFields ==
  [ssrc : UInt32, seq : UInt16, timestamp : UInt32, codec : UInt8, clockrate : UInt16]

LEMMA UInt_Bounds ==
  ASSUME NEW v
  PROVE  /\ v \in UInt8 => v \in Nat /\ v <= 255
         /\ v \in UInt16 => v \in Nat /\ v <= 65535
         /\ v \in UInt32 => v \in Nat /\ v <= 4294967295
<1>1. ASSUME v \in UInt8 PROVE v \in Nat /\ v <= 255
  BY <1>1, SMT DEF UInt8
<1>2. ASSUME v \in UInt16 PROVE v \in Nat /\ v <= 65535
  BY <1>2, SMT DEF UInt16
<1>3. ASSUME v \in UInt32 PROVE v \in Nat /\ v <= 4294967295
  BY <1>3, SMT DEF UInt32
<1> QED
  BY <1>1, <1>2, <1>3, SMT

\* Where the octets of a number meet again.
LEMMA BigEndian16_Value ==
  ASSUME NEW v \in Nat, v <= 65535
  PROVE  Octet(v, 256) * 256 + Octet(v, 1) = v
BY SMT DEF Octet

LEMMA BigEndian32_Value ==
  ASSUME NEW v \in Nat, v <= 4294967295
  PROVE  Octet(v, 16777216) * 16777216 + Octet(v, 65536) * 65536
           + Octet(v, 256) * 256 + Octet(v, 1) = v
BY SMT DEF Octet

LEMMA Flag_Value ==
  ASSUME NEW c \in Nat, c <= 255
  PROVE  c \div 128 = IF c >= 128 THEN 1 ELSE 0
BY SMT

\* Whatever state the engine is in, a receiver reads off the packet the sequence
\* number, the timestamp and the SSRC of the tick, version 2 without options, and a
\* marker that is set exactly for codecs from 128 on, of which it sees 128 less.
THEOREM ReceiverReadsTheTick ==
  ASSUME NEW s \in StreamFields, NEW ptime \in UInt8
  PROVE  LET r == Received(GenerateRtpPacket(s, ptime))
         IN /\ r.version = 2 /\ r.flags = 0
            /\ r.seq = s.seq /\ r.timestamp = s.timestamp /\ r.ssrc = s.ssrc
            /\ r.marker = IF s.codec >= 128 THEN 1 ELSE 0
            /\ r.payload_type = s.codec % 128
<1> DEFINE h == Header(s)
<1>1. /\ s.seq \in Nat /\ s.seq <= 65535
      /\ s.timestamp \in Nat /\ s.timestamp <= 4294967295
      /\ s.ssrc \in Nat /\ s.ssrc <= 4294967295
      /\ s.codec \in Nat /\ s.codec <= 255
  <2>1. s.seq \in UInt16 /\ s.timestamp \in UInt32 /\ s.ssrc \in UInt32 /\ s.codec \in UInt8
    BY SMT DEF StreamFields
  <2> QED
    BY <2>1, UInt_Bounds, SMT
<1>2. /\ h[1] = 128 /\ h[2] = s.codec
      /\ h[3] = Octet(s.seq, 256) /\ h[4] = Octet(s.seq, 1)
      /\ h[5] = Octet(s.timestamp, 16777216) /\ h[6] = Octet(s.timestamp, 65536)
      /\ h[7] = Octet(s.timestamp, 256) /\ h[8] = Octet(s.timestamp, 1)
      /\ h[9] = Octet(s.ssrc, 16777216) /\ h[10] = Octet(s.ssrc, 65536)
      /\ h[11] = Octet(s.ssrc, 256) /\ h[12] = Octet(s.ssrc, 1)
  BY SMT DEF Header
<1>3. Number16(h, 3) = s.seq
  BY <1>1, <1>2, BigEndian16_Value, SMT DEF Number16
<1>4. Number32(h, 5) = s.timestamp
  BY <1>1, <1>2, BigEndian32_Value, SMT DEF Number32
<1>5. Number32(h, 9) = s.ssrc
  BY <1>1, <1>2, BigEndian32_Value, SMT DEF Number32
<1>6. h[2] \div 128 = (IF s.codec >= 128 THEN 1 ELSE 0) /\ h[2] % 128 = s.codec % 128
  BY <1>1, <1>2, Flag_Value, SMT
<1>7. h[1] \div 64 = 2 /\ h[1] % 64 = 0
  BY <1>2, SMT
<1> QED
  BY <1>3, <1>4, <1>5, <1>6, <1>7, SMT DEF Received, GenerateRtpPacket

\* Every packet fits a UDP datagram over IPv4: sendto() never fails for its size.
THEOREM PacketFitsDatagram ==
  ASSUME NEW s \in StreamFields, NEW ptime \in UInt8
  PROVE  12 + GenerateRtpPacket(s, ptime).payload_size <= 65507
<1>1. s.clockrate \in Nat /\ s.clockrate <= 65535 /\ ptime \in Nat /\ ptime <= 255
  <2>1. s.clockrate \in UInt16
    BY SMT DEF StreamFields
  <2> QED
    BY <2>1, UInt_Bounds, SMT
<1>2. s.clockrate * ptime \in Nat /\ s.clockrate * ptime <= 65535 * 255
  BY <1>1, SMT
<1>3. ASSUME NEW n \in Nat, n <= 65535 * 255 PROVE n \div 1000 <= 16712
  BY <1>3, SMT
<1>4. GenerateRtpPacket(s, ptime).payload_size = (s.clockrate * ptime) \div 1000
  BY DEF GenerateRtpPacket, PayloadSize
<1> QED
  BY <1>2, <1>3, <1>4, SMT

-------------------------------------------------------------------------------
(* The invariant. What is sent late is sent from the iteration a stop found *)
(* the loop in, and only a pause has a length.                              *)

LateOnlyAfterStop ==
  /\ m_active => late = 0
  /\ late = 0 \/ (late = 1 /\ pc \in {"sleeping", "check", "returned"})

\* The packet of the current tick, not yet sent.
InFlight == IF pc = "sending" THEN 1 ELSE 0

\* The interval the engine counted in the tick and the loop has not slept yet.
IntervalAhead == IF pc \in {"sending", "sleeping"} THEN Ptime ELSE 0

\* The counters as the code keeps them: a pause counts as a packet and as an
\* interval. Both part from what ScenarioEngine.h documents (lines 19 and 81) and
\* are here for what follows from them only.
PacketAccounting == packet_count = sent + pauses + InFlight

ElapsedAccounting ==
  elapsed_ms + PauseSlept = slept + Ptime * pauses + IntervalAhead

NoPauseWhileSending == pc \in {"sending", "sleeping"} => ms_to_pause = 0

Accounts == PacketAccounting /\ ElapsedAccounting /\ NoPauseWhileSending

\* Every port the engine may ask the sender for.
PortsAsked ==
  /\ transport.src_port \in Ports \union {0}
  /\ \A i \in DOMAIN script.transport :
       script.transport[i].new_source_port \in Ports \union {0, NONE}

\* Where no event touches the header, every tick moves it on by one step.
RunsOn ==
  HeaderUntouched =>
    rtp = [ssrc |-> opts.start_ssrc,
           seq |-> (opts.start_seq + packet_count) % SeqSpace,
           timestamp |-> (opts.start_timestamp
                            + packet_count * opts.timestamp_step_size) % TsSpace,
           codec |-> opts.start_codec,
           clockrate |-> opts.start_clockrate]

StreamInv == FieldsInv /\ PortsAsked /\ RunsOn

\* The packet that has just left is that of the tick.
PacketInv ==
  /\ PacketTypeOK
  /\ pc = "sleeping" => packet = GenerateRtpPacket(rtp, opts.ptime_in_packet)

SchedulerInv ==
  /\ EngineInv /\ StreamInv
  /\ LoopTypeOK /\ LateOnlyAfterStop /\ Accounts
  /\ SenderInv /\ PacketInv

-------------------------------------------------------------------------------
(* The parts.                                                               *)

LEMMA PtimeType ==
  ASSUME EngineInv
  PROVE  Ptime \in Nat
<1>1. opts \in Scenarios
  BY DEF EngineInv, CountersTypeOK
<1>2. opts.ptime_btw_packet \in UInt8
  BY <1>1, ScenariosAssumption DEF IsScenario, OptionsComplete
<1> QED
  BY <1>2 DEF Ptime, UInt8

LEMMA OneMoreInterval ==
  ASSUME NEW p \in Nat, NEW n \in Nat
  PROVE  p * (n + 1) = p * n + p /\ p * n \in Nat
OBVIOUS

\* What a tick does to the counters, and that a tick which leaves the stream
\* running leaves no pause to be slept.
LEMMA TickCounters ==
  ASSUME EngineInv, NEW delta \in Nat, Tick(delta)
  PROVE  /\ packet_count' = packet_count + 1
         /\ elapsed_ms' = elapsed_ms + ms_to_pause + delta
         /\ opts' = opts
         /\ ~is_paused' => ms_to_pause' = 0
         /\ ms_to_pause' \in Nat
<1>1. ms_to_pause' \in Nat
  BY TickTypes DEF CountersTypeOK
<1>2. ~is_paused' => ms_to_pause' = 0
  BY DEF Tick, PauseLength, Kinds
<1> QED
  BY <1>1, <1>2 DEF Tick, ElapsedAfter

LEMMA Sender_Stutter ==
  ASSUME SenderInv, UNCHANGED senderVars
  PROVE  SenderInv'
BY DEF SenderInv, SenderTypeOK, OneSocket, PortAgrees, AllPorts, senderVars

-------------------------------------------------------------------------------
(* The stream: the ports asked for, and the header nobody touches.          *)

LEMMA EngineInit_Stream == EngineInit => StreamInv
<1> SUFFICES ASSUME EngineInit PROVE StreamInv
  OBVIOUS
<1>1. opts \in Scenarios /\ OptionsComplete(opts)
  BY ScenariosAssumption DEF EngineInit, IsScenario
<1>2. PortsAsked
  <2> DEFINE q == opts.changes.transport
  <2>1. opts.source_port \in Ports /\ \A n \in DOMAIN q : q[n].new_source_port \in Ports \union {0, NONE}
    BY <1>1, PortsAssumption
  <2>2. script.transport \in SortByTrigger(q)
    BY DEF EngineInit
  <2> HIDE DEF q
  <2>3. PICK p \in Bijection(DOMAIN q, DOMAIN q) :
          script.transport = [i \in DOMAIN q |-> q[p[i]]]
    BY <2>2 DEF SortByTrigger
  <2>4. p \in [DOMAIN q -> DOMAIN q]
    BY <2>3 DEF Bijection, Injection
  <2>5. \A i \in DOMAIN script.transport :
          script.transport[i].new_source_port \in Ports \union {0, NONE}
    BY <2>1, <2>3, <2>4
  <2> QED
    BY <2>1, <2>5 DEF PortsAsked, EngineInit, InitialTransport
<1>3. RunsOn
  <2>1. /\ opts.start_seq \in Seqs /\ opts.start_timestamp \in Timestamps
        /\ opts.timestamp_step_size \in Nat
    BY <1>1, StepType DEF OptionsComplete
  <2>2. /\ (opts.start_seq + 0) % SeqSpace = opts.start_seq
        /\ (opts.start_timestamp + 0 * opts.timestamp_step_size) % TsSpace
             = opts.start_timestamp
    BY <2>1, WidthsAssumption DEF Seqs, Timestamps
  <2> QED
    BY <2>2 DEF EngineInit, InitialRtp, RunsOn
<1> QED
  BY <1>2, <1>3, EngineInit_Fields DEF StreamInv

LEMMA EngineStutter_Stream ==
  ASSUME StreamInv, UNCHANGED engineVars
  PROVE  StreamInv'
<1>1. FieldsInv'
  BY EngineStutter_Fields DEF StreamInv
<1> QED
  BY <1>1 DEF StreamInv, PortsAsked, RunsOn, HeaderUntouched, engineVars

LEMMA Tick_Ports ==
  ASSUME EngineInv, StreamInv, NEW delta \in Nat, Tick(delta)
  PROVE  PortsAsked'
<1> DEFINE q == Due(pending["transport"], Now')
           d == DueCount(pending["transport"], Now')
           S == {t \in TransportType : t.src_port \in Ports \union {0}}
<1>1. "transport" \in Kinds
  BY DEF Kinds
<1>2. /\ d \in Nat /\ DOMAIN q = 1 .. d /\ q \in Seq(EventType["transport"])
      /\ \A i \in 1 .. d : \E j \in DOMAIN script["transport"] :
           q[i] = script["transport"][j]
  BY <1>1, DueIsScript
<1>3. transport' = ApplyAll("transport", transport, q) /\ script' = script
  BY <1>1 DEF Tick, ApplyTransportChanges
<1> HIDE DEF q, d
<1>4. \A i \in 1 .. d : q[i] \in EventType["transport"]
  <2>1. (\A i \in 1 .. Len(q) : q[i] \in EventType["transport"]) /\ DOMAIN q = 1 .. Len(q)
    BY <1>2, ElementOfSeq, LenProperties
  <2> QED
    BY <1>2, <2>1
<1>5. \A i \in 1 .. d : q[i].new_source_port \in Ports \union {0, NONE}
  BY <1>2 DEF StreamInv, PortsAsked
<1>6. ASSUME NEW t \in S, NEW i \in 1 .. d
      PROVE  Apply("transport", t, q[i]) \in S
  <2>1. ApplyTransport(t, q[i]) \in TransportType
    BY <1>4, <1>6, ApplyTransportType
  <2>2. ApplyTransport(t, q[i]).src_port \in Ports \union {0}
    BY <1>5, <1>6 DEF ApplyTransport, TransportType, ValueOr
  <2> QED
    BY <2>1, <2>2 DEF Apply
<1>7. transport \in S
  BY DEF StreamInv, FieldsInv, FieldsTypeOK, PortsAsked
<1> HIDE DEF S
<1>8. ApplyAll("transport", transport, q) \in S
  BY <1>2, <1>6, <1>7, ApplyAllKeeps, Z3
<1> QED
  BY <1>3, <1>8 DEF S, StreamInv, PortsAsked

LEMMA Tick_RunsOn ==
  ASSUME EngineInv, StreamInv, NEW delta \in Nat, Tick(delta)
  PROVE  RunsOn'
<1> DEFINE due == [k \in Kinds |-> Due(pending[k], Now')]
           headers == {"ssrc", "timestamp", "codec", "sequence"}
<1>1. /\ rtp' = ApplyRtpChanges(Advance(rtp), due)
      /\ opts' = opts /\ script' = script /\ packet_count' = packet_count + 1
  BY DEF Tick
<1> SUFFICES ASSUME HeaderUntouched
             PROVE  rtp' = [ssrc |-> opts.start_ssrc,
                            seq |-> (opts.start_seq + (packet_count + 1)) % SeqSpace,
                            timestamp |-> (opts.start_timestamp
                              + (packet_count + 1) * opts.timestamp_step_size) % TsSpace,
                            codec |-> opts.start_codec,
                            clockrate |-> opts.start_clockrate]
  BY <1>1 DEF RunsOn, HeaderUntouched
<1>2. headers = Kinds \ {"pause", "transport"}
  BY DEF Kinds
<1>3. ASSUME NEW k \in headers PROVE DOMAIN due[k] = {}
  <2>1. k \in Kinds /\ DOMAIN script[k] = {}
    BY <1>2 DEF HeaderUntouched
  <2>2. \A i \in DOMAIN Due(pending[k], Now') : \E j : j \in DOMAIN script[k]
    BY <2>1, DueIsScript
  <2> QED
    BY <2>1, <2>2
<1> HIDE DEF due
<1>4. \A k \in headers : \A t : ApplyAll(k, t, due[k]) = t
  <2> TAKE k \in headers
  <2> TAKE t
  <2> DEFINE q == due[k]
  <2>1. DOMAIN q = {}
    BY <1>3
  <2> HIDE DEF q
  <2>2. ApplyAll(k, t, q) = t
    BY <2>1, ApplyAllOfEmpty
  <2> QED
    BY <2>2 DEF q
<1>5. rtp' = Advance(rtp)
  BY <1>1, <1>4 DEF ApplyRtpChanges
<1>6. /\ opts.start_seq \in Int /\ opts.start_timestamp \in Int
      /\ packet_count \in Nat /\ opts.timestamp_step_size \in Nat
  <2>1. opts \in Scenarios /\ packet_count \in Nat
    BY DEF EngineInv, CountersTypeOK
  <2>2. opts.start_seq \in Seqs /\ opts.start_timestamp \in Timestamps
    BY <2>1, ScenariosAssumption DEF IsScenario, OptionsComplete
  <2> QED
    BY <2>1, <2>2, StepType, WidthsAssumption DEF Seqs, Timestamps
<1>7. (((opts.start_seq + packet_count) % SeqSpace) + 1) % SeqSpace
        = (opts.start_seq + (packet_count + 1)) % SeqSpace
  <2> DEFINE a == opts.start_seq + packet_count
             b == 1
  <2>1. a \in Int /\ b \in Int /\ SeqSpace \in Nat \ {0}
    BY <1>6, WidthsAssumption
  <2>2. a + b = opts.start_seq + (packet_count + 1)
    BY <1>6
  <2> HIDE DEF a, b
  <2>3. ((a % SeqSpace) + b) % SeqSpace = (a + b) % SeqSpace
    BY <2>1, WrapTwice
  <2> QED
    BY <2>2, <2>3 DEF a, b
<1>8. (((opts.start_timestamp + packet_count * opts.timestamp_step_size) % TsSpace)
        + opts.timestamp_step_size) % TsSpace
        = (opts.start_timestamp + (packet_count + 1) * opts.timestamp_step_size) % TsSpace
  <2> DEFINE a == opts.start_timestamp + packet_count * opts.timestamp_step_size
             b == opts.timestamp_step_size
  <2>1. a \in Int /\ b \in Int /\ TsSpace \in Nat \ {0}
    BY <1>6, WidthsAssumption
  <2>2. a + b = opts.start_timestamp + (packet_count + 1) * opts.timestamp_step_size
    <3> DEFINE n == packet_count
               p == opts.timestamp_step_size
               t == opts.start_timestamp
    <3>1. n \in Nat /\ p \in Nat /\ t \in Int
      BY <1>6
    <3> HIDE DEF n, p, t
    <3>2. (n + 1) * p = n * p + p /\ n * p \in Nat
      BY <3>1
    <3> QED
      BY <3>1, <3>2 DEF n, p, t
  <2> HIDE DEF a, b
  <2>3. ((a % TsSpace) + b) % TsSpace = (a + b) % TsSpace
    BY <2>1, WrapTwice
  <2> QED
    BY <2>2, <2>3 DEF a, b
<1>9. rtp = [ssrc |-> opts.start_ssrc,
             seq |-> (opts.start_seq + packet_count) % SeqSpace,
             timestamp |-> (opts.start_timestamp
                              + packet_count * opts.timestamp_step_size) % TsSpace,
             codec |-> opts.start_codec,
             clockrate |-> opts.start_clockrate]
  BY DEF StreamInv, RunsOn
<1> QED
  BY <1>5, <1>7, <1>8, <1>9 DEF Advance

LEMMA Tick_Stream ==
  ASSUME EngineInv, StreamInv, NEW delta \in Nat, Tick(delta)
  PROVE  StreamInv'
BY TickFields, Tick_Ports, Tick_RunsOn DEF StreamInv

-------------------------------------------------------------------------------
(* The packet.                                                              *)

LEMMA FieldsFitHeader ==
  ASSUME NEW s \in RtpType
  PROVE  s \in StreamFields
<1>1. \A v \in Seqs : v \in UInt16
  BY WidthsAssumption, SMT DEF Seqs, UInt16
<1>2. \A v \in Timestamps : v \in UInt32
  BY WidthsAssumption, SMT DEF Timestamps, UInt32
<1> QED
  BY <1>1, <1>2, SMT DEF RtpType, StreamFields

LEMMA TwelveOctets ==
  ASSUME NEW S, NEW a \in S, NEW b \in S, NEW c \in S, NEW d \in S, NEW e \in S,
         NEW f \in S, NEW g \in S, NEW h \in S, NEW i \in S, NEW j \in S, NEW k \in S,
         NEW l \in S
  PROVE  <<a, b, c, d, e, f, g, h, i, j, k, l>> \in Seq(S)
OBVIOUS

LEMMA PacketType ==
  ASSUME NEW s \in StreamFields, NEW ptime \in UInt8
  PROVE  /\ GenerateRtpPacket(s, ptime).header \in Seq(0 .. 255)
         /\ GenerateRtpPacket(s, ptime).payload_size \in Nat
<1>1. /\ s.seq \in Nat /\ s.timestamp \in Nat /\ s.ssrc \in Nat
      /\ s.codec \in 0 .. 255 /\ s.clockrate \in Nat /\ ptime \in Nat
  BY SMT DEF StreamFields, UInt8, UInt16, UInt32
<1>2. ASSUME NEW v \in Nat
      PROVE  /\ Octet(v, 16777216) \in 0 .. 255 /\ Octet(v, 65536) \in 0 .. 255
             /\ Octet(v, 256) \in 0 .. 255 /\ Octet(v, 1) \in 0 .. 255
  BY <1>2, SMT DEF Octet
<1>3. Header(s) \in Seq(0 .. 255)
  <2> DEFINE B == 0 .. 255
             v == 128
  <2>1. v \in B /\ s.codec \in B
    BY <1>1
  <2>2. \A n \in {s.seq, s.timestamp, s.ssrc} :
          /\ Octet(n, 16777216) \in B /\ Octet(n, 65536) \in B
          /\ Octet(n, 256) \in B /\ Octet(n, 1) \in B
    BY <1>1, <1>2, Z3
  <2>3. Header(s) =
          <<v, s.codec, Octet(s.seq, 256), Octet(s.seq, 1),
            Octet(s.timestamp, 16777216), Octet(s.timestamp, 65536),
            Octet(s.timestamp, 256), Octet(s.timestamp, 1),
            Octet(s.ssrc, 16777216), Octet(s.ssrc, 65536),
            Octet(s.ssrc, 256), Octet(s.ssrc, 1)>>
    BY DEF Header
  <2> HIDE DEF B, v
  <2>4. /\ Octet(s.seq, 256) \in B /\ Octet(s.seq, 1) \in B
        /\ Octet(s.timestamp, 16777216) \in B /\ Octet(s.timestamp, 65536) \in B
        /\ Octet(s.timestamp, 256) \in B /\ Octet(s.timestamp, 1) \in B
        /\ Octet(s.ssrc, 16777216) \in B /\ Octet(s.ssrc, 65536) \in B
        /\ Octet(s.ssrc, 256) \in B /\ Octet(s.ssrc, 1) \in B
    BY <2>2, Z3
  <2>5. Header(s) \in Seq(B)
    BY <2>1, <2>3, <2>4, TwelveOctets, Z3
  <2> QED
    BY <2>5 DEF B
<1>4. PayloadSize(s, ptime) \in Nat
  <2>1. s.clockrate * ptime \in Nat
    BY <1>1
  <2> QED
    BY <2>1 DEF PayloadSize
<1> QED
  BY <1>3, <1>4 DEF GenerateRtpPacket

-------------------------------------------------------------------------------
(* The initial states and the steps.                                        *)

LEMMA SchedulerInit_Inv == SchedulerInit => SchedulerInv
<1> SUFFICES ASSUME SchedulerInit PROVE SchedulerInv
  OBVIOUS
<1>1. EngineInv
  BY EngineInit_Inv DEF SchedulerInit
<1>2. LoopTypeOK /\ LateOnlyAfterStop
  BY DEF SchedulerInit, LoopTypeOK, LateOnlyAfterStop, Steps
<1>3. Accounts
  <2>1. Ptime \in Nat
    BY <1>1, PtimeType
  <2> QED
    BY <2>1 DEF SchedulerInit, EngineInit, Accounts, PacketAccounting, InFlight,
          ElapsedAccounting, PauseSlept, IntervalAhead, NoPauseWhileSending
<1>4. SenderInv
  BY PortsAssumption, SenderInit_Inv DEF SchedulerInit, EngineInit
<1>5. StreamInv
  BY EngineInit_Stream DEF SchedulerInit
<1>6. PacketInv
  BY DEF SchedulerInit, PacketInv, PacketTypeOK, NoPacket
<1> QED
  BY <1>1, <1>2, <1>3, <1>4, <1>5, <1>6 DEF SchedulerInv

\* The steps that leave the engine alone keep what is said of it.
LEMMA EngineUntouched ==
  ASSUME SchedulerInv, UNCHANGED engineVars
  PROVE  /\ EngineInv' /\ StreamInv'
         /\ Ptime' = Ptime /\ Ptime \in Nat
         /\ packet_count' = packet_count /\ packet_count \in Nat
         /\ elapsed_ms' = elapsed_ms /\ elapsed_ms \in Nat
         /\ ms_to_pause' = ms_to_pause /\ ms_to_pause \in Nat
         /\ Ptime * pauses \in Nat
<1>1. EngineInv
  BY DEF SchedulerInv
<1>2. EngineInv' /\ StreamInv'
  BY <1>1, EngineStutter_Inv, EngineStutter_Stream DEF SchedulerInv
<1>3. Ptime' = Ptime /\ Ptime \in Nat
  BY <1>1, PtimeType DEF engineVars, Ptime
<1>4. pauses \in Nat
  BY DEF SchedulerInv, LoopTypeOK
<1> QED
  BY <1>1, <1>2, <1>3, <1>4, OneMoreInterval DEF EngineInv, CountersTypeOK, engineVars

\* A step of the tick, with all its events, becomes one packet or one pause.
LEMMA TickEngine_Inv ==
  ASSUME SchedulerInv, TickEngine
  PROVE  SchedulerInv'
<1>1. EngineInv /\ Ptime \in Nat
  BY PtimeType DEF SchedulerInv
<1>2. Tick(Ptime)
  BY DEF TickEngine
<1>3. EngineInv' /\ StreamInv'
  BY <1>1, <1>2, Tick_Inv, Tick_Stream DEF SchedulerInv
<1>4. /\ packet_count' = packet_count + 1
      /\ elapsed_ms' = elapsed_ms + ms_to_pause + Ptime
      /\ opts' = opts
      /\ ~is_paused' => ms_to_pause' = 0
      /\ ms_to_pause' \in Nat
  BY <1>1, <1>2, TickCounters
<1>5. /\ pc = "check" /\ m_active /\ m_active' = m_active
      /\ pc' = IF is_paused' THEN "pausing" ELSE "sending"
      /\ pauses' = IF is_paused' THEN pauses + 1 ELSE pauses
      /\ slept' = slept /\ sent' = sent /\ late' = late
      /\ UNCHANGED senderVars
  BY DEF TickEngine, LoopCondition
<1>6. /\ packet_count \in Nat /\ elapsed_ms \in Nat /\ ms_to_pause \in Nat
      /\ slept \in Nat /\ sent \in Nat /\ pauses \in Nat /\ late \in Nat
      /\ m_active \in BOOLEAN
  BY DEF SchedulerInv, EngineInv, CountersTypeOK, LoopTypeOK
<1>7. LoopTypeOK' /\ LateOnlyAfterStop'
  BY <1>5, <1>6 DEF SchedulerInv, LoopTypeOK, LateOnlyAfterStop, Steps
<1>8. PacketAccounting'
  BY <1>4, <1>5, <1>6 DEF SchedulerInv, Accounts, PacketAccounting, InFlight
<1>9. ElapsedAccounting'
  <2>1. Ptime' = Ptime
    BY <1>4 DEF Ptime
  <2>2. elapsed_ms + ms_to_pause = slept + Ptime * pauses + 0
    BY <1>5 DEF SchedulerInv, Accounts, ElapsedAccounting, PauseSlept, IntervalAhead
  <2>3. Ptime * (pauses + 1) = Ptime * pauses + Ptime /\ Ptime * pauses \in Nat
    BY <1>1, <1>6, OneMoreInterval
  <2>4. PauseSlept' = 0 /\ IntervalAhead' = IF is_paused' THEN 0 ELSE Ptime
    BY <1>5, <2>1 DEF PauseSlept, IntervalAhead
  <2>5. CASE is_paused'
    <3>1. elapsed_ms' + 0 = slept + Ptime * (pauses + 1) + 0
      BY <1>1, <1>4, <1>6, <2>2, <2>3
    <3> QED
      BY <1>5, <2>1, <2>4, <2>5, <3>1 DEF ElapsedAccounting
  <2>6. CASE ~is_paused'
    <3>1. elapsed_ms' + 0 = slept + Ptime * pauses + Ptime
      BY <1>1, <1>4, <1>6, <2>2, <2>3
    <3> QED
      BY <1>5, <2>1, <2>4, <2>6, <3>1 DEF ElapsedAccounting
  <2> QED
    BY <2>5, <2>6
<1>10. NoPauseWhileSending'
  BY <1>4, <1>5 DEF NoPauseWhileSending
<1>11. SenderInv'
  BY <1>5, Sender_Stutter DEF SchedulerInv
<1>12. PacketInv'
  BY <1>5 DEF TickEngine, SchedulerInv, PacketInv, PacketTypeOK
<1> QED
  BY <1>3, <1>7, <1>8, <1>9, <1>10, <1>11, <1>12 DEF SchedulerInv, Accounts

\* The other steps of the loop, and those of the thread that starts and stops it.
LEMMA Loop_Inv ==
  ASSUME SchedulerInv,
         StartStream \/ LeaveLoop \/ SleepThroughPause \/ SleepBetweenPackets \/ EndStream
  PROVE  SchedulerInv'
<1>1. UNCHANGED engineVars /\ UNCHANGED senderVars
  BY DEF StartStream, LeaveLoop, SleepThroughPause, SleepBetweenPackets, EndStream
<1>2. /\ EngineInv' /\ StreamInv'
      /\ Ptime' = Ptime /\ Ptime \in Nat
      /\ packet_count' = packet_count /\ packet_count \in Nat
      /\ elapsed_ms' = elapsed_ms /\ elapsed_ms \in Nat
      /\ ms_to_pause' = ms_to_pause /\ ms_to_pause \in Nat
      /\ Ptime * pauses \in Nat
  BY <1>1, EngineUntouched
<1>3. SenderInv' /\ PacketInv'
  <2>1. SenderInv'
    BY <1>1, Sender_Stutter DEF SchedulerInv
  <2>2. PacketInv'
    BY DEF StartStream, LeaveLoop, SleepThroughPause, SleepBetweenPackets, EndStream,
           SchedulerInv, PacketInv, PacketTypeOK, engineVars
  <2> QED
    BY <2>1, <2>2
<1>4. /\ sent' = sent /\ pauses' = pauses
      /\ slept \in Nat /\ sent \in Nat /\ pauses \in Nat /\ late \in Nat
      /\ m_active \in BOOLEAN /\ pc \in Steps
  BY DEF StartStream, LeaveLoop, SleepThroughPause, SleepBetweenPackets, EndStream,
         SchedulerInv, LoopTypeOK
<1>5. LoopTypeOK' /\ LateOnlyAfterStop'
  <2>1. slept' \in Nat
    BY <1>2, <1>4
       DEF StartStream, LeaveLoop, SleepThroughPause, SleepBetweenPackets, EndStream
  <2>2. /\ m_active => late = 0
        /\ late = 0 \/ (late = 1 /\ pc \in {"sleeping", "check", "returned"})
    BY DEF SchedulerInv, LateOnlyAfterStop
  <2>3. CASE StartStream
    BY <1>4, <2>1, <2>3 DEF StartStream, LoopTypeOK, LateOnlyAfterStop, Steps
  <2>4. CASE LeaveLoop
    BY <1>4, <2>1, <2>2, <2>4 DEF LeaveLoop, LoopTypeOK, LateOnlyAfterStop, Steps
  <2>5. CASE SleepThroughPause
    BY <1>4, <2>1, <2>2, <2>5 DEF SleepThroughPause, LoopTypeOK, LateOnlyAfterStop, Steps
  <2>6. CASE SleepBetweenPackets
    BY <1>4, <2>1, <2>2, <2>6 DEF SleepBetweenPackets, LoopTypeOK, LateOnlyAfterStop, Steps
  <2>7. CASE EndStream
    BY <1>4, <2>1, <2>2, <2>7 DEF EndStream, LoopTypeOK, LateOnlyAfterStop
  <2> QED
    BY <2>3, <2>4, <2>5, <2>6, <2>7
<1>6. PacketAccounting'
  BY <1>2, <1>4
     DEF StartStream, LeaveLoop, SleepThroughPause, SleepBetweenPackets, EndStream,
         SchedulerInv, Accounts, PacketAccounting, InFlight
<1>7. NoPauseWhileSending'
  BY <1>2
     DEF StartStream, LeaveLoop, SleepThroughPause, SleepBetweenPackets, EndStream,
         SchedulerInv, Accounts, NoPauseWhileSending
<1>8. ElapsedAccounting'
  <2>1. /\ elapsed_ms + PauseSlept = slept + Ptime * pauses + IntervalAhead
        /\ pc \in {"sending", "sleeping"} => ms_to_pause = 0
    BY DEF SchedulerInv, Accounts, ElapsedAccounting, NoPauseWhileSending
  <2> SUFFICES elapsed_ms + PauseSlept' = slept' + Ptime * pauses + IntervalAhead'
    BY <1>2, <1>4 DEF ElapsedAccounting
  <2>2. CASE StartStream
    BY <1>2, <2>1, <2>2 DEF StartStream, PauseSlept, IntervalAhead
  <2>3. CASE LeaveLoop
    BY <1>2, <2>1, <2>3 DEF LeaveLoop, PauseSlept, IntervalAhead
  <2>4. CASE SleepThroughPause
    <3>1. elapsed_ms + 0 = slept + Ptime * pauses + 0
      BY <2>1, <2>4 DEF SleepThroughPause, PauseSlept, IntervalAhead
    <3>2. slept' = slept + ms_to_pause /\ PauseSlept' = ms_to_pause /\ IntervalAhead' = 0
      BY <1>2, <2>4 DEF SleepThroughPause, PauseSlept, IntervalAhead
    <3> QED
      BY <1>2, <1>4, <3>1, <3>2
  <2>5. CASE SleepBetweenPackets
    <3>1. elapsed_ms + 0 = slept + Ptime * pauses + Ptime
      BY <2>1, <2>5 DEF SleepBetweenPackets, PauseSlept, IntervalAhead
    <3>2. slept' = slept + Ptime /\ PauseSlept' = 0 /\ IntervalAhead' = 0
      BY <1>2, <2>1, <2>5 DEF SleepBetweenPackets, PauseSlept, IntervalAhead
    <3> QED
      BY <1>2, <1>4, <3>1, <3>2
  <2>6. CASE EndStream
    BY <1>2, <2>1, <2>6 DEF EndStream, PauseSlept, IntervalAhead
  <2> QED
    BY <2>2, <2>3, <2>4, <2>5, <2>6
<1> QED
  BY <1>2, <1>3, <1>5, <1>6, <1>7, <1>8 DEF SchedulerInv, Accounts

LEMMA SendPacket_Inv ==
  ASSUME SchedulerInv, SendPacket
  PROVE  SchedulerInv'
<1>1. /\ EngineInv' /\ StreamInv'
      /\ Ptime' = Ptime /\ Ptime \in Nat
      /\ packet_count' = packet_count /\ packet_count \in Nat
      /\ elapsed_ms' = elapsed_ms /\ elapsed_ms \in Nat
      /\ ms_to_pause' = ms_to_pause /\ ms_to_pause \in Nat
  BY EngineUntouched DEF SendPacket
<1>2. SenderInv'
  BY Send_Inv DEF SendPacket, SchedulerInv, StreamInv, PortsAsked
<1>3. LoopTypeOK' /\ LateOnlyAfterStop'
  BY DEF SendPacket, SchedulerInv, LoopTypeOK, LateOnlyAfterStop, Steps
<1>4. PacketAccounting'
  BY <1>1 DEF SendPacket, SchedulerInv, LoopTypeOK, Accounts, PacketAccounting, InFlight
<1>5. NoPauseWhileSending'
  BY <1>1 DEF SendPacket, SchedulerInv, Accounts, NoPauseWhileSending
<1>6. ElapsedAccounting'
  BY <1>1 DEF SendPacket, SchedulerInv, Accounts, ElapsedAccounting,
              PauseSlept, IntervalAhead
<1>7. PacketInv'
  <2>1. rtp \in StreamFields
    BY FieldsFitHeader DEF SchedulerInv, StreamInv, FieldsInv, FieldsTypeOK
  <2>2. opts.ptime_in_packet \in UInt8
    BY ScenariosAssumption
       DEF SchedulerInv, EngineInv, CountersTypeOK, IsScenario, OptionsComplete
  <2>3. /\ packet' = GenerateRtpPacket(rtp, opts.ptime_in_packet)
        /\ rtp' = rtp /\ opts' = opts
    BY DEF SendPacket, engineVars
  <2>4. PacketTypeOK'
    BY <2>1, <2>2, <2>3, PacketType DEF PacketTypeOK
  <2> QED
    BY <2>3, <2>4 DEF PacketInv
<1> QED
  BY <1>1, <1>2, <1>3, <1>4, <1>5, <1>6, <1>7 DEF SchedulerInv, Accounts

LEMMA KernelStep_Inv ==
  ASSUME SchedulerInv, KernelStep
  PROVE  SchedulerInv'
<1>1. UNCHANGED loopVars /\ SenderInv'
  BY Kernel_Inv DEF KernelStep, SchedulerInv
<1>2. EngineInv' /\ StreamInv' /\ Ptime' = Ptime /\ packet_count' = packet_count
      /\ elapsed_ms' = elapsed_ms /\ ms_to_pause' = ms_to_pause
  BY EngineUntouched DEF KernelStep
<1>3. PacketInv'
  BY <1>1 DEF KernelStep, loopVars, engineVars, SchedulerInv, PacketInv, PacketTypeOK
<1> QED
  BY <1>1, <1>2, <1>3
     DEF loopVars, SchedulerInv, LoopTypeOK, LateOnlyAfterStop, Accounts,
         PacketAccounting, ElapsedAccounting, NoPauseWhileSending, InFlight,
         PauseSlept, IntervalAhead

LEMMA Scheduler_Stutter ==
  ASSUME SchedulerInv, UNCHANGED schedulerVars
  PROVE  SchedulerInv'
<1>1. UNCHANGED loopVars /\ UNCHANGED engineVars /\ SenderInv'
  BY Sender_Stutter DEF schedulerVars, SchedulerInv
<1>2. EngineInv' /\ StreamInv' /\ Ptime' = Ptime /\ packet_count' = packet_count
      /\ elapsed_ms' = elapsed_ms /\ ms_to_pause' = ms_to_pause
  BY <1>1, EngineUntouched
<1>3. PacketInv'
  BY <1>1 DEF loopVars, engineVars, SchedulerInv, PacketInv, PacketTypeOK
<1> QED
  BY <1>1, <1>2, <1>3
     DEF loopVars, SchedulerInv, LoopTypeOK, LateOnlyAfterStop, Accounts,
         PacketAccounting, ElapsedAccounting, NoPauseWhileSending, InFlight,
         PauseSlept, IntervalAhead

-------------------------------------------------------------------------------
(* The theorems.                                                            *)

LEMMA Scheduler_Invariance == SchedulerSpec => []SchedulerInv
<1>1. SchedulerInv /\ [SchedulerNext]_schedulerVars => SchedulerInv'
  BY TickEngine_Inv, Loop_Inv, SendPacket_Inv, KernelStep_Inv, Scheduler_Stutter
     DEF SchedulerNext, LoopStep
<1> QED
  BY <1>1, SchedulerInit_Inv, PTL DEF SchedulerSpec

\* For every interval, scenario, stop and restart the engine's clock covers what
\* the loop has slept, pauses included: no trigger in time is late.
THEOREM ClockCoversSleep == SchedulerSpec => []ElapsedCoversSleep
<1>1. SchedulerInv => ElapsedCoversSleep
  <2> SUFFICES ASSUME SchedulerInv PROVE slept <= elapsed_ms + PauseSlept
    BY DEF ElapsedCoversSleep
  <2>1. elapsed_ms + PauseSlept = slept + Ptime * pauses + IntervalAhead
    BY DEF SchedulerInv, Accounts, ElapsedAccounting
  <2>2. slept \in Nat /\ pauses \in Nat /\ Ptime \in Nat
    BY PtimeType DEF SchedulerInv, LoopTypeOK
  <2>3. Ptime * pauses \in Nat
    BY <2>2, OneMoreInterval
  <2>4. IntervalAhead \in Nat
    BY <2>2 DEF IntervalAhead
  <2> QED
    BY <2>1, <2>2, <2>3, <2>4
<1> QED
  BY <1>1, Scheduler_Invariance, PTL

\* Wherever end_stream() finds the loop, at most one more packet leaves.
THEOREM OnePacketAfterStop == SchedulerSpec => []StopIsPrompt
<1>1. SchedulerInv => StopIsPrompt
  BY DEF SchedulerInv, LateOnlyAfterStop, StopIsPrompt
<1> QED
  BY <1>1, Scheduler_Invariance, PTL

\* The ports the engine asks for, in whatever order, never make the stream hold
\* two sockets or take m_src_port for a port its socket does not have.
THEOREM StreamHoldsOneSocket == SchedulerSpec => [](OneSocket /\ PortAgrees)
<1>1. SchedulerInv => OneSocket /\ PortAgrees
  BY DEF SchedulerInv, SenderInv
<1> QED
  BY <1>1, Scheduler_Invariance, PTL

\* Every packet of the stream leaves from the port the engine asks for at that
\* moment unless another process has it, the process may not bind it or there is
\* no descriptor, and then from the port before: the packets that rebind nothing
\* and those that follow a failed rebind included (Sender.cpp:31-72).
THEOREM StreamUsesRequestedPort == SchedulerSpec => SendsFromRequestedPort
<1>1. SchedulerInv /\ [SchedulerNext]_schedulerVars
        => [sent' # sent => LeavesFrom(transport.src_port)]_schedulerVars
  <2> SUFFICES ASSUME SchedulerInv, SchedulerNext, sent' # sent
               PROVE  LeavesFrom(transport.src_port)
    OBVIOUS
  <2>1. SendPacket
    BY DEF SchedulerNext, LoopStep, StartStream, LeaveLoop, TickEngine, SleepThroughPause,
           SleepBetweenPackets, EndStream, KernelStep, loopVars
  <2>2. Send(transport.src_port) /\ transport.src_port \in Ports \union {0} /\ SenderInv
    BY <2>1 DEF SendPacket, SchedulerInv, StreamInv, PortsAsked
  <2> QED
    BY <2>2, Send_LeavesFrom
<1> QED
  BY <1>1, Scheduler_Invariance, PTL DEF SchedulerSpec, SendsFromRequestedPort

\* The engine, the socket, the loop and the packet keep their types together: the
\* loop never asks the sender for a port, or the packet builder for an octet,
\* outside what their fields hold.
THEOREM SchedulerTypeCorrect == SchedulerSpec => []SchedulerTypeOK
<1>1. SchedulerInv => SchedulerTypeOK
  BY DEF SchedulerInv, SchedulerTypeOK, EngineTypeOK, EngineInv, StreamInv, FieldsInv,
         SenderInv, PacketInv
<1> QED
  BY <1>1, Scheduler_Invariance, PTL

\* What leaves the process, octet by octet (Scheduler.cpp:10-28, PacketBuilder.cpp):
\* every packet of a stream with pauses only is the next one but for the numbers
\* the pauses swallowed, for every width, step size, wrap, stop and restart.
THEOREM PausesLookLikeLoss == SchedulerSpec => []ReceiverSeesPausesAsLoss
<1>1. SchedulerInv => ReceiverSeesPausesAsLoss
  <2> SUFFICES ASSUME SchedulerInv, HeaderUntouched, pc = "sleeping"
               PROVE  LET r == Received(packet)
                      IN  /\ r.version = 2 /\ r.flags = 0
                          /\ opts.start_codec < 128 => r.payload_type = opts.start_codec
                          /\ r.seq = (opts.start_seq + sent + pauses) % SeqSpace
                          /\ r.timestamp =
                               (opts.start_timestamp
                                  + (sent + pauses) * opts.timestamp_step_size) % TsSpace
                          /\ r.ssrc = opts.start_ssrc
    BY DEF ReceiverSeesPausesAsLoss
  <2> DEFINE r == Received(packet)
  <2>1. rtp \in StreamFields /\ opts.ptime_in_packet \in UInt8
    BY ScenariosAssumption, FieldsFitHeader
       DEF SchedulerInv, EngineInv, CountersTypeOK, StreamInv, FieldsInv, FieldsTypeOK,
           IsScenario, OptionsComplete
  <2>2. packet = GenerateRtpPacket(rtp, opts.ptime_in_packet)
    BY DEF SchedulerInv, PacketInv
  <2>3. /\ r.version = 2 /\ r.flags = 0
        /\ r.seq = rtp.seq /\ r.timestamp = rtp.timestamp /\ r.ssrc = rtp.ssrc
        /\ r.payload_type = rtp.codec % 128
    BY <2>1, <2>2, ReceiverReadsTheTick
  <2> HIDE DEF r
  <2>4. opts.start_codec \in UInt8 /\ opts.start_seq \in Seqs
    BY ScenariosAssumption
       DEF SchedulerInv, EngineInv, CountersTypeOK, IsScenario, OptionsComplete
  <2>5. packet_count = sent + pauses /\ sent \in Nat /\ pauses \in Nat
    BY DEF SchedulerInv, LoopTypeOK, Accounts, PacketAccounting, InFlight
  <2>6. /\ rtp.ssrc = opts.start_ssrc /\ rtp.codec = opts.start_codec
        /\ rtp.seq = (opts.start_seq + packet_count) % SeqSpace
        /\ rtp.timestamp = (opts.start_timestamp
                              + packet_count * opts.timestamp_step_size) % TsSpace
    BY DEF SchedulerInv, StreamInv, RunsOn
  <2>7. opts.start_seq \in Int /\ opts.start_codec \in Nat
    BY <2>4, UInt_Bounds, WidthsAssumption DEF Seqs
  <2>8. opts.start_seq + packet_count = opts.start_seq + sent + pauses
    BY <2>5, <2>7
  <2>9. opts.start_codec < 128 => opts.start_codec % 128 = opts.start_codec
    BY <2>7
  <2> QED
    BY <2>3, <2>5, <2>6, <2>8, <2>9 DEF r
<1> QED
  BY <1>1, Scheduler_Invariance, PTL

===============================================================================
