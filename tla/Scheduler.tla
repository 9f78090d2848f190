------------------------------- MODULE Scheduler -------------------------------
(***************************************************************************)
(* The send loop of one stream (core/Scheduler.{h,cpp}) with the engine    *)
(* that decides what to send and the sender that sends it. One thread runs *)
(* start_stream(); any other thread may call end_stream() between any two  *)
(* of its steps. sleep_for() is a step that advances `slept`; what leaves  *)
(* the process is `packet`.                                                *)
(***************************************************************************)
EXTENDS ScenarioEngine, Sender, PacketBuilder

VARIABLES
  pc,        \* where the thread that runs start_stream() is
  m_active,  \* Scheduler::m_active
  packet,    \* history: the last packet given to Sender::send()
  slept,     \* history: milliseconds spent in sleep_for()
  sent,      \* history: calls of Sender::send()
  pauses,    \* history: ticks that left the stream paused
  late       \* history: packets sent since m_active was last cleared

loopVars == <<pc, m_active, packet, slept, sent, pauses, late>>
schedulerVars == <<engineVars, senderVars, loopVars>>

\* What a configuration may ask for: a source port above 1024 to start with, then
\* any explicit port, or 0 for a random one.
ASSUME PortsAssumption ==
  \A o \in Scenarios :
    /\ o.source_port \in Ports \ PrivilegedPorts
    /\ \A n \in DOMAIN o.changes.transport :
         o.changes.transport[n].new_source_port \in Ports \union {0, NONE}

NoPacket == [header |-> <<>>, payload_size |-> 0]

Steps == {"idle", "check", "pausing", "sending", "sleeping", "returned"}

\* m_ptime_btw_packets
Ptime == opts.ptime_btw_packet

\* RtpEngine's constructor: Sender and ScenarioEngine from the same options.
SchedulerInit ==
  /\ EngineInit
  /\ SenderInit(opts.source_port)
  /\ pc = "idle"
  /\ m_active = FALSE
  /\ packet = NoPacket
  /\ slept = 0 /\ sent = 0 /\ pauses = 0 /\ late = 0

-------------------------------------------------------------------------------
(* start_stream()                                                           *)

\* The entry of start_stream(), also when a later call starts it again.
StartStream ==
  /\ pc \in {"idle", "returned"}
  /\ pc' = "check"
  /\ m_active' = TRUE
  /\ late' = 0
  /\ UNCHANGED <<engineVars, senderVars, packet, slept, sent, pauses>>

\* m_active is not re-evaluated after a pause.
LeaveLoopUnlessPaused ==
  /\ pc = "check"
  /\ ~m_active /\ ~is_paused
  /\ pc' = "returned"
  /\ UNCHANGED <<engineVars, senderVars, m_active, packet, slept, sent, pauses, late>>

LeaveLoop ==
  /\ pc = "check"
  /\ ~m_active
  /\ pc' = "returned"
  /\ UNCHANGED <<engineVars, senderVars, m_active, packet, slept, sent, pauses, late>>

\* The loop condition, evaluated only once the loop has been left.
LoopConditionIgnored == pc = "check"

LoopCondition == pc = "check" /\ m_active

TickEngine ==
  /\ LoopCondition
  /\ Tick(Ptime)
  /\ pc' = IF is_paused' THEN "pausing" ELSE "sending"
  /\ pauses' = IF is_paused' THEN pauses + 1 ELSE pauses
  /\ UNCHANGED <<senderVars, m_active, packet, slept, sent, late>>

\* The sleep of ms_to_pause, and continue.
SleepThroughPause ==
  /\ pc = "pausing"
  /\ slept' = slept + ms_to_pause
  /\ pc' = "check"
  /\ UNCHANGED <<engineVars, senderVars, m_active, packet, sent, pauses, late>>

\* generate_rtp_packet() and send().
SendPacket ==
  /\ pc = "sending"
  /\ packet' = GenerateRtpPacket(rtp, opts.ptime_in_packet)
  /\ Send(transport.src_port)
  /\ pc' = "sleeping"
  /\ sent' = sent + 1
  /\ late' = IF m_active THEN late ELSE late + 1
  /\ UNCHANGED <<engineVars, m_active, slept, pauses>>

\* Only a packet, never a pause, is followed by this sleep.
SleepBetweenPackets ==
  /\ pc = "sleeping"
  /\ slept' = slept + Ptime
  /\ pc' = "check"
  /\ UNCHANGED <<engineVars, senderVars, m_active, packet, sent, pauses, late>>

-------------------------------------------------------------------------------
(* end_stream(), from another thread, and the kernel.                       *)

EndStream ==
  /\ m_active' = FALSE
  /\ UNCHANGED <<engineVars, senderVars, pc, packet, slept, sent, pauses, late>>

KernelStep == KernelNext /\ UNCHANGED <<engineVars, loopVars>>

LoopStep ==
  \/ LeaveLoop
  \/ packet_count < MaxTicks /\ TickEngine
  \/ SleepThroughPause
  \/ SendPacket
  \/ SleepBetweenPackets

SchedulerNext == StartStream \/ LoopStep \/ EndStream \/ KernelStep

\* The thread in the loop is scheduled; nobody has to start or end a stream.
SchedulerSpec ==
  SchedulerInit /\ [][SchedulerNext]_schedulerVars /\ WF_schedulerVars(LoopStep)

-------------------------------------------------------------------------------
(* Properties.                                                              *)

LoopTypeOK ==
  /\ pc \in Steps
  /\ m_active \in BOOLEAN
  /\ slept \in Nat /\ sent \in Nat /\ pauses \in Nat /\ late \in Nat

PacketTypeOK == packet.header \in Seq(0 .. 255) /\ packet.payload_size \in Nat

SchedulerTypeOK == EngineTypeOK /\ SenderTypeOK /\ LoopTypeOK /\ PacketTypeOK

\* The pause the engine will add to elapsed_ms in the next tick.
PauseSlept == IF pc \in {"pausing", "sending", "sleeping"} THEN 0 ELSE ms_to_pause

\* Documentation of StreamState: elapsed_ms continues during a pause. It never lags
\* behind the time the loop has slept, however many pauses, stops and restarts
\* there were, so that no trigger in time is late.
ElapsedCoversSleep == slept <= elapsed_ms + PauseSlept

\* No event of the scenario touches what the header carries.
HeaderUntouched == \A k \in Kinds \ {"pause", "transport"} : script[k] = <<>>

\* What a receiver sees of a stream with pauses only: it runs on in steps of one,
\* across both wraps, stops and restarts included, but for one number and one
\* timestamp step that every pause swallows, so that each pause looks like one
\* lost packet. Payload types are those of RTP, of seven bits; with a codec of more
\* the marker is not the 0 a comment in generate_rtp_packet() promises.
ReceiverSeesPausesAsLoss ==
  HeaderUntouched /\ pc = "sleeping" =>
    LET r == Received(packet)
    IN  /\ r.version = 2 /\ r.flags = 0
        /\ opts.start_codec < 128 => r.payload_type = opts.start_codec
        /\ r.seq = (opts.start_seq + sent + pauses) % SeqSpace
        /\ r.timestamp =
             (opts.start_timestamp + (sent + pauses) * opts.timestamp_step_size) % TsSpace
        /\ r.ssrc = opts.start_ssrc

\* At most the packet of the iteration in progress follows a stop.
StopIsPrompt == late <= 1

\* A loop that was told to stop leaves, wherever it was, pause included.
StopEndsLoop ==
  (~m_active /\ pc # "idle") ~> (pc = "returned")

\* Pauses end, back to back ones included: the stream sends again or is told
\* to stop. MaxTicks has to lie beyond the last pause of the scenarios.
PauseEnds == pc = "pausing" ~> (pc = "sending" \/ ~m_active)

\* Every packet, first try or retry after a failed rebind, leaves from the source
\* port the engine asks for at that moment, unless another process, a missing
\* privilege or a lack of descriptors prevents it; then from the port before.
SendsFromRequestedPort ==
  [][sent' # sent => LeavesFrom(transport.src_port)]_schedulerVars

===============================================================================
