---------------------------- MODULE ScenarioEngine ----------------------------
(***************************************************************************)
(* The state machine of one RTP stream scenario                            *)
(* (core/ScenarioEngine.{h,cpp}): tick() advances the stream by one packet *)
(* and applies the change events whose trigger has been reached, each kind *)
(* from the front of its own deque, in a fixed order of kinds.             *)
(*                                                                         *)
(* tick() runs on one thread and takes no lock, so it is one action.       *)
(***************************************************************************)
EXTENDS StreamOptions, SequencesExt, FiniteSetsExt, Functions

CONSTANTS
  Scenarios,   \* validated StreamOptions the engine may be constructed from
  Deltas,      \* arguments tick() is called with when the engine runs alone
  MaxTicks     \* bound of the model on the number of calls of tick()

VARIABLES
  opts,          \* the StreamOptions passed to the constructor
  script,        \* history: the deques as sort_change_deques() left them
  pending,       \* m_ssrc_changes, m_timestamp_changes, ...: not yet consumed
  rtp,           \* m_state: the fields the next packet carries
  transport,     \* m_state: destination and source port
  packet_count,  \* m_state.packet_count
  elapsed_ms,    \* m_state.elapsed_ms
  is_paused,     \* m_state.is_paused
  ms_to_pause    \* m_state.ms_to_pause

engineVars == <<opts, script, pending, rtp, transport,
                packet_count, elapsed_ms, is_paused, ms_to_pause>>

-------------------------------------------------------------------------------
ASSUME ScenariosAssumption == \A o \in Scenarios : IsScenario(o)

ASSUME BoundsAssumption ==
  /\ Deltas \subseteq Nat
  /\ MaxTicks \in Nat

-------------------------------------------------------------------------------
(* Construction.                                                            *)

SortedByTrigger(q) ==
  \A i, j \in DOMAIN q : i < j => q[i].trigger_value <= q[j].trigger_value

\* std::sort is not stable: events with equal triggers come out in any order.
SortByTrigger(q) ==
  {s \in {[i \in DOMAIN q |-> q[p[i]]] : p \in Bijection(DOMAIN q, DOMAIN q)} :
     SortedByTrigger(s)}

InitialRtp(o) ==
  [ssrc |-> o.start_ssrc, seq |-> o.start_seq, timestamp |-> o.start_timestamp,
   codec |-> o.start_codec, clockrate |-> o.start_clockrate]

InitialTransport(o) ==
  [dest_ip |-> o.dest_ip, dest_port |-> o.dest_port, src_port |-> o.source_port]

EngineInit ==
  /\ opts \in Scenarios
  /\ \E s \in SortByTrigger(opts.changes.ssrc),
        t \in SortByTrigger(opts.changes.timestamp),
        c \in SortByTrigger(opts.changes.codec),
        n \in SortByTrigger(opts.changes.sequence),
        p \in SortByTrigger(opts.changes.pause),
        x \in SortByTrigger(opts.changes.transport) :
       script = [ssrc |-> s, timestamp |-> t, codec |-> c,
                 sequence |-> n, pause |-> p, transport |-> x]
  /\ pending = script
  /\ rtp = InitialRtp(opts)
  /\ transport = InitialTransport(opts)
  /\ packet_count = 0
  /\ elapsed_ms = 0
  /\ is_paused = FALSE
  /\ ms_to_pause = 0

-------------------------------------------------------------------------------
(* The change events, one operator per overload of apply().                *)

\* A flag that is present and false replaces the running value.
Continue(flag, v, current) == IF flag = FALSE THEN v ELSE current

ApplySsrc(s, e) ==
  [s EXCEPT
     !.ssrc = ValueOr(e.new_ssrc, @),
     !.seq = Continue(e.continue_seq, e.seq_to_continue, @),
     !.timestamp = Continue(e.continue_timestamp, e.timestamp_to_continue, @)]

JumpTimestamp(t, steps) ==
  IF steps = NONE THEN t
  ELSE (t + steps * opts.timestamp_step_size) % TsSpace

\* A relative jump taken from the value before the absolute one.
ApplyTimestampRelativeFirst(s, e) ==
  [s EXCEPT
     !.timestamp = ValueOr(e.new_timestamp, JumpTimestamp(@, e.steps_to_jump)),
     !.seq = Continue(e.continue_seq, e.seq_to_continue, @)]

ApplyTimestamp(s, e) ==
  [s EXCEPT
     !.timestamp = JumpTimestamp(ValueOr(e.new_timestamp, @), e.steps_to_jump),
     !.seq = Continue(e.continue_seq, e.seq_to_continue, @)]

\* The SSRC of the codec change is forgotten.
ApplyCodecSameSsrc(s, e) ==
  [s EXCEPT
     !.codec = ValueOr(e.new_codec, @),
     !.clockrate = ValueOr(e.new_clockrate, @),
     !.seq = Continue(e.continue_seq, e.seq_to_continue, @),
     !.timestamp = Continue(e.continue_timestamp, e.timestamp_to_continue, @)]

ApplyCodec(s, e) ==
  [s EXCEPT
     !.codec = ValueOr(e.new_codec, @),
     !.clockrate = ValueOr(e.new_clockrate, @),
     !.ssrc = Continue(e.continue_ssrc, e.ssrc_to_continue, @),
     !.seq = Continue(e.continue_seq, e.seq_to_continue, @),
     !.timestamp = Continue(e.continue_timestamp, e.timestamp_to_continue, @)]

ApplySequence(s, e) ==
  [s EXCEPT !.seq = IF e.seq_to_jump = NONE THEN @
                    ELSE (@ + e.seq_to_jump) % SeqSpace]

\* An explicit source port wins over the request for a random one.
ApplyTransportExplicitPort(s, e) ==
  [s EXCEPT
     !.dest_ip = ValueOr(e.new_dest_ip, @),
     !.dest_port = ValueOr(e.new_dest_port, @),
     !.src_port = IF e.new_source_port # NONE THEN e.new_source_port
                  ELSE IF e.use_random_new_source_port = TRUE THEN 0 ELSE @]

ApplyTransport(s, e) ==
  [s EXCEPT
     !.dest_ip = ValueOr(e.new_dest_ip, @),
     !.dest_port = ValueOr(e.new_dest_port, @),
     !.src_port = IF e.use_random_new_source_port = TRUE THEN 0
                  ELSE ValueOr(e.new_source_port, @)]

\* Which overload an event of the deque of kind k selects.
Apply(k, s, e) ==
  CASE k = "ssrc"      -> ApplySsrc(s, e)
    [] k = "timestamp" -> ApplyTimestamp(s, e)
    [] k = "codec"     -> ApplyCodec(s, e)
    [] k = "sequence"  -> ApplySequence(s, e)
    [] k = "transport" -> ApplyTransport(s, e)

\* The body of a while loop: the events q of kind k, from the front.
ApplyAll(k, s, q) == FoldLeft(LAMBDA t, e : Apply(k, t, e), s, q)

\* The last pause applied is the one that counts.
Pauses(q) == {i \in DOMAIN q : q[i].ms_to_pause # NONE}

PauseLength(q) == IF Pauses(q) = {} THEN 0 ELSE q[Max(Pauses(q))].ms_to_pause

-------------------------------------------------------------------------------
(* tick()                                                                   *)

\* What trigger_reached compares a trigger with.
Now == IF opts.trigger_type = "AfterPackets" THEN packet_count ELSE elapsed_ms

TriggerReached(e, now) == now >= e.trigger_value

\* An if in the place of the while: one event of a kind per tick.
DueCountAtMostOne(q, now) ==
  IF q # <<>> /\ TriggerReached(Head(q), now) THEN 1 ELSE 0

\* How many events the loop "while not empty and front reached" consumes.
DueCount(q, now) ==
  CHOOSE n \in 0 .. Len(q) :
    /\ \A i \in 1 .. n : TriggerReached(q[i], now)
    /\ n < Len(q) => ~TriggerReached(q[n + 1], now)

Due(q, now) == SubSeq(q, 1, DueCount(q, now))

\* The pop_front() that follows every apply().
Remaining(q, now) == SubSeq(q, DueCount(q, now) + 1, Len(q))

\* The increments without the wrap of their types.
AdvanceUnbounded(s) ==
  [s EXCEPT !.seq = @ + 1, !.timestamp = @ + opts.timestamp_step_size]

Advance(s) ==
  [s EXCEPT !.seq = (@ + 1) % SeqSpace,
            !.timestamp = (@ + opts.timestamp_step_size) % TsSpace]

\* The loop over the sequence deque put in front of the others.
ApplyRtpChangesSequenceFirst(s, due) ==
  LET s0 == ApplyAll("sequence", s, due.sequence)
      s1 == ApplyAll("ssrc", s0, due.ssrc)
      s2 == ApplyAll("timestamp", s1, due.timestamp)
  IN  ApplyAll("codec", s2, due.codec)

ApplyRtpChanges(s, due) ==
  LET s1 == ApplyAll("ssrc", s, due.ssrc)
      s2 == ApplyAll("timestamp", s1, due.timestamp)
      s3 == ApplyAll("codec", s2, due.codec)
  IN  ApplyAll("sequence", s3, due.sequence)

ApplyTransportChanges(s, due) == ApplyAll("transport", s, due.transport)

\* The pause of the previous tick is never ended.
PausedAfterResumeStuck == is_paused

\* is_paused after the block that ends the pause of the previous tick.
PausedAfterResume == is_paused /\ ms_to_pause = 0

\* The pause that has just been slept through is not counted.
ElapsedWithoutPause(delta) == elapsed_ms + delta

\* elapsed_ms after the end of the pause, if there was one, and the increment.
ElapsedAfter(delta) == elapsed_ms + ms_to_pause + delta

Tick(delta) ==
  /\ packet_count' = packet_count + 1
  /\ elapsed_ms' = ElapsedAfter(delta)
  /\ UNCHANGED <<opts, script>>
  /\ LET due == [k \in Kinds |-> Due(pending[k], Now')]
     IN /\ rtp' = ApplyRtpChanges(Advance(rtp), due)
        /\ transport' = ApplyTransportChanges(transport, due)
        /\ is_paused' = (PausedAfterResume \/ Pauses(due.pause) # {})
        /\ ms_to_pause' = PauseLength(due.pause)
  /\ pending' = [k \in Kinds |-> Remaining(pending[k], Now')]

\* The stream goes on for ever; the model looks at MaxTicks ticks of it.
BoundReached == packet_count = MaxTicks /\ UNCHANGED engineVars

EngineNext ==
  \/ packet_count < MaxTicks /\ \E delta \in Deltas : Tick(delta)
  \/ BoundReached

EngineSpec == EngineInit /\ [][EngineNext]_engineVars

-------------------------------------------------------------------------------
(* Properties.                                                              *)

CountersTypeOK ==
  /\ opts \in Scenarios
  /\ packet_count \in Nat
  /\ elapsed_ms \in Nat
  /\ is_paused \in BOOLEAN
  /\ ms_to_pause \in Nat
  /\ DOMAIN script = Kinds
  /\ DOMAIN pending = Kinds
  /\ \A k \in Kinds : /\ script[k] \in Seq(EventType[k])
                      /\ pending[k] \in Seq(EventType[k])

RtpType ==
  [ssrc : UInt32, seq : Seqs, timestamp : Timestamps, codec : UInt8, clockrate : UInt16]

TransportType == [dest_ip : Nat, dest_port : UInt16, src_port : UInt16]

FieldsTypeOK ==
  /\ rtp \in RtpType
  /\ transport \in TransportType

\* The fields of StreamState keep their types: the sequence number and the
\* timestamp wrap at their width whatever jump or increment reaches them.
EngineTypeOK == CountersTypeOK /\ FieldsTypeOK

Consumed(k) == Len(script[k]) - Len(pending[k])

\* Every deque is the tail of the sorted script that starts at the first event
\* whose trigger the counter trigger_reached() reads has not reached: no event
\* fires early, late, twice or never by that counter, however many fall due in one
\* tick and however far a pause moves it. That a time is counted in the documented
\* unit is another matter: SecondsAreSeconds.
PendingIsFuture ==
  \A k \in Kinds :
    /\ Consumed(k) \in 0 .. Len(script[k])
    /\ pending[k] = SubSeq(script[k], Consumed(k) + 1, Len(script[k]))
    /\ \A i \in DOMAIN script[k] :
         i <= Consumed(k) <=> script[k][i].trigger_value <= Now

\* A tick leaves the stream paused exactly when it consumed a pause event: the
\* pause of the tick before never lasts into the next one.
PauseLastsOneTick ==
  [][is_paused' <=> pending'.pause # pending.pause]_engineVars

\* Documentation of trigger_value and AfterSeconds: a threshold in time is one in
\* seconds, so that no event is consumed before that many have passed.
SecondsAreSeconds ==
  opts.trigger_type = "AfterSeconds" =>
    \A k \in Kinds : \A i \in 1 .. Consumed(k) :
      elapsed_ms >= 1000 * script[k][i].trigger_value

===============================================================================
