--------------------------- MODULE MCScenarioEngine ---------------------------
(***************************************************************************)
(* Small scenarios for TLC. An event is a default event of its kind with a *)
(* few fields set; a scenario is the default options with a few events.    *)
(***************************************************************************)
EXTENDS ScenarioEngine, TLC

SsrcAt(t) ==
  [trigger_value |-> t, new_ssrc |-> 7, continue_seq |-> NONE,
   seq_to_continue |-> NONE, continue_timestamp |-> NONE,
   timestamp_to_continue |-> NONE]

TimestampAt(t) ==
  [trigger_value |-> t, new_timestamp |-> NONE, steps_to_jump |-> NONE,
   continue_seq |-> TRUE, seq_to_continue |-> NONE]

CodecAt(t) ==
  [trigger_value |-> t, new_codec |-> 0, new_clockrate |-> NONE,
   continue_ssrc |-> TRUE, ssrc_to_continue |-> NONE,
   continue_seq |-> TRUE, seq_to_continue |-> NONE,
   continue_timestamp |-> TRUE, timestamp_to_continue |-> NONE]

SequenceAt(t, n) == [trigger_value |-> t, seq_to_jump |-> n]

PauseAt(t, ms) == [trigger_value |-> t, ms_to_pause |-> ms]

TransportAt(t) ==
  [trigger_value |-> t, new_dest_ip |-> NONE, new_dest_port |-> NONE,
   use_random_new_source_port |-> FALSE, new_source_port |-> NONE]

NoChanges == [k \in Kinds |-> <<>>]

DefaultOptions ==
  [start_ssrc |-> 1, start_seq |-> 5, start_timestamp |-> 3,
   timestamp_step_size |-> 2, start_codec |-> 8, start_clockrate |-> 8,
   seq_steps |-> 1, ptime_in_packet |-> 2, ptime_btw_packet |-> 2,
   trigger_type |-> "AfterPackets",
   dest_ip |-> 1, dest_port |-> 1, source_port |-> 1, changes |-> NoChanges]

Scenario(type, changes) ==
  [DefaultOptions EXCEPT !.trigger_type = type, !.changes = changes @@ NoChanges]

\* Two SSRC changes due at once, one of them resetting the running numbers.
SsrcScripts(t) ==
  {<<SsrcAt(t), [SsrcAt(u) EXCEPT !.new_ssrc = 9, !.continue_seq = FALSE,
                                  !.seq_to_continue = 2,
                                  !.continue_timestamp = FALSE,
                                  !.timestamp_to_continue = 1]>> : u \in {t, t + 1}}

TimestampScripts(t) ==
  {<<[TimestampAt(t) EXCEPT !.new_timestamp = 6, !.steps_to_jump = -3],
     [TimestampAt(u) EXCEPT !.steps_to_jump = 2, !.continue_seq = FALSE,
                            !.seq_to_continue = 4]>> : u \in {1, t, t + 2}}

CodecScripts(t) ==
  {<<>>,
   <<[CodecAt(t) EXCEPT !.new_clockrate = 16, !.continue_ssrc = FALSE,
                        !.ssrc_to_continue = 3, !.continue_seq = FALSE,
                        !.seq_to_continue = 6, !.continue_timestamp = FALSE,
                        !.timestamp_to_continue = 0]>>}

SequenceScripts(t) ==
  {<<SequenceAt(t, -3)>>, <<SequenceAt(t + 1, 2), SequenceAt(t, 5)>>}

PauseScripts(t) ==
  {<<>>, <<PauseAt(t, 3)>>, <<PauseAt(t, 5), PauseAt(t, 3), PauseAt(t + 1, 4)>>}

MCScenarios ==
  {Scenario(type, [ssrc |-> s, timestamp |-> t, codec |-> c, sequence |-> n,
                   pause |-> p]) :
     type \in {"AfterPackets", "AfterSeconds"},
     s \in SsrcScripts(2), t \in TimestampScripts(3), c \in CodecScripts(2),
     n \in SequenceScripts(2), p \in PauseScripts(3)}
  \union
  {Scenario("AfterPackets",
     [transport |-> <<[TransportAt(2) EXCEPT !.new_source_port = 2],
                      [TransportAt(t) EXCEPT !.use_random_new_source_port = TRUE,
                                             !.new_source_port = 3,
                                             !.new_dest_port = 2]>>]) : t \in {2, 3}}

-------------------------------------------------------------------------------
\* The validator accepts a pause of 0 ms.
ZeroPauseScenarios == {Scenario("AfterPackets", [pause |-> <<PauseAt(2, 0)>>])}

\* README.md:173: a pause of two seconds after five seconds of streaming.
FiveSecondsScenarios == {Scenario("AfterSeconds", [pause |-> <<PauseAt(5, 2000)>>])}

===============================================================================
