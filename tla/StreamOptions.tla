----------------------------- MODULE StreamOptions -----------------------------
(***************************************************************************)
(* The configuration of a stream (core/StreamOptions.h): the types that    *)
(* the parser, the validator and the engine share. An optional is a value  *)
(* or NONE; IPs, codecs and SSRCs are numbers.                             *)
(***************************************************************************)
EXTENDS Integers, Sequences

CONSTANTS
  NONE,      \* std::nullopt
  SeqSpace,  \* 2^16 in the code: the width of sequence numbers
  TsSpace    \* 2^32 in the code: the width of timestamps

\* The fixed-width integers; 2^32 in numbers TLC can read.
UInt8 == 0 .. 255
UInt16 == {v \in Nat : v < 65536}
UInt32 == {v \in Nat : v \div 65536 < 65536}
Int16 == {v \in Int : -32768 <= v /\ v < 32768}

ASSUME WidthsAssumption ==
  /\ SeqSpace \in Nat \ {0} /\ SeqSpace - 1 \in UInt16
  /\ TsSpace \in Nat \ {0} /\ TsSpace - 1 \in UInt32

Option(S) == S \union {NONE}

\* value_or
ValueOr(v, default) == IF v = NONE THEN default ELSE v

Seqs == 0 .. SeqSpace - 1
Timestamps == 0 .. TsSpace - 1

Triggers == Nat \ {0}

Kinds == {"ssrc", "timestamp", "codec", "sequence", "pause", "transport"}

TriggerTypes == {"None", "AfterPackets", "AfterSeconds"}

\* An empty optional is no value.
ASSUME NoneAssumption == NONE \notin Int \union BOOLEAN \union TriggerTypes

\* The change events, for trigger values in T.
EventsWith(T) ==
  [ssrc |->
     [trigger_value : T, new_ssrc : Option(UInt32),
      continue_seq : Option(BOOLEAN), seq_to_continue : Option(Seqs),
      continue_timestamp : Option(BOOLEAN),
      timestamp_to_continue : Option(Timestamps)],
   timestamp |->
     [trigger_value : T, new_timestamp : Option(Timestamps),
      steps_to_jump : Option(Int16),
      continue_seq : Option(BOOLEAN), seq_to_continue : Option(Seqs)],
   codec |->
     [trigger_value : T, new_codec : Option(UInt8),
      new_clockrate : Option(UInt16),
      continue_ssrc : Option(BOOLEAN), ssrc_to_continue : Option(UInt32),
      continue_seq : Option(BOOLEAN), seq_to_continue : Option(Seqs),
      continue_timestamp : Option(BOOLEAN),
      timestamp_to_continue : Option(Timestamps)],
   sequence |->
     [trigger_value : T, seq_to_jump : Option(Int16)],
   pause |->
     [trigger_value : T, ms_to_pause : Option(UInt32)],
   transport |->
     [trigger_value : T, new_dest_ip : Option(Nat),
      new_dest_port : Option(UInt16),
      use_random_new_source_port : Option(BOOLEAN),
      new_source_port : Option(UInt16)]]

EventType == EventsWith(Triggers)

\* The options other than the change events, complete.
OptionsComplete(o) ==
  /\ o.start_ssrc \in UInt32
  /\ o.start_seq \in Seqs
  /\ o.start_timestamp \in Timestamps
  /\ o.timestamp_step_size \in UInt32
  /\ o.start_codec \in UInt8
  /\ o.start_clockrate \in UInt16
  /\ o.seq_steps \in UInt16
  /\ o.ptime_in_packet \in UInt8
  /\ o.ptime_btw_packet \in UInt8
  /\ o.trigger_type \in TriggerTypes
  /\ o.dest_ip \in Nat
  /\ o.dest_port \in UInt16
  /\ o.source_port \in UInt16

\* The numbers an event of kind k may carry on or reset.
Resettable ==
  [ssrc |-> {<<"continue_seq", "seq_to_continue">>,
             <<"continue_timestamp", "timestamp_to_continue">>},
   timestamp |-> {<<"continue_seq", "seq_to_continue">>},
   codec |-> {<<"continue_ssrc", "ssrc_to_continue">>,
              <<"continue_seq", "seq_to_continue">>,
              <<"continue_timestamp", "timestamp_to_continue">>},
   sequence |-> {}, pause |-> {}, transport |-> {}]

\* apply() reads the value of a reset with value(), which throws if there is
\* none, in the thread of the send loop.
ResetsHaveValue(k, e) ==
  \A r \in Resettable[k] : e[r[1]] = FALSE => e[r[2]] # NONE

\* What the engine is constructed from.
IsScenario(o) ==
  /\ OptionsComplete(o)
  /\ \A k \in Kinds :
       /\ o.changes[k] \in Seq(EventType[k])
       /\ \A n \in DOMAIN o.changes[k] : ResetsHaveValue(k, o.changes[k][n])
===============================================================================
