------------------------ MODULE ConfigValidationProofs ------------------------
(***************************************************************************)
(* What check_configuration promises, for every input and every value the  *)
(* generators draw. The work is in CheckedEntry, which relates what a loop *)
(* body leaves of an entry to the predicate of the erase_if after it; the  *)
(* invariant ConfigInv carries it through the six checks.                  *)
(***************************************************************************)
EXTENDS ConfigValidation, FiniteSetTheorems, TLAPS

-------------------------------------------------------------------------------
(* One entry.                                                              *)

Decided(k, e) ==
  /\ ResetsHaveValue(k, e)
  /\ \A r \in Resettable[k] : e[r[1]] # NONE

EntryFacts(k, e, c) ==
  /\ c \in EventsWith(Nat)[k]
  /\ Erased(k, c) <=> ~Effective(k, e)
  /\ Ignored(k, c) <=> ~Effective(k, e)
  /\ ~BadAccess(k, c)
  /\ Completes(c, e, Lost(k))
  /\ ~Erased(k, c) => c \in EventType[k] /\ Decided(k, c)

\* A flag with its default is decided.
LEMMA FlagDecided ==
  ASSUME NEW v \in Option(BOOLEAN), NEW default \in BOOLEAN
  PROVE  ValueOr(v, default) \in BOOLEAN
BY DEF Option, ValueOr

\* The value of a number that is reset.
LEMMA GeneratedHasValue ==
  ASSUME NEW continue, NEW given, NEW drawn \in Int
  PROVE  continue = FALSE => Generated(continue, given, drawn) # NONE
BY NoneAssumption DEF Generated

LEMMA DrawsAreNumbers ==
  ASSUME NEW draw \in Draws
  PROVE  /\ draw.ssrc \in UInt32 /\ draw.ssrc \in Int
         /\ draw.seq \in Int /\ draw.timestamp \in Int
<1>1. draw.ssrc \in Ssrcs /\ draw.seq \in Seqs /\ draw.timestamp \in Timestamps
  BY DEF Draws
<1>2. draw.ssrc \in UInt32
  BY <1>1, SsrcsAssumption
<1>3. draw.ssrc \in Int
  BY <1>2 DEF UInt32
<1>4. draw.seq \in Int /\ draw.timestamp \in Int
  BY <1>1 DEF Seqs, Timestamps
<1> QED BY <1>2, <1>3, <1>4

LEMMA SsrcEntry ==
  ASSUME NEW e \in EventsWith(Nat)["ssrc"], NEW draw \in Draws
  PROVE  EntryFacts("ssrc", e, Checked("ssrc", e, draw))
<1> DEFINE c == Checked("ssrc", e, draw)
<1>1. c \in EventsWith(Nat)["ssrc"]
  BY SsrcsAssumption DEF EventsWith, Draws, Checked, CheckSsrc, Generated,
     ValueOr, Option, NothingSet, Payload
<1>2. /\ c.trigger_value = e.trigger_value
      /\ c.new_ssrc = e.new_ssrc
  BY DEF EventsWith, Checked, CheckSsrc, NothingSet, Payload
<1>3. /\ Erased("ssrc", c) <=> ~Effective("ssrc", e)
      /\ Ignored("ssrc", c) <=> ~Effective("ssrc", e)
      /\ ~BadAccess("ssrc", c)
  BY <1>2 DEF Erased, Ignored, BadAccess, Effective, NothingSet, Payload
<1>4. Completes(c, e, Lost("ssrc"))
  BY DEF EventsWith, Checked, CheckSsrc, Generated, ValueOr, Completes, Filled,
     Lost, NothingSet, Payload
<1>5. ASSUME ~Erased("ssrc", c) PROVE c \in EventType["ssrc"] /\ Decided("ssrc", c)
  <2>1. c \in EventType["ssrc"]
    BY <1>1, <1>5 DEF EventType, EventsWith, Erased, Triggers
  <2>2. c = CheckSsrc(e, draw)
    BY <1>2, <1>5 DEF Checked, Erased, NothingSet, Payload
  <2>3. /\ c.continue_seq = FALSE => c.seq_to_continue # NONE
        /\ c.continue_timestamp = FALSE => c.timestamp_to_continue # NONE
        /\ c.continue_seq # NONE /\ c.continue_timestamp # NONE
    <3>1. /\ c.continue_seq = ValueOr(e.continue_seq, TRUE)
          /\ c.seq_to_continue =
               Generated(c.continue_seq, e.seq_to_continue, draw.seq)
          /\ c.continue_timestamp = ValueOr(e.continue_timestamp, TRUE)
          /\ c.timestamp_to_continue =
               Generated(c.continue_timestamp, e.timestamp_to_continue,
                         draw.timestamp)
      BY <2>2 DEF CheckSsrc, EventsWith
    <3>2. /\ e.continue_seq \in Option(BOOLEAN)
          /\ e.continue_timestamp \in Option(BOOLEAN)
      BY DEF EventsWith
    <3>3. c.continue_seq \in BOOLEAN /\ c.continue_timestamp \in BOOLEAN
      BY <3>1, <3>2, FlagDecided
    <3> HIDE DEF c
    <3> QED BY <3>1, <3>3, GeneratedHasValue, DrawsAreNumbers, NoneAssumption
  <2>4. Decided("ssrc", c)
    BY <2>3 DEF Decided, ResetsHaveValue, Resettable
  <2> QED BY <2>1, <2>4
<1> QED BY <1>1, <1>3, <1>4, <1>5 DEF EntryFacts

LEMMA TimestampEntry ==
  ASSUME NEW e \in EventsWith(Nat)["timestamp"], NEW draw \in Draws
  PROVE  EntryFacts("timestamp", e, Checked("timestamp", e, draw))
<1> DEFINE c == Checked("timestamp", e, draw)
<1>1. c \in EventsWith(Nat)["timestamp"]
  BY DEF EventsWith, Draws, Checked, CheckTimestamp, Generated, Option,
     NothingSet, Payload
<1>2. /\ c.trigger_value = e.trigger_value
      /\ c.new_timestamp = e.new_timestamp
      /\ c.steps_to_jump = e.steps_to_jump
  BY DEF EventsWith, Checked, CheckTimestamp, NothingSet, Payload
<1>3. /\ Erased("timestamp", c) <=> ~Effective("timestamp", e)
      /\ Ignored("timestamp", c) <=> ~Effective("timestamp", e)
      /\ ~BadAccess("timestamp", c)
  BY <1>2 DEF Erased, Ignored, BadAccess, Effective, NothingSet, Payload
<1>4. Completes(c, e, Lost("timestamp"))
  BY DEF EventsWith, Checked, CheckTimestamp, Generated, Completes, Filled,
     Lost, NothingSet, Payload
<1>5. ASSUME ~Erased("timestamp", c)
      PROVE  c \in EventType["timestamp"] /\ Decided("timestamp", c)
  <2>1. c \in EventType["timestamp"]
    BY <1>1, <1>5 DEF EventType, EventsWith, Erased, Triggers
  <2>2. c = CheckTimestamp(e, draw)
    BY <1>2, <1>5 DEF Checked, Erased, NothingSet, Payload
  <2>3. /\ c.continue_seq = FALSE => c.seq_to_continue # NONE
        /\ c.continue_seq # NONE
    <3>1. e.continue_seq \in Option(BOOLEAN)
      BY DEF EventsWith
    <3>2. CASE e.continue_seq = NONE
      <4>1. c.continue_seq = TRUE
        BY <2>2, <3>2 DEF CheckTimestamp, EventsWith
      <4> HIDE DEF c
      <4> QED BY <4>1, NoneAssumption
    <3>3. CASE e.continue_seq # NONE
      <4>1. /\ c.continue_seq = e.continue_seq
            /\ c.seq_to_continue =
                 Generated(e.continue_seq, e.seq_to_continue, draw.seq)
        BY <2>2, <3>3 DEF CheckTimestamp, EventsWith
      <4> HIDE DEF c
      <4> QED BY <3>3, <4>1, GeneratedHasValue, DrawsAreNumbers
    <3> QED BY <3>2, <3>3
  <2>4. Decided("timestamp", c)
    BY <2>3 DEF Decided, ResetsHaveValue, Resettable
  <2> QED BY <2>1, <2>4
<1> QED BY <1>1, <1>3, <1>4, <1>5 DEF EntryFacts

LEMMA CodecEntry ==
  ASSUME NEW e \in EventsWith(Nat)["codec"], NEW draw \in Draws
  PROVE  EntryFacts("codec", e, Checked("codec", e, draw))
<1> DEFINE c == Checked("codec", e, draw)
<1>1. c \in EventsWith(Nat)["codec"]
  <2>1. CheckCodec(e, draw) \in EventsWith(Nat)["codec"]
    <3> DEFINE ssrc == ValueOr(e.continue_ssrc, FALSE)
               seq == ValueOr(e.continue_seq, FALSE)
               ts == ValueOr(e.continue_timestamp, FALSE)
               new_ssrc == Generated(ssrc, e.ssrc_to_continue, draw.ssrc)
               new_seq == IF seq THEN e.seq_to_continue ELSE draw.seq
               new_ts == IF ts THEN e.timestamp_to_continue ELSE draw.timestamp
    <3>1. CheckCodec(e, draw) =
            [e EXCEPT !.continue_ssrc = ssrc, !.ssrc_to_continue = new_ssrc,
                      !.continue_seq = seq, !.seq_to_continue = new_seq,
                      !.continue_timestamp = ts, !.timestamp_to_continue = new_ts]
      BY DEF CheckCodec, EventsWith
    <3>2. /\ ssrc \in Option(BOOLEAN)
          /\ seq \in Option(BOOLEAN)
          /\ ts \in Option(BOOLEAN)
      BY DEF EventsWith, ValueOr, Option
    <3>3. new_ssrc \in Option(UInt32)
      BY DrawsAreNumbers DEF EventsWith, Generated, Option
    <3>4. /\ new_seq \in Option(Seqs)
          /\ new_ts \in Option(Timestamps)
      BY DEF EventsWith, Draws, Option
    <3> HIDE DEF ssrc, seq, ts, new_ssrc, new_seq, new_ts
    <3> QED BY <3>1, <3>2, <3>3, <3>4 DEF EventsWith
  <2> QED BY <2>1 DEF Checked
<1>2. /\ c.trigger_value = e.trigger_value
      /\ c.new_codec = e.new_codec
      /\ c.new_clockrate = e.new_clockrate
  BY DEF EventsWith, Checked, CheckCodec, NothingSet, Payload
<1>3. /\ Erased("codec", c) <=> ~Effective("codec", e)
      /\ Ignored("codec", c) <=> ~Effective("codec", e)
      /\ ~BadAccess("codec", c)
  BY <1>2 DEF Erased, Ignored, BadAccess, Effective, NothingSet, Payload
<1>4. Completes(c, e, Lost("codec"))
  BY DEF EventsWith, Checked, CheckCodec, Generated, ValueOr, Completes, Filled,
     Lost, NothingSet, Payload
<1>5. ASSUME ~Erased("codec", c) PROVE c \in EventType["codec"] /\ Decided("codec", c)
  <2>1. c \in EventType["codec"]
    BY <1>1, <1>5 DEF EventType, EventsWith, Erased, Triggers
  <2>2. c = CheckCodec(e, draw)
    BY <1>2, <1>5 DEF Checked, Erased, NothingSet, Payload
  <2>3. /\ c.continue_ssrc = FALSE => c.ssrc_to_continue # NONE
        /\ c.continue_seq = FALSE => c.seq_to_continue # NONE
        /\ c.continue_timestamp = FALSE => c.timestamp_to_continue # NONE
        /\ c.continue_ssrc # NONE
        /\ c.continue_seq # NONE
        /\ c.continue_timestamp # NONE
    <3>1. /\ c.continue_ssrc = ValueOr(e.continue_ssrc, FALSE)
          /\ c.continue_seq = ValueOr(e.continue_seq, FALSE)
          /\ c.continue_timestamp = ValueOr(e.continue_timestamp, FALSE)
      BY <2>2 DEF CheckCodec, EventsWith
    <3>2. /\ e.continue_ssrc \in Option(BOOLEAN)
          /\ e.continue_seq \in Option(BOOLEAN)
          /\ e.continue_timestamp \in Option(BOOLEAN)
      BY DEF EventsWith
    <3>3. /\ c.continue_ssrc \in BOOLEAN
          /\ c.continue_seq \in BOOLEAN
          /\ c.continue_timestamp \in BOOLEAN
      BY <3>1, <3>2, FlagDecided
    <3>4. /\ c.ssrc_to_continue =
               Generated(c.continue_ssrc, e.ssrc_to_continue, draw.ssrc)
          /\ c.continue_seq = FALSE => c.seq_to_continue = draw.seq
          /\ c.continue_timestamp = FALSE =>
               c.timestamp_to_continue = draw.timestamp
      BY <2>2 DEF CheckCodec, EventsWith
    <3> HIDE DEF c
    <3>5. draw.seq # NONE /\ draw.timestamp # NONE
      BY DrawsAreNumbers, NoneAssumption
    <3>6. c.continue_ssrc = FALSE => c.ssrc_to_continue # NONE
      <4>1. draw.ssrc \in Int
        BY DrawsAreNumbers
      <4> QED BY <3>4, <4>1, GeneratedHasValue
    <3>7. /\ c.continue_ssrc # NONE
          /\ c.continue_seq # NONE
          /\ c.continue_timestamp # NONE
      BY <3>3, NoneAssumption
    <3> QED BY <3>4, <3>5, <3>6, <3>7
  <2>4. Decided("codec", c)
    BY <2>3 DEF Decided, ResetsHaveValue, Resettable
  <2> QED BY <2>1, <2>4
<1> QED BY <1>1, <1>3, <1>4, <1>5 DEF EntryFacts

LEMMA SequenceEntry ==
  ASSUME NEW e \in EventsWith(Nat)["sequence"], NEW draw \in Draws
  PROVE  EntryFacts("sequence", e, Checked("sequence", e, draw))
<1>1. Checked("sequence", e, draw) = e
  BY DEF Checked
<1>2. ~Erased("sequence", e) => e \in EventType["sequence"]
  BY DEF EventType, EventsWith, Erased, Triggers
<1>3. Decided("sequence", e)
  BY DEF Decided, ResetsHaveValue, Resettable
<1> QED
  BY <1>1, <1>2, <1>3 DEF EntryFacts, Erased, Ignored, BadAccess, Effective,
     NothingSet, Payload, Completes

LEMMA PauseEntry ==
  ASSUME NEW e \in EventsWith(Nat)["pause"], NEW draw \in Draws
  PROVE  EntryFacts("pause", e, Checked("pause", e, draw))
<1>1. Checked("pause", e, draw) = e
  BY DEF Checked
<1>2. ~Erased("pause", e) => e \in EventType["pause"]
  BY DEF EventType, EventsWith, Erased, Triggers
<1>3. Decided("pause", e)
  BY DEF Decided, ResetsHaveValue, Resettable
<1> QED
  BY <1>1, <1>2, <1>3 DEF EntryFacts, Erased, Ignored, BadAccess, Effective,
     NothingSet, Payload, Completes

LEMMA TransportEntry ==
  ASSUME NEW e \in EventsWith(Nat)["transport"], NEW draw \in Draws
  PROVE  EntryFacts("transport", e, Checked("transport", e, draw))
<1> DEFINE c == Checked("transport", e, draw)
<1>1. c \in EventsWith(Nat)["transport"]
  BY DEF EventsWith, Checked, CheckTransport, ValueOr, Option
<1>2. /\ c.trigger_value = e.trigger_value
      /\ c.new_dest_ip = e.new_dest_ip
      /\ c.new_dest_port = e.new_dest_port
      /\ c.new_source_port = e.new_source_port
  BY DEF EventsWith, Checked, CheckTransport
<1>3. e.trigger_value # 0 =>
        c.use_random_new_source_port = ValueOr(e.use_random_new_source_port, FALSE)
  BY DEF EventsWith, Checked, CheckTransport
<1>4. e.trigger_value # 0 =>
        /\ c.use_random_new_source_port \in BOOLEAN
        /\ c.use_random_new_source_port = TRUE
             <=> e.use_random_new_source_port = TRUE
  BY <1>3, NoneAssumption DEF ValueOr, EventsWith, Option
<1>5. /\ Erased("transport", c) <=> ~Effective("transport", e)
      /\ Ignored("transport", c) <=> ~Effective("transport", e)
      /\ ~BadAccess("transport", c)
  BY <1>2, <1>4, NoneAssumption DEF Erased, Ignored, BadAccess, Effective,
     NothingSet, Payload
<1>6. Completes(c, e, Lost("transport"))
  BY DEF EventsWith, Checked, CheckTransport, ValueOr, Completes, Filled, Lost
<1>7. ~Erased("transport", c) => c \in EventType["transport"]
  BY <1>1 DEF EventType, EventsWith, Erased, Triggers
<1>8. Decided("transport", c)
  BY DEF Decided, ResetsHaveValue, Resettable
<1> QED BY <1>1, <1>5, <1>6, <1>7, <1>8 DEF EntryFacts

LEMMA CheckedEntry ==
  ASSUME NEW k \in Kinds, NEW e \in EventsWith(Nat)[k], NEW draw \in Draws
  PROVE  EntryFacts(k, e, Checked(k, e, draw))
BY SsrcEntry, TimestampEntry, CodecEntry, SequenceEntry, PauseEntry,
   TransportEntry DEF Kinds
-------------------------------------------------------------------------------
(* The invariant.                                                          *)

Rank ==
  [parse |-> 0, unparsed |-> 0, defaults |-> 1, basics |-> 2,
   ssrc |-> 3, timestamp |-> 4, codec |-> 5, sequence |-> 6, pause |-> 7,
   transport |-> 8, verdict |-> 9, accepted |-> 10, rejected |-> 10]

LEMMA RankFacts ==
  ASSUME NEW k \in Kinds
  PROVE  /\ Rank[k] \in 3 .. 8
         /\ NextCheck[k] \in Stages
         /\ NextCheck[k] \notin {"accepted", "rejected", "bad_access", "parse",
                                 "unparsed", "defaults", "basics"}
         /\ Rank[NextCheck[k]] = Rank[k] + 1
         /\ \A j \in Kinds : Rank[j] = Rank[k] => j = k
BY DEF Kinds, Rank, NextCheck, Stages

\* The options once apply_defaults has run, dest_ip and dest_port excepted.
Defaulted(o) ==
  /\ o.source_port \in UInt16
  /\ o.ptime_in_packet \in UInt8
  /\ o.ptime_btw_packet \in UInt8
  /\ o.start_ssrc \in UInt32
  /\ o.start_timestamp \in Timestamps
  /\ o.timestamp_step_size \in UInt32
  /\ o.start_codec \in UInt8
  /\ o.start_clockrate \in UInt16
  /\ o.start_seq \in Seqs
  /\ o.seq_steps \in UInt16
  /\ o.trigger_type \in TriggerTypes

\* The defaults fit their types, and so does the step computed from the two others.
LEMMA DefaultsFit ==
  /\ 30000 \in UInt16 /\ 20 \in UInt8 /\ 1122867 \in UInt32 /\ 0 \in Timestamps
  /\ 8 \in UInt8 /\ 0 \in Seqs /\ 1 \in UInt16 /\ 8000 \in UInt16
BY WidthsAssumption DEF UInt8, UInt16, UInt32, Seqs, Timestamps

LEMMA DefaultStepFits ==
  ASSUME NEW rate \in UInt16, NEW ptime \in UInt8
  PROVE  (rate * ptime) \div 1000 \in UInt32
<1>1. rate \in Nat /\ rate <= 65535 /\ ptime \in Nat /\ ptime <= 255
  BY DEF UInt8, UInt16
<1>2. rate * ptime \in Nat /\ rate * ptime <= 65535 * 255
  BY <1>1
<1>3. ASSUME NEW n \in Nat, n <= 65535 * 255 PROVE n \div 1000 \in UInt32
  BY <1>3 DEF UInt32
<1> QED
  BY <1>2, <1>3

\* The unit of a document that was parsed.
UnitOf(i) == IF i.trigger_unit = "Seconds" THEN "AfterSeconds" ELSE "AfterPackets"

OptionsInv ==
  /\ options \in RawOptions
  /\ options.dest_ip = input.options.dest_ip
  /\ options.dest_port = input.options.dest_port
  /\ Rank[stage] < 2 => options.source_port = input.options.source_port
  /\ Rank[stage] >= 1 => options.dest_ip # NONE
  /\ Rank[stage] >= 1 /\ input.has_changes => options.trigger_type = UnitOf(input)
  /\ ~input.has_changes =>
       options.trigger_type = IF Rank[stage] >= 2 THEN "None" ELSE NONE
  /\ Rank[stage] >= 2 =>
       /\ options.source_port = ValueOr(input.options.source_port, 30000)
       /\ Defaulted(options)

ErrorsInv ==
  /\ Rank[stage] < 3 => errors = {}
  /\ Rank[stage] >= 3 => errors = BasicErrors(options)
  /\ stage = "accepted" => errors = {}
  /\ stage = "rejected" => errors # {}

\* An entry of the document that got past the parser.
Entry(n) == input.changes[n].event

ParsedEvents ==
  \A k \in Kinds : \A n \in DOMAIN ParsedChanges(input)[k] :
    Entry(n) \in EventsWith(Nat)[k]

\* What a check leaves of its vector.
Survivors(k) ==
  LET parsed == DOMAIN ParsedChanges(input)[k] IN
  /\ DOMAIN changes[k] = {n \in parsed : Effective(k, Entry(n))}
  /\ ignored[k] = parsed \ DOMAIN changes[k]
  /\ \A n \in DOMAIN changes[k] :
       /\ changes[k][n] \in EventType[k]
       /\ Decided(k, changes[k][n])
       /\ Completes(changes[k][n], Entry(n), Lost(k))

ChangesInv ==
  /\ DOMAIN changes = Kinds
  /\ DOMAIN ignored = Kinds
  /\ Rank[stage] = 0 => \A k \in Kinds : DOMAIN changes[k] = {}
  /\ Rank[stage] >= 1 => ParsedEvents
  /\ \A k \in Kinds :
       /\ Rank[stage] >= 1 /\ Rank[stage] <= Rank[k] =>
            /\ DOMAIN changes[k] = DOMAIN ParsedChanges(input)[k]
            /\ \A n \in DOMAIN changes[k] : changes[k][n] = Entry(n)
       /\ Rank[stage] > Rank[k] => Survivors(k)

ConfigInv ==
  /\ input \in Inputs
  /\ stage \in Stages \ {"bad_access"}
  /\ OptionsInv
  /\ ErrorsInv
  /\ ChangesInv

LEMMA TriggersAreNumbers ==
  ASSUME NEW k \in Kinds, NEW e \in EventType[k]
  PROVE  e \in EventsWith(Nat)[k]
<1>1. CASE k = "ssrc"
  BY <1>1 DEF EventType, EventsWith, Triggers
<1>2. CASE k = "timestamp"
  BY <1>2 DEF EventType, EventsWith, Triggers
<1>3. CASE k = "codec"
  BY <1>3 DEF EventType, EventsWith, Triggers
<1>4. CASE k = "sequence"
  BY <1>4 DEF EventType, EventsWith, Triggers
<1>5. CASE k = "pause"
  BY <1>5 DEF EventType, EventsWith, Triggers
<1>6. CASE k = "transport"
  BY <1>6 DEF EventType, EventsWith, Triggers
<1> QED BY <1>1, <1>2, <1>3, <1>4, <1>5, <1>6 DEF Kinds

LEMMA TriggerGiven ==
  ASSUME NEW k \in Kinds, NEW e \in EventsWith(Option(Nat))[k],
         e.trigger_value # NONE
  PROVE  e \in EventsWith(Nat)[k]
<1>1. CASE k = "ssrc"
  BY <1>1 DEF EventsWith, Option
<1>2. CASE k = "timestamp"
  BY <1>2 DEF EventsWith, Option
<1>3. CASE k = "codec"
  BY <1>3 DEF EventsWith, Option
<1>4. CASE k = "sequence"
  BY <1>4 DEF EventsWith, Option
<1>5. CASE k = "pause"
  BY <1>5 DEF EventsWith, Option
<1>6. CASE k = "transport"
  BY <1>6 DEF EventsWith, Option
<1> QED BY <1>1, <1>2, <1>3, <1>4, <1>5, <1>6 DEF Kinds

LEMMA ConfigInit_Inv == ConfigInit => ConfigInv
<1> SUFFICES ASSUME ConfigInit PROVE ConfigInv
  OBVIOUS
<1>1. IsInput(input)
  BY InputsAssumption DEF ConfigInit
<1>2. Rank[stage] = 0
  BY DEF ConfigInit, Rank
<1>3. \A k \in Kinds : Rank[k] \in 3 .. 8
  BY RankFacts
<1>4. OptionsInv
  BY <1>1, <1>2 DEF ConfigInit, IsInput, OptionsInv
<1>5. ErrorsInv
  BY <1>2 DEF ConfigInit, ErrorsInv
<1>6. \A k \in Kinds : DOMAIN changes[k] = {}
  BY DEF ConfigInit
<1>7. ChangesInv
  BY <1>2, <1>3, <1>6 DEF ConfigInit, ChangesInv
<1> QED BY <1>4, <1>5, <1>7 DEF ConfigInv, ConfigInit, Stages

LEMMA TakeCommandLine_Inv == ConfigInv /\ TakeCommandLine => ConfigInv'
<1> SUFFICES ASSUME ConfigInv, TakeCommandLine PROVE ConfigInv'
  OBVIOUS
<1>1. IsInput(input) /\ ~input.has_changes /\ input.options.dest_ip # NONE
  BY InputsAssumption DEF ConfigInv, TakeCommandLine, IsInput
<1>2. Rank[stage] = 0 /\ Rank[stage'] = 1
  BY DEF TakeCommandLine, Rank
<1>3. \A k \in Kinds : Rank[k] \in 3 .. 8
  BY RankFacts
<1>4. OptionsInv'
  BY <1>1, <1>2 DEF TakeCommandLine, ConfigInv, OptionsInv
<1>5. ErrorsInv'
  BY <1>2 DEF TakeCommandLine, ConfigInv, ErrorsInv
<1>6. ChangesInv'
  <2>1. \A k \in Kinds : DOMAIN ParsedChanges(input)[k] = {}
    BY <1>1 DEF ParsedChanges
  <2>2. \A k \in Kinds : DOMAIN changes[k] = {}
    BY <1>2 DEF ConfigInv, ChangesInv
  <2>3. UNCHANGED <<input, changes, ignored>>
    BY DEF TakeCommandLine
  <2>4. ParsedEvents'
    BY <2>1, <2>3 DEF ParsedEvents, ParsedChanges
  <2> QED
    BY <1>2, <1>3, <2>1, <2>2, <2>3, <2>4 DEF ConfigInv, ChangesInv, ParsedChanges
<1> QED BY <1>4, <1>5, <1>6 DEF ConfigInv, TakeCommandLine, Stages

LEMMA Parse_Inv == ConfigInv /\ Parse => ConfigInv'
<1> SUFFICES ASSUME ConfigInv, Parse PROVE ConfigInv'
  OBVIOUS
<1>1. IsInput(input) /\ ~Unparsable(input)
  BY InputsAssumption DEF ConfigInv, Parse
<1>2. Rank[stage] = 0 /\ Rank[stage'] = 1
  BY DEF Parse, Rank
<1>3. \A k \in Kinds : Rank[k] \in 3 .. 8
  BY RankFacts
<1>4. OptionsInv'
  <2>1. input.has_changes => TriggerTypeOf(input.trigger_unit) = UnitOf(input)
    BY <1>1, UnitsAssumption DEF Unparsable, TriggerTypeOf, UnitOf, Units, Option
  <2>2. options \in RawOptions
    BY DEF ConfigInv, OptionsInv
  <2>3. /\ options' \in RawOptions
        /\ options'.dest_ip = options.dest_ip
        /\ options'.dest_port = options.dest_port
        /\ options'.source_port = options.source_port
        /\ input.has_changes =>
             options'.trigger_type = TriggerTypeOf(input.trigger_unit)
        /\ ~input.has_changes => options' = options
    BY <2>1, <2>2 DEF Parse, UnitOf, RawOptions, Option, TriggerTypes
  <2>4. options.dest_ip # NONE
    BY <1>1 DEF Unparsable, ConfigInv, OptionsInv
  <2> QED
    BY <1>2, <2>1, <2>3, <2>4 DEF Parse, ConfigInv, OptionsInv
<1>5. ErrorsInv'
  BY <1>2 DEF Parse, ConfigInv, ErrorsInv
<1>6. ChangesInv'
  <2>1. /\ UNCHANGED <<input, ignored>>
        /\ changes' = ParsedChanges(input)
        /\ DOMAIN changes' = Kinds
    BY DEF Parse, ParsedChanges
  <2>2. ParsedEvents
    <3> SUFFICES ASSUME NEW k \in Kinds, NEW n \in DOMAIN ParsedChanges(input)[k]
                 PROVE  Entry(n) \in EventsWith(Nat)[k]
      BY DEF ParsedEvents
    <3>1. /\ n \in DOMAIN input.changes
          /\ input.has_changes
          /\ input.changes[n].type = k
      BY DEF ParsedChanges
    <3>2. /\ Entry(n) \in EventsWith(Option(Nat))[k]
          /\ Entry(n).trigger_value # NONE
      BY <1>1, <3>1 DEF IsInput, EntryOf, Unparsable, Entry
    <3> HIDE DEF Entry
    <3> QED BY <3>2, TriggerGiven
  <2>3. \A k \in Kinds : \A n \in DOMAIN changes'[k] : changes'[k][n] = Entry(n)
    BY <2>1 DEF ParsedChanges, Entry
  <2>4. ParsedEvents'
    BY <2>1, <2>2 DEF ParsedEvents, ParsedChanges, Entry
  <2> QED
    BY <1>2, <1>3, <2>1, <2>3, <2>4 DEF ConfigInv, ChangesInv, ParsedChanges, Entry
<1> QED BY <1>4, <1>5, <1>6 DEF ConfigInv, Parse, Stages

\* A step that moves the stage within the same rank class and leaves the
\* events alone.
LEMMA ChangesUntouched ==
  ASSUME ChangesInv, UNCHANGED <<input, changes, ignored>>,
         Rank[stage] \in 0 .. 10, Rank[stage'] \in 0 .. 10,
         \/ Rank[stage'] = 0 /\ Rank[stage] = 0
         \/ Rank[stage] \in 1 .. 2 /\ Rank[stage'] \in 1 .. 3
         \/ Rank[stage] >= 9 /\ Rank[stage'] >= 9
  PROVE  ChangesInv'
<1>1. \A k \in Kinds : Rank[k] \in 3 .. 8
  BY RankFacts
<1>2. ParsedEvents => ParsedEvents'
  BY DEF ParsedEvents, ParsedChanges, Entry
<1>3. ASSUME NEW k \in Kinds, Survivors(k) PROVE Survivors(k)'
  BY <1>3 DEF Survivors, ParsedChanges, Entry
<1> QED BY <1>1, <1>2, <1>3 DEF ChangesInv, ParsedChanges, Entry

LEMMA ParseThrows_Inv == ConfigInv /\ ParseThrows => ConfigInv'
<1> SUFFICES ASSUME ConfigInv, ParseThrows PROVE ConfigInv'
  OBVIOUS
<1>1. Rank[stage] = 0 /\ Rank[stage'] = 0
  BY DEF ParseThrows, Rank
<1>2. ChangesInv'
  BY <1>1, ChangesUntouched DEF ConfigInv, ParseThrows
<1>3. OptionsInv'
  BY <1>1 DEF ParseThrows, ConfigInv, OptionsInv
<1>4. ErrorsInv'
  BY <1>1 DEF ParseThrows, ConfigInv, ErrorsInv
<1> QED BY <1>2, <1>3, <1>4 DEF ConfigInv, ParseThrows, Stages

LEMMA ApplyDefaults_Inv == ConfigInv /\ ApplyDefaults => ConfigInv'
<1> SUFFICES ASSUME ConfigInv, ApplyDefaults PROVE ConfigInv'
  OBVIOUS
<1>1. Rank[stage] = 1 /\ Rank[stage'] = 2
  BY DEF ApplyDefaults, Rank
<1>2. ChangesInv'
  BY <1>1, ChangesUntouched DEF ConfigInv, ApplyDefaults
<1>3. OptionsInv'
  <2> DEFINE o == WithDefaults(options)
  <2>1. options \in RawOptions
    BY DEF ConfigInv, OptionsInv
  <2>2. /\ o.source_port = ValueOr(options.source_port, 30000)
        /\ o.ptime_in_packet = ValueOr(options.ptime_in_packet, 20)
        /\ o.ptime_btw_packet = ValueOr(options.ptime_btw_packet, 20)
        /\ o.start_ssrc = ValueOr(options.start_ssrc, 1122867)
        /\ o.start_timestamp = ValueOr(options.start_timestamp, 0)
        /\ o.start_codec = ValueOr(options.start_codec, 8)
        /\ o.start_seq = ValueOr(options.start_seq, 0)
        /\ o.seq_steps = ValueOr(options.seq_steps, 1)
        /\ o.start_clockrate = ValueOr(options.start_clockrate, 8000)
        /\ o.trigger_type = ValueOr(options.trigger_type, "None")
        /\ o.dest_ip = options.dest_ip
        /\ o.dest_port = options.dest_port
        /\ o.timestamp_step_size = options.timestamp_step_size
    BY <2>1 DEF WithDefaults, Defaults, RawOptions
  <2>3. o = [dest_ip |-> o.dest_ip, dest_port |-> o.dest_port,
             source_port |-> o.source_port, ptime_in_packet |-> o.ptime_in_packet,
             ptime_btw_packet |-> o.ptime_btw_packet, start_ssrc |-> o.start_ssrc,
             start_timestamp |-> o.start_timestamp,
             timestamp_step_size |-> o.timestamp_step_size,
             start_codec |-> o.start_codec, start_clockrate |-> o.start_clockrate,
             start_seq |-> o.start_seq, seq_steps |-> o.seq_steps,
             trigger_type |-> o.trigger_type]
    BY <2>1 DEF WithDefaults, RawOptions
  <2>4. /\ o.source_port \in UInt16
        /\ o.ptime_in_packet \in UInt8
        /\ o.ptime_btw_packet \in UInt8
        /\ o.start_ssrc \in UInt32
        /\ o.start_timestamp \in Timestamps
        /\ o.start_codec \in UInt8
        /\ o.start_clockrate \in UInt16
        /\ o.start_seq \in Seqs
        /\ o.seq_steps \in UInt16
        /\ o.trigger_type \in TriggerTypes
        /\ o.dest_ip \in Option(Nat) \union {EMPTY}
        /\ o.dest_port \in Option(UInt16)
        /\ o.timestamp_step_size \in Option(UInt32)
    BY <2>1, <2>2, DefaultsFit DEF RawOptions, ValueOr, Option, TriggerTypes
  <2>5. options' = [o EXCEPT !.timestamp_step_size = ValueOr(@, DefaultStep(o))]
    BY DEF ApplyDefaults
  <2> HIDE DEF o
  <2>6. DefaultStep(o) \in UInt32
    BY <2>4, DefaultStepFits DEF DefaultStep
  <2>7. ValueOr(o.timestamp_step_size, DefaultStep(o)) \in UInt32
    BY <2>4, <2>6 DEF ValueOr, Option
  <2>8. options' \in RawOptions /\ Defaulted(options')
    BY <2>3, <2>4, <2>5, <2>7 DEF RawOptions, Defaulted, Option
  <2>9. /\ options'.dest_ip = options.dest_ip
        /\ options'.dest_port = options.dest_port
        /\ options'.source_port = ValueOr(input.options.source_port, 30000)
        /\ options'.trigger_type = ValueOr(options.trigger_type, "None")
    BY <1>1, <2>2, <2>3, <2>5 DEF ConfigInv, OptionsInv
  <2>10. /\ input.has_changes => options'.trigger_type = UnitOf(input)
         /\ ~input.has_changes => options'.trigger_type = "None"
    <3>1. "AfterPackets" # NONE /\ "AfterSeconds" # NONE
      BY NoneAssumption DEF TriggerTypes
    <3> QED BY <1>1, <2>9, <3>1 DEF ConfigInv, OptionsInv, ValueOr, UnitOf
  <2> QED
    BY <1>1, <2>8, <2>9, <2>10 DEF ApplyDefaults, ConfigInv, OptionsInv
<1>4. ErrorsInv'
  BY <1>1 DEF ApplyDefaults, ConfigInv, ErrorsInv
<1> QED BY <1>2, <1>3, <1>4 DEF ConfigInv, ApplyDefaults, Stages

LEMMA ValidateBasics_Inv == ConfigInv /\ ValidateBasics => ConfigInv'
<1> SUFFICES ASSUME ConfigInv, ValidateBasics PROVE ConfigInv'
  OBVIOUS
<1>1. Rank[stage] = 2 /\ Rank[stage'] = 3
  BY DEF ValidateBasics, Rank
<1>2. ChangesInv'
  BY <1>1, ChangesUntouched DEF ConfigInv, ValidateBasics
<1>3. OptionsInv'
  BY <1>1 DEF ValidateBasics, ConfigInv, OptionsInv
<1>4. ErrorsInv'
  BY <1>1 DEF ValidateBasics, ConfigInv, ErrorsInv, BasicErrors
<1> QED BY <1>2, <1>3, <1>4 DEF ConfigInv, ValidateBasics, Stages, Kinds
LEMMA CheckChanges_Inv ==
  ASSUME NEW k \in Kinds
  PROVE  ConfigInv /\ CheckChanges(k) => ConfigInv'
<1> SUFFICES ASSUME ConfigInv, CheckChanges(k) PROVE ConfigInv'
  OBVIOUS
<1> DEFINE V == changes[k]
<1>1. PICK draw \in [DOMAIN V -> Draws] :
        LET checked == [n \in DOMAIN V |-> Checked(k, V[n], draw[n])]
            throws == \E n \in DOMAIN checked : BadAccess(k, checked[n])
        IN /\ stage' = IF throws THEN "bad_access" ELSE NextCheck[k]
           /\ changes' = [changes EXCEPT
                            ![k] = IF throws THEN checked ELSE EraseIf(k, checked)]
           /\ ignored' = [ignored EXCEPT
                            ![k] = {n \in DOMAIN checked : Ignored(k, checked[n])}]
  BY DEF CheckChanges
<1> DEFINE checked == [n \in DOMAIN V |-> Checked(k, V[n], draw[n])]
<1>2. stage = k /\ UNCHANGED <<input, options, errors>>
  BY DEF CheckChanges
<1>3. /\ Rank[stage] = Rank[k]
      /\ \A j \in Kinds : Rank[j] \in 3 .. 8
      /\ \A j \in Kinds : Rank[j] = Rank[k] => j = k
  BY <1>2, RankFacts
<1>4. /\ DOMAIN V = DOMAIN ParsedChanges(input)[k]
      /\ \A n \in DOMAIN V : V[n] = Entry(n) /\ V[n] \in EventsWith(Nat)[k]
  BY <1>3 DEF ConfigInv, ChangesInv, ParsedEvents
<1>5. \A n \in DOMAIN V : EntryFacts(k, Entry(n), checked[n])
  <2> TAKE n \in DOMAIN V
  <2>1. draw[n] \in Draws
    BY <1>1
  <2>2. EntryFacts(k, V[n], Checked(k, V[n], draw[n]))
    BY <1>4, <2>1, CheckedEntry
  <2> QED BY <1>4, <2>2
<1> HIDE DEF V
<1>6. DOMAIN checked = DOMAIN V
  OBVIOUS
<1>7. /\ stage' = NextCheck[k]
      /\ changes' = [changes EXCEPT ![k] = EraseIf(k, checked)]
      /\ ignored' = [ignored EXCEPT
                       ![k] = {n \in DOMAIN V : Ignored(k, checked[n])}]
  <2>1. \A n \in DOMAIN checked : ~BadAccess(k, checked[n])
    BY <1>5, <1>6 DEF EntryFacts
  <2> QED BY <1>1, <1>6, <2>1
<1> HIDE DEF checked
<1>8. Rank[stage'] = Rank[k] + 1 /\ stage' \in Stages
  BY <1>7, RankFacts
<1>9. stage' \notin {"accepted", "rejected", "bad_access"}
  BY <1>7, RankFacts
<1>10. OptionsInv'
  BY <1>2, <1>3, <1>8 DEF ConfigInv, OptionsInv
<1>11. ErrorsInv'
  <2>1. Rank[stage] >= 3 /\ Rank[stage'] >= 3
    BY <1>3, <1>8
  <2>2. errors = BasicErrors(options)
    BY <2>1 DEF ConfigInv, ErrorsInv
  <2>3. errors' = BasicErrors(options')
    BY <1>2, <2>2
  <2>4. ~(Rank[stage'] < 3)
    BY <1>3, <1>8
  <2> QED BY <1>9, <2>3, <2>4 DEF ErrorsInv
<1>12. Survivors(k)'
  <2>1. DOMAIN changes = Kinds /\ DOMAIN ignored = Kinds
    BY DEF ConfigInv, ChangesInv
  <2>2. /\ DOMAIN changes'[k] = {n \in DOMAIN V : Effective(k, Entry(n))}
        /\ \A n \in DOMAIN changes'[k] : /\ changes'[k][n] = checked[n]
                                         /\ ~Erased(k, checked[n])
    BY <1>5, <1>6, <1>7, <2>1 DEF EraseIf, Restrict, EntryFacts
  <2>3. ignored'[k] = {n \in DOMAIN V : ~Effective(k, Entry(n))}
    BY <1>5, <1>7, <2>1 DEF EntryFacts
  <2>4. ParsedChanges(input)' = ParsedChanges(input)
    BY <1>2 DEF ParsedChanges
  <2>5. \A n : Entry(n)' = Entry(n)
    BY <1>2 DEF Entry
  <2>6. \A n \in DOMAIN changes'[k] :
          /\ changes'[k][n] \in EventType[k]
          /\ Decided(k, changes'[k][n])
          /\ Completes(changes'[k][n], Entry(n), Lost(k))
    BY <1>5, <2>2 DEF EntryFacts
  <2>7. ignored'[k] = DOMAIN ParsedChanges(input)[k] \ DOMAIN changes'[k]
    BY <1>4, <2>2, <2>3
  <2> HIDE DEF Entry
  <2> QED BY <1>4, <2>2, <2>4, <2>5, <2>6, <2>7 DEF Survivors
<1>13. \A j \in Kinds : j # k => /\ changes'[j] = changes[j]
                              /\ ignored'[j] = ignored[j]
  BY <1>7 DEF ConfigInv, ChangesInv
<1>14. ChangesInv'
  <2>1. DOMAIN changes' = Kinds /\ DOMAIN ignored' = Kinds
    BY <1>7 DEF ConfigInv, ChangesInv
  <2>2. Rank[stage'] >= 1 /\ ParsedEvents'
    BY <1>2, <1>3, <1>8 DEF ConfigInv, ChangesInv, ParsedEvents, ParsedChanges,
       Entry
  <2>3. ASSUME NEW j \in Kinds, Rank[stage'] <= Rank[j]
        PROVE  /\ DOMAIN changes'[j] = DOMAIN ParsedChanges(input)'[j]
               /\ \A n \in DOMAIN changes'[j] : changes'[j][n] = Entry(n)'
    <3>1. j # k /\ Rank[stage] >= 1 /\ Rank[stage] <= Rank[j]
      BY <1>3, <1>8, <2>3
    <3> QED
      BY <1>2, <1>13, <3>1 DEF ConfigInv, ChangesInv, ParsedChanges, Entry
  <2>4. ASSUME NEW j \in Kinds, Rank[stage'] > Rank[j], j # k
        PROVE  Survivors(j)'
    <3>1. Rank[stage] > Rank[j]
      BY <1>3, <1>8, <2>4
    <3>2. Survivors(j)
      BY <3>1 DEF ConfigInv, ChangesInv
    <3> QED BY <1>2, <1>13, <2>4, <3>2 DEF Survivors, ParsedChanges, Entry
  <2> QED BY <1>12, <2>1, <2>2, <2>3, <2>4 DEF ChangesInv
<1> QED BY <1>2, <1>8, <1>9, <1>10, <1>11, <1>14 DEF ConfigInv

LEMMA Verdict_Inv == ConfigInv /\ (Accept \/ Reject) => ConfigInv'
<1> SUFFICES ASSUME ConfigInv, Accept \/ Reject PROVE ConfigInv'
  OBVIOUS
<1>1. /\ Rank[stage] = 9 /\ Rank[stage'] = 10
      /\ stage' \in Stages \ {"bad_access"}
      /\ UNCHANGED <<input, options, changes, errors, ignored>>
  BY DEF Accept, Reject, Rank, Stages
<1>2. ChangesInv'
  BY <1>1, ChangesUntouched DEF ConfigInv
<1>3. OptionsInv'
  BY <1>1 DEF ConfigInv, OptionsInv
<1>4. /\ stage' = "accepted" => errors = {}
      /\ stage' = "rejected" => errors # {}
  BY DEF Accept, Reject
<1>5. ErrorsInv'
  BY <1>1, <1>4 DEF ConfigInv, ErrorsInv, BasicErrors
<1> QED BY <1>1, <1>2, <1>3, <1>5 DEF ConfigInv

LEMMA ConfigInvariant == ConfigSpec => []ConfigInv
<1>1. ConfigInit => ConfigInv
  BY ConfigInit_Inv
<1>2. ConfigInv /\ [ConfigNext]_configVars => ConfigInv'
  <2> SUFFICES ASSUME ConfigInv, [ConfigNext]_configVars PROVE ConfigInv'
    OBVIOUS
  <2>1. CASE TakeCommandLine
    BY <2>1, TakeCommandLine_Inv
  <2>2. CASE Parse
    BY <2>2, Parse_Inv
  <2>3. CASE ParseThrows
    BY <2>3, ParseThrows_Inv
  <2>4. CASE ApplyDefaults
    BY <2>4, ApplyDefaults_Inv
  <2>5. CASE ValidateBasics
    BY <2>5, ValidateBasics_Inv
  <2>6. ASSUME NEW k \in Kinds, CheckChanges(k) PROVE ConfigInv'
    BY <2>6, CheckChanges_Inv
  <2>7. CASE Accept \/ Reject
    BY <2>7, Verdict_Inv
  <2>8. CASE UNCHANGED configVars
    BY <2>8 DEF configVars, ConfigInv, OptionsInv, ErrorsInv, ChangesInv,
       ParsedEvents, Survivors, ParsedChanges, Entry, BasicErrors
  <2> QED
    BY <2>1, <2>2, <2>3, <2>4, <2>5, <2>6, <2>7, <2>8 DEF ConfigNext
<1> QED BY <1>1, <1>2, PTL DEF ConfigSpec

-------------------------------------------------------------------------------
(* The theorems.                                                           *)

\* The options and the vectors of change events keep their types on every
\* way through the parser and the validator.
THEOREM ConfigTypeCorrect == ConfigSpec => []ConfigTypeOK
<1>1. ConfigInv => ConfigTypeOK
  <2> SUFFICES ASSUME ConfigInv PROVE ConfigTypeOK
    OBVIOUS
  <2>1. Rank[stage] \in 0 .. 10
    BY DEF ConfigInv, Stages, Rank, Kinds
  <2>2. \A k \in Kinds : Rank[k] \in 3 .. 8
    BY RankFacts
  <2>3. ASSUME NEW k \in Kinds, NEW n \in DOMAIN changes[k]
        PROVE  changes[k][n] \in EventsWith(Nat)[k]
    <3>1. CASE Rank[stage] = 0
      BY <2>2, <2>3, <3>1 DEF ConfigInv, ChangesInv
    <3>2. CASE Rank[stage] >= 1 /\ Rank[stage] <= Rank[k]
      BY <2>3, <3>2 DEF ConfigInv, ChangesInv, ParsedEvents
    <3>3. CASE Rank[stage] > Rank[k]
      <4>1. changes[k][n] \in EventType[k]
        BY <2>3, <3>3 DEF ConfigInv, ChangesInv, Survivors
      <4> QED BY <4>1, TriggersAreNumbers
    <3> QED BY <2>1, <2>2, <3>1, <3>2, <3>3
  <2>4. errors \subseteq {"dest_ip", "no_dest_port", "dest_port", "source_port"}
    BY <2>1 DEF ConfigInv, ErrorsInv, BasicErrors
  <2> QED
    BY <2>3, <2>4, InputsAssumption DEF ConfigInv, ConfigTypeOK, OptionsInv,
       ChangesInv
<1> QED BY <1>1, ConfigInvariant, PTL

\* No erase_if reads an empty optional (StreamOptionValidator.cpp:188-194).
THEOREM ValidatorNeverThrows == ConfigSpec => []NoBadAccess
<1>1. ConfigInv => NoBadAccess
  BY DEF ConfigInv, NoBadAccess
<1> QED BY <1>1, ConfigInvariant, PTL

\* An accepted configuration has the unit of its document, and None without changes.
THEOREM AcceptedUnitIsTheUsers == ConfigSpec => []UnitIsTheUsers
<1>1. ConfigInv => UnitIsTheUsers
  BY DEF ConfigInv, OptionsInv, UnitIsTheUsers, UnitOf, Rank
<1> QED BY <1>1, ConfigInvariant, PTL

\* The send loop never reads a value that a reset lacks.
THEOREM AcceptedResetsAreComplete == ConfigSpec => []ResetsAreComplete
<1>1. ConfigInv => ResetsAreComplete
  <2> SUFFICES ASSUME ConfigInv, stage = "accepted",
                      NEW k \in Kinds, NEW n \in DOMAIN changes[k]
               PROVE  Decided(k, changes[k][n])
    BY DEF ResetsAreComplete, Decided
  <2>1. Rank[stage] = 10 /\ Rank[k] \in 3 .. 8
    BY RankFacts DEF Rank
  <2> QED BY <2>1 DEF ConfigInv, ChangesInv, Survivors
<1> QED BY <1>1, ConfigInvariant, PTL

\* Loop and erase_if agree on every entry of every kind.
THEOREM EveryDropIsWarned == ConfigSpec => []DroppedIsWarned
<1>1. ConfigInv => DroppedIsWarned
  <2> SUFFICES ASSUME ConfigInv, stage = "accepted", NEW k \in Kinds
               PROVE  LET parsed == DOMAIN ParsedChanges(input)[k] IN
                      /\ DOMAIN changes[k] =
                           {n \in parsed : Effective(k, input.changes[n].event)}
                      /\ ignored[k] = parsed \ DOMAIN changes[k]
    BY DEF DroppedIsWarned
  <2>1. Rank[stage] = 10 /\ Rank[k] \in 3 .. 8
    BY RankFacts DEF Rank
  <2> QED BY <2>1 DEF ConfigInv, ChangesInv, Survivors, Entry
<1> QED BY <1>1, ConfigInvariant, PTL

\* From the document to the engine nothing the user set is replaced, the
\* starting values of a codec change excepted.
THEOREM UserValuesSurvive == ConfigSpec => []GivenValuesKept
<1>1. ConfigInv => GivenValuesKept
  <2> SUFFICES ASSUME ConfigInv, NEW k \in Kinds, NEW n \in DOMAIN changes[k]
               PROVE  Completes(changes[k][n], Entry(n), Lost(k))
    BY DEF GivenValuesKept, Entry
  <2>1. Rank[stage] \in 0 .. 10 /\ Rank[k] \in 3 .. 8
    BY RankFacts DEF ConfigInv, Stages, Rank, Kinds
  <2>2. CASE Rank[stage] = 0
    BY <2>2 DEF ConfigInv, ChangesInv
  <2>3. CASE Rank[stage] >= 1 /\ Rank[stage] <= Rank[k]
    BY <2>3 DEF ConfigInv, ChangesInv, Completes
  <2>4. CASE Rank[stage] > Rank[k]
    BY <2>4 DEF ConfigInv, ChangesInv, Survivors
  <2> QED BY <2>1, <2>2, <2>3, <2>4
<1> QED BY <1>1, ConfigInvariant, PTL

\* The verdict depends on the addresses the user gave and on nothing else.
THEOREM VerdictIsTheInputs == ConfigSpec => []VerdictFollowsInput
<1>1. ConfigInv => VerdictFollowsInput
  <2> SUFFICES ASSUME ConfigInv PROVE VerdictFollowsInput
    OBVIOUS
  <2> DEFINE o == input.options
  <2>1. o.dest_port \in Option(UInt16) /\ o.source_port \in Option(UInt16)
    BY InputsAssumption DEF ConfigInv, IsInput, RawOptions
  <2>2. ASSUME stage \in {"accepted", "rejected"}
        PROVE  /\ errors = BasicErrors(options)
               /\ options.dest_ip = o.dest_ip /\ o.dest_ip # NONE
               /\ options.dest_port = o.dest_port
               /\ options.source_port = ValueOr(o.source_port, 30000)
    <3>1. Rank[stage] = 10
      BY <2>2 DEF Rank
    <3> QED BY <3>1 DEF ConfigInv, OptionsInv, ErrorsInv
  <2> HIDE DEF o
  <2>3. ASSUME stage = "accepted"
        PROVE  /\ o.dest_ip \notin {NONE, EMPTY}
               /\ o.dest_port \notin 0 .. 1024 \union {NONE}
               /\ o.source_port \notin 0 .. 1024
    <3>1. BasicErrors(options) = {}
      BY <2>2, <2>3 DEF ConfigInv, ErrorsInv
    <3>2. /\ options.dest_ip # EMPTY
          /\ options.dest_port # NONE
          /\ ~(options.dest_port <= 1024)
          /\ options.source_port = NONE \/ ~(options.source_port <= 1024)
      BY <3>1 DEF BasicErrors
    <3>3. NONE \notin 0 .. 1024
      BY NoneAssumption
    <3>4. o.dest_ip \notin {NONE, EMPTY}
      BY <2>2, <2>3, <3>2
    <3>5. o.dest_port \notin 0 .. 1024 \union {NONE}
      BY <2>1, <2>2, <2>3, <3>2 DEF Option
    <3>6. o.source_port \notin 0 .. 1024
      <4>1. CASE o.source_port = NONE
        BY <3>3, <4>1
      <4>2. CASE o.source_port # NONE
        <5>1. options.source_port = o.source_port
          BY <2>2, <2>3, <4>2 DEF ValueOr
        <5> QED BY <2>1, <3>2, <4>2, <5>1 DEF Option
      <4> QED BY <4>1, <4>2
    <3> QED BY <3>4, <3>5, <3>6
  <2>4. ASSUME stage = "rejected"
        PROVE  ~(/\ o.dest_ip \notin {NONE, EMPTY}
                 /\ o.dest_port \notin 0 .. 1024 \union {NONE}
                 /\ o.source_port \notin 0 .. 1024)
    <3>1. BasicErrors(options) # {}
      BY <2>2, <2>4 DEF ConfigInv, ErrorsInv
    <3>2. \/ options.dest_ip = EMPTY
          \/ options.dest_port = NONE
          \/ options.dest_port # NONE /\ options.dest_port <= 1024
          \/ options.source_port # NONE /\ options.source_port <= 1024
      BY <3>1 DEF BasicErrors
    <3>3. /\ options.dest_ip = o.dest_ip
          /\ options.dest_port = o.dest_port
          /\ options.source_port = ValueOr(o.source_port, 30000)
      BY <2>2, <2>4
    <3>4. CASE options.dest_ip = EMPTY
      BY <3>3, <3>4
    <3>5. CASE options.dest_port = NONE
      BY <3>3, <3>5
    <3>6. CASE options.dest_port # NONE /\ options.dest_port <= 1024
      <4>1. o.dest_port \in 0 .. 1024
        BY <2>1, <3>3, <3>6 DEF Option, UInt16
      <4> QED BY <4>1
    <3>7. CASE options.source_port # NONE /\ options.source_port <= 1024
      <4>1. o.source_port = NONE => ~(30000 <= 1024) /\ options.source_port = 30000
        BY <3>3 DEF ValueOr
      <4>2. o.source_port # NONE => options.source_port = o.source_port
        BY <3>3 DEF ValueOr
      <4>3. o.source_port \in 0 .. 1024
        BY <2>1, <3>7, <4>1, <4>2 DEF Option, UInt16
      <4> QED BY <4>3
    <3> QED BY <3>2, <3>4, <3>5, <3>6, <3>7
  <2> QED BY <2>3, <2>4 DEF VerdictFollowsInput, o
<1> QED BY <1>1, ConfigInvariant, PTL

-------------------------------------------------------------------------------
(* The handover to the engine: what is left of a vector can be renumbered.  *)

LEMMA LeastNat ==
  ASSUME NEW T, T \subseteq Nat, T # {}
  PROVE  \E x \in T : \A y \in T : x <= y
<1>1. PICK x \in T : \A y \in T : ~(<<y, x>> \in OpToRel(<, Nat))
  BY NatLessThanWellFounded, WFMin
<1>2. \A y \in T : ~(y < x)
  BY <1>1 DEF OpToRel
<1> QED
  BY <1>2

\* s lists D from the least of its elements to the greatest.
Lists(s, D) ==
  /\ s \in [1 .. Cardinality(D) -> D]
  /\ \A m, n \in 1 .. Cardinality(D) : m < n => s[m] < s[n]

\* A set that is listed but for its least element.
LEMMA ListOneMore ==
  ASSUME NEW D, D \subseteq Nat, IsFiniteSet(D),
         NEW x \in D, \A y \in D : x <= y,
         NEW s, Lists(s, D \ {x})
  PROVE  \E t : Lists(t, D)
<1> DEFINE c == Cardinality(D)
           t == [i \in 1 .. c |-> IF i = 1 THEN x ELSE s[i - 1]]
<1>1. c \in Nat /\ Cardinality(D \ {x}) = c - 1
  BY FS_CardinalityType, FS_RemoveElement
<1>2. c # 0
  BY FS_EmptySet
<1> HIDE DEF c
<1>3. \A i \in 1 .. c : i # 1 => /\ i - 1 \in 1 .. c - 1
                                 /\ s[i - 1] \in D /\ s[i - 1] # x
  <2>1. s \in [1 .. c - 1 -> D \ {x}]
    BY <1>1 DEF Lists
  <2>2. ASSUME NEW i \in 1 .. c, i # 1 PROVE i - 1 \in 1 .. c - 1
    BY <1>1, <2>2
  <2> QED BY <2>1, <2>2
<1>4. t \in [1 .. c -> D]
  BY <1>3
<1>5. ASSUME NEW m \in 1 .. c, NEW n \in 1 .. c, m < n
      PROVE  t[m] < t[n]
  <2>1. n # 1
    BY <1>5
  <2>2. CASE m = 1
    <3>1. s[n - 1] \in D /\ s[n - 1] # x /\ x <= s[n - 1]
      BY <1>3, <2>1
    <3>2. s[n - 1] \in Nat /\ x \in Nat
      BY <3>1
    <3>3. x < s[n - 1]
      BY <3>1, <3>2
    <3> QED
      BY <2>1, <2>2, <3>3
  <2>3. CASE m # 1
    <3>1. m - 1 \in 1 .. c - 1 /\ n - 1 \in 1 .. c - 1 /\ m - 1 < n - 1
      BY <1>3, <1>5, <2>1, <2>3, <1>1
    <3>2. s[m - 1] < s[n - 1]
      BY <1>1, <3>1 DEF Lists
    <3> QED
      BY <2>1, <2>3, <3>2
  <2> QED
    BY <2>2, <2>3
<1> HIDE DEF t
<1> QED
  BY <1>4, <1>5 DEF Lists, c

\* A finite set of positions can be listed; by the least size of one that
\* cannot.
LEMMA ListExists ==
  ASSUME NEW D, D \subseteq Nat, IsFiniteSet(D)
  PROVE  \E s : Lists(s, D)
<1> DEFINE Finite == {T \in SUBSET Nat : IsFiniteSet(T)}
           Without == {c \in Nat : \E T \in Finite :
                         Cardinality(T) = c /\ \A s : ~Lists(s, T)}
<1>1. Without = {}
  <2> SUFFICES ASSUME Without # {} PROVE FALSE
    OBVIOUS
  <2>1. Without \subseteq Nat
    OBVIOUS
  <2>2. PICK c \in Without : \A d \in Without : c <= d
    <3> HIDE DEF Without
    <3> QED BY <2>1, LeastNat
  <2>3. PICK T \in Finite : Cardinality(T) = c /\ \A s : ~Lists(s, T)
    BY <2>2
  <2>4. T # {}
    <3> SUFFICES ASSUME T = {} PROVE FALSE
      OBVIOUS
    <3>1. c = 0
      BY <2>3, FS_EmptySet
    <3>2. Lists([i \in 1 .. 0 |-> 0], T)
      BY <2>3, <3>1 DEF Lists
    <3> QED BY <2>3, <3>2
  <2>5. PICK x \in T : \A y \in T : x <= y
    BY <2>4, LeastNat
  <2>6. /\ T \ {x} \in Finite
        /\ Cardinality(T \ {x}) = c - 1
        /\ c - 1 \in Nat /\ ~(c <= c - 1)
    <3>1. IsFiniteSet(T) /\ x \in T /\ T \in SUBSET Nat
      BY <2>3, <2>5
    <3>2. IsFiniteSet(T \ {x}) /\ Cardinality(T \ {x}) = c - 1
      BY <2>3, <3>1, FS_RemoveElement
    <3>3. Cardinality(T \ {x}) \in Nat
      BY <3>2, FS_CardinalityType
    <3>4. c \in Nat
      BY <2>2
    <3> QED BY <3>1, <3>2, <3>3, <3>4
  <2>7. c - 1 \notin Without
    BY <2>2, <2>6
  <2>8. PICK s : Lists(s, T \ {x})
    BY <2>6, <2>7
  <2>9. \E t : Lists(t, T)
    BY <2>3, <2>5, <2>8, ListOneMore
  <2> QED BY <2>3, <2>9
<1>2. Cardinality(D) \notin Without /\ Cardinality(D) \in Nat
  BY <1>1, FS_CardinalityType
<1> QED BY <1>2

LEMMA InOrderLists ==
  ASSUME NEW D, D \subseteq Nat, IsFiniteSet(D)
  PROVE  Lists(InOrder(D), D)
<1>1. PICK s : Lists(s, D)
  BY ListExists
<1>2. \E t \in [1 .. Cardinality(D) -> D] :
        \A m, n \in 1 .. Cardinality(D) : m < n => t[m] < t[n]
  BY <1>1 DEF Lists
<1> QED BY <1>2 DEF Lists, InOrder

\* The entries of a vector that is accepted, renumbered in their order.
LEMMA RenumberedVector ==
  ASSUME NEW v, DOMAIN v \subseteq Nat, IsFiniteSet(DOMAIN v),
         NEW S, \A n \in DOMAIN v : v[n] \in S,
         NEW order, order = InOrder(DOMAIN v),
         NEW w, w = [n \in DOMAIN order |-> v[order[n]]]
  PROVE  /\ w \in Seq(S)
         /\ \A n \in DOMAIN w : \E m \in DOMAIN v : w[n] = v[m]
<1> DEFINE D == DOMAIN v
           c == Cardinality(D)
<1>1. c \in Nat
  BY FS_CardinalityType
<1>2. order \in [1 .. c -> D]
  BY InOrderLists DEF Lists
<1> HIDE DEF c
<1>3. \A n \in 1 .. c : order[n] \in D
  BY <1>2
<1>4. w \in [1 .. c -> S]
  BY <1>2, <1>3
<1>5. w \in Seq(S)
  BY <1>1, <1>4
<1>6. \A n \in DOMAIN w : w[n] = v[order[n]] /\ order[n] \in DOMAIN v
  BY <1>2, <1>3
<1> QED BY <1>5, <1>6

\* An accepted configuration is what the engine assumes of its scenario
\* (StreamOptionValidator.cpp:8-195, ScenarioEngine.cpp:122-170): every option
\* has a value, every vector is a sequence of events that have a trigger, and
\* no reset lacks the value that apply() reads.
THEOREM AcceptedIsWhatTheEngineAssumes == ConfigSpec => []AcceptedIsScenario
<1>1. ConfigInv => AcceptedIsScenario
  <2> SUFFICES ASSUME ConfigInv, stage = "accepted" PROVE IsScenario(Handover)
    BY DEF AcceptedIsScenario
  <2>1. Rank[stage] = 10
    BY DEF Rank
  <2>2. Defaulted(options) /\ options \in RawOptions /\ options.dest_ip # NONE
    BY <2>1 DEF ConfigInv, OptionsInv
  <2>3. BasicErrors(options) = {}
    BY <2>1 DEF ConfigInv, ErrorsInv
  <2>4. options.dest_ip # EMPTY /\ options.dest_port # NONE
    BY <2>3 DEF BasicErrors
  <2>5. OptionsComplete(options)
    BY <2>2, <2>4 DEF OptionsComplete, Defaulted, RawOptions, Option
  <2>6. \A f \in DOMAIN options : f # "changes" => Handover[f] = options[f]
    BY DEF Handover
  <2>7. OptionsComplete(Handover)
    BY <2>2, <2>5, <2>6 DEF OptionsComplete, RawOptions
  <2>8. ASSUME NEW k \in Kinds
        PROVE  /\ Handover.changes[k] \in Seq(EventType[k])
               /\ \A n \in DOMAIN Handover.changes[k] :
                    ResetsHaveValue(k, Handover.changes[k][n])
    <3> DEFINE v == changes[k]
    <3>1. Rank[k] \in 3 .. 8
      BY RankFacts
    <3>2. Survivors(k)
      BY <2>1, <3>1 DEF ConfigInv, ChangesInv
    <3>3. \A n \in DOMAIN v : v[n] \in EventType[k] /\ ResetsHaveValue(k, v[n])
      BY <3>2 DEF Survivors, Decided
    <3>4. /\ DOMAIN v \subseteq DOMAIN input.changes
          /\ DOMAIN input.changes \subseteq Nat
          /\ IsFiniteSet(DOMAIN input.changes)
      BY <3>2, InputsAssumption DEF ConfigInv, Survivors, ParsedChanges, IsInput
    <3>5. DOMAIN v \subseteq Nat /\ IsFiniteSet(DOMAIN v)
      BY <3>4, FS_Subset
    <3> DEFINE order == InOrder(DOMAIN v)
               w == Handover.changes[k]
               E == EventType[k]
    <3>6. w = [n \in DOMAIN order |-> v[order[n]]]
      BY DEF Handover
    <3>7. \A n \in DOMAIN v : v[n] \in E
      BY <3>3
    <3> HIDE DEF v, w, order, E
    <3>8. /\ w \in Seq(E)
          /\ \A n \in DOMAIN w : \E m \in DOMAIN v : w[n] = v[m]
      <4>1. order = InOrder(DOMAIN v)
        BY DEF order
      <4> QED BY <3>5, <3>6, <3>7, <4>1, RenumberedVector, Z3
    <3>9. \A n \in DOMAIN w : ResetsHaveValue(k, w[n])
      BY <3>3, <3>8
    <3> QED BY <3>8, <3>9 DEF w, E
  <2> QED BY <2>7, <2>8 DEF IsScenario
<1> QED BY <1>1, ConfigInvariant, PTL
===============================================================================
