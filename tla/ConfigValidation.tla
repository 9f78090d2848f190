--------------------------- MODULE ConfigValidation ---------------------------
(***************************************************************************)
(* From raw input to the options of a stream: RtpEngine::parse_opts and    *)
(* validate_or_throw, YamlParser, StreamOptionValidator.                   *)
(*                                                                         *)
(* A vector of change events is the function from the positions its        *)
(* entries had in the document; erasing restricts it and keeps the order.  *)
(* A key of the YAML document is named like the option it sets.            *)
(***************************************************************************)
EXTENDS StreamOptions, Functions, SequencesExt

CONSTANTS
  Inputs,  \* command lines, files and editor contents
  EMPTY,   \* the empty string, as dest_ip
  Ssrcs    \* 0 .. 2^32 - 1 in the code: what generate_ssrc() returns

VARIABLES
  input,    \* raw_opts and what it refers to
  stage,    \* where the construction of the RtpEngine is
  options,  \* the StreamOptions, its change events excepted
  changes,  \* its vectors of change events
  errors,   \* ValidationResult.errors
  ignored   \* entries with a warning "Event will be ignored"

configVars == <<input, stage, options, changes, errors, ignored>>

-------------------------------------------------------------------------------
(* Inputs.                                                                 *)

\* The options before the validator has completed them.
RawOptions ==
  [dest_ip : Option(Nat) \union {EMPTY}, dest_port : Option(UInt16),
   source_port : Option(UInt16), ptime_in_packet : Option(UInt8),
   ptime_btw_packet : Option(UInt8), start_ssrc : Option(UInt32),
   start_timestamp : Option(Timestamps), timestamp_step_size : Option(UInt32),
   start_codec : Option(UInt8), start_clockrate : Option(UInt16),
   start_seq : Option(Seqs), seq_steps : Option(UInt16),
   trigger_type : Option(TriggerTypes)]

\* A change event of the document; its trigger value may be missing.
EntryOf(k) == [type : {k}, event : EventsWith(Option(Nat))[k]]

\* A document has values, a trigger unit, and maybe a list of changes; it is
\* well formed if yaml-cpp loads it and every value the parser asks for fits its
\* type. The command line sets the addresses; its dest_ip is empty if not given.
IsInput(i) ==
  /\ i.from \in {"command_line", "content", "file"}
  /\ i.readable \in BOOLEAN
  /\ i.well_formed \in BOOLEAN
  /\ i.options \in RawOptions
  /\ i.options.trigger_type = NONE
  /\ i.trigger_unit \in Option(STRING)
  /\ i.has_changes \in BOOLEAN
  /\ i.from = "command_line" => i.options.dest_ip # NONE /\ ~i.has_changes
  /\ DOMAIN i.changes \subseteq Nat /\ IsFiniteSet(DOMAIN i.changes)
  /\ \A n \in DOMAIN i.changes :
       \/ i.changes[n].type \notin Kinds
       \/ \E k \in Kinds : i.changes[n] \in EntryOf(k)

ASSUME InputsAssumption == \A i \in Inputs : IsInput(i)

ASSUME SsrcsAssumption == Ssrcs \subseteq UInt32 /\ Ssrcs # {}

\* The order of the checks in validate_scenarios.
NextCheck ==
  [ssrc |-> "timestamp", timestamp |-> "codec", codec |-> "sequence",
   sequence |-> "pause", pause |-> "transport", transport |-> "verdict"]

Stages ==
  {"parse", "defaults", "basics", "verdict",
   "accepted", "rejected", "unparsed", "bad_access"} \union Kinds

ConfigInit ==
  /\ input \in Inputs
  /\ stage = "parse"
  /\ options = input.options
  /\ changes = [k \in Kinds |-> << >>]
  /\ errors = {}
  /\ ignored = [k \in Kinds |-> {}]

-------------------------------------------------------------------------------
(* parse_opts, YamlParser                                                  *)

\* The unit is missing and stays unset, for apply_defaults to fill in.
TriggerTypeOfUnset(unit) ==
  CASE unit = "Packets" -> "AfterPackets"
    [] unit = "Seconds" -> "AfterSeconds"
    [] OTHER            -> NONE

\* The string is taken as it is.
TriggerTypeOfVerbatim(unit) == ValueOr(unit, "AfterPackets")

TriggerTypeOf(unit) ==
  CASE unit = "Packets" -> "AfterPackets"
    [] unit = "Seconds" -> "AfterSeconds"
    [] unit = NONE      -> "AfterPackets"
    [] OTHER            -> NONE

\* The units of the documentation; an absent one is none of them.
Units == {"Packets", "Seconds"}

ASSUME UnitsAssumption == NONE \notin Units

\* What parse(), parse_from_string() or yaml-cpp throw at.
Unparsable(i) ==
  \/ i.from = "file" /\ ~i.readable
  \/ ~i.well_formed
  \/ i.options.dest_ip = NONE
  \/ i.options.dest_port = NONE
  \/ /\ i.has_changes
     /\ \/ i.trigger_unit \notin Option(Units)
        \/ \E n \in DOMAIN i.changes :
             \/ i.changes[n].type \notin Kinds
             \/ i.changes[n].event.trigger_value = NONE

ParsedChanges(i) ==
  [k \in Kinds |->
     [n \in {m \in DOMAIN i.changes : i.has_changes /\ i.changes[m].type = k} |->
        i.changes[n].event]]

TakeCommandLine ==
  /\ stage = "parse"
  /\ input.from = "command_line"
  /\ stage' = "defaults"
  /\ UNCHANGED <<input, options, changes, errors, ignored>>

Parse ==
  /\ stage = "parse"
  /\ input.from # "command_line"
  /\ ~Unparsable(input)
  /\ options' = IF input.has_changes
                THEN [options EXCEPT !.trigger_type = TriggerTypeOf(input.trigger_unit)]
                ELSE options
  /\ changes' = ParsedChanges(input)
  /\ stage' = "defaults"
  /\ UNCHANGED <<input, errors, ignored>>

ParseThrows ==
  /\ stage = "parse"
  /\ input.from # "command_line"
  /\ Unparsable(input)
  /\ stage' = "unparsed"
  /\ UNCHANGED <<input, options, changes, errors, ignored>>

-------------------------------------------------------------------------------
(* apply_defaults, validate_basics                                         *)

Defaults ==
  [source_port |-> 30000, ptime_in_packet |-> 20, ptime_btw_packet |-> 20,
   start_ssrc |-> 1122867, start_timestamp |-> 0, start_codec |-> 8,
   start_seq |-> 0, seq_steps |-> 1, start_clockrate |-> 8000,
   trigger_type |-> "None"]

WithDefaults(o) ==
  [f \in DOMAIN o |->
     IF f \in DOMAIN Defaults THEN ValueOr(o[f], Defaults[f]) ELSE o[f]]

DefaultStep(o) == (o.start_clockrate * o.ptime_in_packet) \div 1000

ApplyDefaults ==
  /\ stage = "defaults"
  /\ options' = LET o == WithDefaults(options) IN
                [o EXCEPT !.timestamp_step_size = ValueOr(@, DefaultStep(o))]
  /\ stage' = "basics"
  /\ UNCHANGED <<input, changes, errors, ignored>>

\* Port 1024 passes.
BasicErrorsBelow(o) ==
  {e \in {"dest_ip", "no_dest_port", "dest_port", "source_port"} :
     \/ e = "dest_ip" /\ o.dest_ip = EMPTY
     \/ e = "no_dest_port" /\ o.dest_port = NONE
     \/ e = "dest_port" /\ o.dest_port # NONE /\ o.dest_port < 1024
     \/ e = "source_port" /\ o.source_port # NONE /\ o.source_port < 1024}

BasicErrors(o) ==
  {e \in {"dest_ip", "no_dest_port", "dest_port", "source_port"} :
     \/ e = "dest_ip" /\ o.dest_ip = EMPTY
     \/ e = "no_dest_port" /\ o.dest_port = NONE
     \/ e = "dest_port" /\ o.dest_port # NONE /\ o.dest_port <= 1024
     \/ e = "source_port" /\ o.source_port # NONE /\ o.source_port <= 1024}

ValidateBasics ==
  /\ stage = "basics"
  /\ errors' = BasicErrors(options)
  /\ stage' = "ssrc"
  /\ UNCHANGED <<input, options, changes, ignored>>

-------------------------------------------------------------------------------
(* The check_..._changes functions: a loop that completes the entries, then *)
(* an erase_if with a predicate of its own.                                *)

\* What the generators would return for one entry.
Draws == [ssrc : Ssrcs, seq : Seqs, timestamp : Timestamps]

\* The value the user gave is not looked at.
GeneratedAlways(continue, given, drawn) == IF continue THEN given ELSE drawn

Generated(continue, given, drawn) ==
  IF ~continue /\ given = NONE THEN drawn ELSE given

CheckSsrc(e, draw) ==
  LET seq == ValueOr(e.continue_seq, TRUE)
      ts == ValueOr(e.continue_timestamp, TRUE)
  IN [e EXCEPT
        !.continue_seq = seq,
        !.seq_to_continue = Generated(seq, @, draw.seq),
        !.continue_timestamp = ts,
        !.timestamp_to_continue = Generated(ts, @, draw.timestamp)]

\* The default resets, but the loop goes on to the next entry all the same.
CheckTimestampResetting(e, draw) ==
  IF e.continue_seq = NONE THEN [e EXCEPT !.continue_seq = FALSE]
  ELSE [e EXCEPT !.seq_to_continue = Generated(e.continue_seq, @, draw.seq)]

CheckTimestamp(e, draw) ==
  IF e.continue_seq = NONE THEN [e EXCEPT !.continue_seq = TRUE]
  ELSE [e EXCEPT !.seq_to_continue = Generated(e.continue_seq, @, draw.seq)]

CheckCodec(e, draw) ==
  LET ssrc == ValueOr(e.continue_ssrc, FALSE)
      seq == ValueOr(e.continue_seq, FALSE)
      ts == ValueOr(e.continue_timestamp, FALSE)
  IN [e EXCEPT
        !.continue_ssrc = ssrc,
        !.ssrc_to_continue = Generated(ssrc, @, draw.ssrc),
        !.continue_seq = seq,
        !.seq_to_continue = IF seq THEN @ ELSE draw.seq,
        !.continue_timestamp = ts,
        !.timestamp_to_continue = IF ts THEN @ ELSE draw.timestamp]

\* No default: the flag stays empty.
CheckTransportAsIs(e) == e

CheckTransport(e) ==
  [e EXCEPT !.use_random_new_source_port = ValueOr(@, FALSE)]

\* The fields of which an event needs one.
Payload ==
  [ssrc |-> {"new_ssrc"}, timestamp |-> {"new_timestamp", "steps_to_jump"},
   codec |-> {"new_codec", "new_clockrate"}, sequence |-> {"seq_to_jump"},
   pause |-> {"ms_to_pause"},
   transport |-> {"new_dest_ip", "new_dest_port", "new_source_port"}]

NothingSet(k, e) == \A f \in Payload[k] : e[f] = NONE

\* The loop body. Only the transport changes are completed before they are
\* tested for a payload.
Checked(k, e, draw) ==
  IF e.trigger_value = 0 \/ (k # "transport" /\ NothingSet(k, e)) THEN e
  ELSE CASE k = "ssrc"      -> CheckSsrc(e, draw)
         [] k = "timestamp" -> CheckTimestamp(e, draw)
         [] k = "codec"     -> CheckCodec(e, draw)
         [] k = "transport" -> CheckTransport(e)
         [] OTHER           -> e

\* The loop has a warning for the entry, which it leaves as it is now.
Ignored(k, e) ==
  \/ e.trigger_value = 0
  \/ /\ NothingSet(k, e)
     /\ k = "transport" => e.use_random_new_source_port = FALSE

\* One alternative of the predicates of erase_if is forgotten.
ErasedButZeroTrigger(k, e) ==
  /\ NothingSet(k, e)
  /\ k = "transport" => e.use_random_new_source_port # TRUE

\* The flag does not save a transport change that has no other value.
ErasedInSpiteOfFlag(k, e) == e.trigger_value = 0 \/ NothingSet(k, e)

\* The predicates of erase_if.
Erased(k, e) ==
  \/ e.trigger_value = 0
  \/ /\ NothingSet(k, e)
     /\ k = "transport" => e.use_random_new_source_port # TRUE

\* value() of an empty optional throws bad_optional_access; the predicate of
\* the transport changes reaches it only past its other alternatives.
BadAccess(k, e) ==
  /\ k = "transport"
  /\ e.trigger_value # 0
  /\ NothingSet(k, e)
  /\ e.use_random_new_source_port = NONE

EraseIf(k, v) == Restrict(v, {n \in DOMAIN v : ~Erased(k, v[n])})

CheckChanges(k) ==
  /\ stage = k
  /\ \E draw \in [DOMAIN changes[k] -> Draws] :
       LET checked == [n \in DOMAIN changes[k] |->
                         Checked(k, changes[k][n], draw[n])]
           throws == \E n \in DOMAIN checked : BadAccess(k, checked[n])
       IN /\ stage' = IF throws THEN "bad_access" ELSE NextCheck[k]
          /\ changes' = [changes EXCEPT
                           ![k] = IF throws THEN checked ELSE EraseIf(k, checked)]
          /\ ignored' = [ignored EXCEPT
                           ![k] = {n \in DOMAIN checked : Ignored(k, checked[n])}]
  /\ UNCHANGED <<input, options, errors>>

-------------------------------------------------------------------------------
(* validate_or_throw                                                       *)

Accept ==
  /\ stage = "verdict"
  /\ errors = {}
  /\ stage' = "accepted"
  /\ UNCHANGED <<input, options, changes, errors, ignored>>

Reject ==
  /\ stage = "verdict"
  /\ errors # {}
  /\ stage' = "rejected"
  /\ UNCHANGED <<input, options, changes, errors, ignored>>

ConfigNext ==
  \/ TakeCommandLine
  \/ Parse
  \/ ParseThrows
  \/ ApplyDefaults
  \/ ValidateBasics
  \/ \E k \in Kinds : CheckChanges(k)
  \/ Accept
  \/ Reject

ConfigSpec == ConfigInit /\ [][ConfigNext]_configVars

-------------------------------------------------------------------------------
(* Properties.                                                             *)

\* Every variable has its type; an entry has a trigger value once parsed.
ConfigTypeOK ==
  /\ IsInput(input)
  /\ stage \in Stages
  /\ options \in RawOptions
  /\ DOMAIN changes = Kinds
  /\ \A k \in Kinds : \A n \in DOMAIN changes[k] :
       changes[k][n] \in EventsWith(Nat)[k]
  /\ errors \subseteq {"dest_ip", "no_dest_port", "dest_port", "source_port"}
  /\ DOMAIN ignored = Kinds

\* The positions in D from the first to the last.
InOrder(D) ==
  CHOOSE s \in [1 .. Cardinality(D) -> D] :
    \A m, n \in 1 .. Cardinality(D) : m < n => s[m] < s[n]

\* The options the engine is constructed from: what is left of a vector is
\* numbered from 1 on.
Handover ==
  [f \in DOMAIN options \union {"changes"} |->
     IF f # "changes" THEN options[f]
     ELSE [k \in Kinds |->
             LET order == InOrder(DOMAIN changes[k])
             IN [n \in DOMAIN order |-> changes[k][order[n]]]]]

\* An accepted configuration satisfies what ScenarioEngine assumes of its
\* scenario: no option is missing and no event without a trigger is left.
AcceptedIsScenario == stage = "accepted" => IsScenario(Handover)

\* A configuration is accepted if and only if what the user gave says so:
\* an address, and ports above 1024 where there are any.
VerdictFollowsInput ==
  LET o == input.options
      Sound == /\ o.dest_ip \notin {NONE, EMPTY}
               /\ o.dest_port \notin 0 .. 1024 \union {NONE}
               /\ o.source_port \notin 0 .. 1024
  IN /\ stage = "accepted" => Sound
     /\ stage = "rejected" => ~Sound

\* The entries of the document that StreamOptions.h calls valid.
Effective(k, e) ==
  /\ e.trigger_value # 0
  /\ CASE k = "ssrc"      -> e.new_ssrc # NONE
       [] k = "timestamp" -> ~(e.new_timestamp = NONE /\ e.steps_to_jump = NONE)
       [] k = "codec"     -> ~(e.new_codec = NONE /\ e.new_clockrate = NONE)
       [] k = "sequence"  -> e.seq_to_jump # NONE
       [] k = "pause"     -> e.ms_to_pause # NONE
       [] k = "transport" ->
            \/ ~(/\ e.new_dest_ip = NONE
                 /\ e.new_dest_port = NONE
                 /\ e.new_source_port = NONE)
            \/ e.use_random_new_source_port = TRUE

\* The loop and the erase_if after it agree on every entry: one that has a
\* warning is gone, one that has none is still there, and what is there is
\* what StreamOptions.h documents. (StreamOptionValidator.cpp:8-195)
DroppedIsWarned ==
  stage = "accepted" =>
    \A k \in Kinds :
      LET parsed == DOMAIN ParsedChanges(input)[k] IN
      /\ DOMAIN changes[k] = {n \in parsed : Effective(k, input.changes[n].event)}
      /\ ignored[k] = parsed \ DOMAIN changes[k]

\* Fields the validator may fill in.
Filled == {"continue_ssrc", "ssrc_to_continue", "continue_seq", "seq_to_continue",
           "continue_timestamp", "timestamp_to_continue",
           "use_random_new_source_port"}

\* e is given, with empty fields filled in; the fields in lost may differ.
Completes(e, given, lost) ==
  \A f \in DOMAIN given \ lost :
    e[f] = given[f] \/ (f \in Filled /\ given[f] = NONE)

\* The starting values of a codec change (see CodecValuesKept).
Lost(k) ==
  IF k = "codec" THEN {"seq_to_continue", "timestamp_to_continue"} ELSE {}

\* What the user set is never replaced, from the document to the engine, but
\* for the starting values of a codec change.
GivenValuesKept ==
  \A k \in Kinds : \A n \in DOMAIN changes[k] :
    Completes(changes[k][n], input.changes[n].event, Lost(k))

\* StreamOptions.h:55: a codec change gets random starting values "if false
\* and seq_to_continue is absent", so one that is present is kept.
CodecValuesKept ==
  \A n \in DOMAIN changes["codec"] :
    Completes(changes["codec"][n], input.changes[n].event, {})

\* Every flag is decided, and an event that resets a number has a value for
\* it, or else the send loop would end in an exception: whatever the
\* defaults, the order of the tests and the early continue of
\* check_timestamp_changes do. (ScenarioEngine.cpp:122-170)
ResetsAreComplete ==
  stage = "accepted" =>
    \A k \in Kinds : \A n \in DOMAIN changes[k] :
      /\ ResetsHaveValue(k, changes[k][n])
      /\ \A r \in Resettable[k] : changes[k][n][r[1]] # NONE

\* StreamOptions.h:140: events are triggered in the unit of the document, by default
\* after packets; None is for a document without changes. The parser decides, unless
\* it leaves it to apply_defaults, which writes None: trigger_reached() would then
\* read thresholds in packets as milliseconds.
UnitIsTheUsers ==
  stage = "accepted" =>
    options.trigger_type =
      (IF ~input.has_changes THEN "None"
       ELSE IF input.trigger_unit = "Seconds" THEN "AfterSeconds" ELSE "AfterPackets")

\* No predicate of erase_if reads an empty optional: the loop before it has
\* filled in every flag the predicate gets to.
NoBadAccess == stage # "bad_access"
===============================================================================
