-------------------------- MODULE MCConfigValidation --------------------------
(***************************************************************************)
(* Inputs for TLC: every combination of addresses, source and unit, with   *)
(* one event; every shape of a single event; and pairs of events.          *)
(***************************************************************************)
EXTENDS ConfigValidation, TLC

Flag == {NONE, TRUE, FALSE}

Entry(k, e) == [type |-> k, event |-> e]

SsrcEvents ==
  [trigger_value : {0, 1}, new_ssrc : {NONE, 7}, continue_seq : Flag,
   seq_to_continue : {NONE, 2}, continue_timestamp : Flag,
   timestamp_to_continue : {NONE, 2}]

TimestampEvents ==
  [trigger_value : {0, 1}, new_timestamp : {NONE, 1}, steps_to_jump : {NONE, -1},
   continue_seq : Flag, seq_to_continue : {NONE, 2}]

CodecEvents ==
  [trigger_value : {0, 1}, new_codec : {NONE, 9}, new_clockrate : {NONE},
   continue_ssrc : Flag, ssrc_to_continue : {NONE, 7}, continue_seq : Flag,
   seq_to_continue : {NONE, 2}, continue_timestamp : Flag,
   timestamp_to_continue : {NONE, 2}]

TransportEvents ==
  [trigger_value : {0, 1}, new_dest_ip : {NONE, 1}, new_dest_port : {NONE, 2000},
   use_random_new_source_port : Flag, new_source_port : {NONE, 2001}]

SingleEntries ==
  {Entry("ssrc", e) : e \in SsrcEvents}
  \union {Entry("timestamp", e) : e \in TimestampEvents}
  \union {Entry("codec", e) : e \in CodecEvents}
  \union {Entry("transport", e) : e \in TransportEvents}
  \union {Entry("sequence", e) : e \in [trigger_value : {0, 1},
                                        seq_to_jump : {NONE, -1}]}
  \union {Entry("pause", e) : e \in [trigger_value : {0, 1},
                                     ms_to_pause : {NONE, 0}]}

\* A few entries of each kind, to stand next to each other.
Neighbours ==
  {e \in SingleEntries :
     CASE e.type = "ssrc" -> /\ e.event.continue_timestamp = NONE
                             /\ e.event.timestamp_to_continue = NONE
                             /\ e.event.seq_to_continue = NONE
                             /\ e.event.continue_seq # TRUE
       [] e.type = "timestamp" -> /\ e.event.continue_seq = FALSE
                                  /\ e.event.seq_to_continue = NONE
                                  /\ e.event.new_timestamp = NONE
       [] e.type = "codec" -> FALSE
       [] e.type = "transport" -> /\ e.event.new_dest_ip = NONE
                                  /\ e.event.new_dest_port = NONE
       [] OTHER -> TRUE}

Unknown == [type |-> "video", event |-> [trigger_value |-> 1]]
NoTrigger == Entry("pause", [trigger_value |-> NONE, ms_to_pause |-> 3])

NothingGiven ==
  [dest_ip |-> EMPTY, dest_port |-> NONE, source_port |-> NONE,
   ptime_in_packet |-> NONE, ptime_btw_packet |-> NONE, start_ssrc |-> NONE,
   start_timestamp |-> NONE, timestamp_step_size |-> NONE,
   start_codec |-> NONE, start_clockrate |-> NONE, start_seq |-> NONE,
   seq_steps |-> NONE, trigger_type |-> NONE]

Document(entries) ==
  [from |-> "content", readable |-> TRUE, well_formed |-> TRUE, trigger_unit |-> "Packets",
   options |-> [NothingGiven EXCEPT !.dest_ip = 1, !.dest_port = 5004],
   has_changes |-> TRUE, changes |-> entries]

Addresses ==
  {[NothingGiven EXCEPT !.dest_ip = ip, !.dest_port = d, !.source_port = s] :
     ip \in {NONE, EMPTY, 1}, d \in {NONE, 1024, 1025}, s \in {NONE, 1024, 1025}}

MCInputs ==
  {Document(<<e>>) : e \in SingleEntries}
  \union {Document(<<e, f>>) : e \in Neighbours, f \in Neighbours \union {Unknown}}
  \union
  {i \in [from : {"command_line", "content", "file"}, readable : BOOLEAN,
          well_formed : BOOLEAN, trigger_unit : {NONE, "Packets", "Seconds", "Minutes"},
          options : Addresses, has_changes : BOOLEAN,
          changes : {<< >>, <<NoTrigger>>,
                     <<Entry("pause", [trigger_value |-> 5, ms_to_pause |-> 3])>>}] :
     /\ i.from = "command_line" => i.options.dest_ip # NONE /\ ~i.has_changes
     /\ i.from # "file" => i.readable
     /\ i.from = "command_line" => i.well_formed
     /\ ~i.has_changes => i.changes = << >>}
  \union
  {[Document(<< >>) EXCEPT !.options.start_clockrate = r,
                           !.options.ptime_in_packet = p,
                           !.options.timestamp_step_size = t] :
     r \in {NONE, 16000}, p \in {NONE, 0, 30}, t \in {NONE, 150}}
===============================================================================
