------------------------------ MODULE RtpTimeline ------------------------------
(***************************************************************************)
(* What the fields of packet n must be, read off the sorted script alone:  *)
(* a reference for ScenarioEngine's loops and in-place updates.            *)
(*                                                                         *)
(* clock[n] is the value the triggers were compared with in tick n. An     *)
(* event takes effect in the first tick whose clock reaches its trigger; a *)
(* field holds what the last event that writes it wrote, plus the          *)
(* increments of the ticks since, plus the jumps since.                    *)
(***************************************************************************)
EXTENDS ScenarioEngine

VARIABLE clock  \* history: clock[n] is Now after tick n

timelineVars == <<engineVars, clock>>

TimelineInit == EngineInit /\ clock = <<>>

TimelineNext == EngineNext /\ clock' = IF packet_count' = packet_count THEN clock
                                       ELSE Append(clock, Now')

TimelineSpec == TimelineInit /\ [][TimelineNext]_timelineVars

-------------------------------------------------------------------------------
\* The places of the script, <<kind, index>>, and the event at one of them.
Places == UNION {{k} \X DOMAIN script[k] : k \in Kinds}

Event(w) == script[w[1]][w[2]]

Fired ==
  {w \in Places : \E n \in DOMAIN clock : clock[n] >= Event(w).trigger_value}

TickOf(w) == Min({n \in DOMAIN clock : clock[n] >= Event(w).trigger_value})

\* The documented order of the kinds within one tick.
Rank == [ssrc |-> 1, timestamp |-> 2, codec |-> 3,
         sequence |-> 4, pause |-> 5, transport |-> 6]

Position(w) == <<TickOf(w), Rank[w[1]], w[2]>>

Before(v, w) ==
  LET p == Position(v)
      q == Position(w)
  IN  \E i \in 1 .. 3 : p[i] < q[i] /\ \A j \in 1 .. i - 1 : p[j] = q[j]

\* The order in which the events have taken effect.
Order == {p \in Fired \X Fired : Before(p[1], p[2])}

LastIn(order, W) == CHOOSE w \in W : \A v \in W \ {w} : <<v, w>> \in order

LastOf(W) == LastIn(Order, W)

\* The value the last of the writes W gave a field, or its start value.
LastWritten(W, value, start) == IF W = {} THEN start ELSE value[LastOf(W)]

\* Ticks since the last of the writes W, or since the start.
TicksSince(W) == IF W = {} THEN Len(clock) ELSE Len(clock) - TickOf(LastOf(W))

\* The sum of the jumps J that come after the last of the writes W.
JumpedSince(W, J, jump) ==
  SumFunctionOnSet(jump, IF W = {} THEN J ELSE {j \in J : <<j, LastOf(W)>> \notin Order})

-------------------------------------------------------------------------------
(* The places that write a field or make it jump, and what they write.      *)

PlacesOf(kinds) == {w \in Places : w[1] \in kinds}

SeqWriters ==
  {w \in PlacesOf({"ssrc", "timestamp", "codec"}) : Event(w).continue_seq = FALSE}

SeqValue == [w \in SeqWriters |-> Event(w).seq_to_continue]

SeqJumpers == {w \in PlacesOf({"sequence"}) : Event(w).seq_to_jump # NONE}

SeqJump == [w \in SeqJumpers |-> Event(w).seq_to_jump]

TimestampWriters ==
  {w \in PlacesOf({"ssrc", "codec"}) : Event(w).continue_timestamp = FALSE}
    \union {w \in PlacesOf({"timestamp"}) : Event(w).new_timestamp # NONE}

TimestampValue ==
  [w \in TimestampWriters |-> IF w[1] = "timestamp" THEN Event(w).new_timestamp
                              ELSE Event(w).timestamp_to_continue]

TimestampJumpers == {w \in PlacesOf({"timestamp"}) : Event(w).steps_to_jump # NONE}

TimestampJump == [w \in TimestampJumpers |-> Event(w).steps_to_jump]

SsrcWriters ==
  {w \in PlacesOf({"ssrc"}) : Event(w).new_ssrc # NONE}
    \union {w \in PlacesOf({"codec"}) : Event(w).continue_ssrc = FALSE}

SsrcValue ==
  [w \in SsrcWriters |-> IF w[1] = "ssrc" THEN Event(w).new_ssrc
                         ELSE Event(w).ssrc_to_continue]

SrcPortWriters ==
  {w \in PlacesOf({"transport"}) : \/ Event(w).use_random_new_source_port = TRUE
                                   \/ Event(w).new_source_port # NONE}

SrcPortValue ==
  [w \in SrcPortWriters |-> IF Event(w).use_random_new_source_port = TRUE THEN 0
                            ELSE Event(w).new_source_port]

-------------------------------------------------------------------------------
\* The sequence number of every packet is the one its script prescribes: one
\* step per tick from the last reset by an SSRC, timestamp or codec change,
\* moved by every sequence jump since (those of the same tick included).
SeqFollowsScript ==
  LET W == Fired \intersect SeqWriters
      J == Fired \intersect SeqJumpers
  IN  rtp.seq = ( LastWritten(W, SeqValue, opts.start_seq)
                  + (TicksSince(W) + JumpedSince(W, J, SeqJump)) ) % SeqSpace

\* The same for the timestamp, in units of the step size; the relative jump of
\* an event counts from the absolute value the same event sets.
TimestampFollowsScript ==
  LET W == Fired \intersect TimestampWriters
      J == Fired \intersect TimestampJumpers
  IN  rtp.timestamp =
        ( LastWritten(W, TimestampValue, opts.start_timestamp)
          + opts.timestamp_step_size *
              (TicksSince(W) + JumpedSince(W, J, TimestampJump)) ) % TsSpace

\* The SSRC is that of the last SSRC change or codec change to write it, a
\* codec change overriding an SSRC change of the same tick.
SsrcFollowsScript ==
  rtp.ssrc = LastWritten(Fired \intersect SsrcWriters, SsrcValue, opts.start_ssrc)

\* The source port asked for is that of the last transport change to name one,
\* a random one (port 0) overriding an explicit one in the same event.
SrcPortFollowsScript ==
  transport.src_port =
    LastWritten(Fired \intersect SrcPortWriters, SrcPortValue, opts.source_port)

===============================================================================
