------------------------------ MODULE MCScheduler ------------------------------
(* Streams with pauses in both trigger modes, pauses due together and a     *)
(* pause that carries the clock past the next one; source port changes      *)
(* while other processes take and release ports.                            *)
EXTENDS Scheduler, MCScenarioEngine

MCFds == 3 .. 4
MCPorts == {1, 2, 5}
MCPrivilegedPorts == {5}
MCEphemeralPorts == {2, 3}

\* Close to the wrap of both numbers, with an SSRC of four different octets.
NearWrap(type, changes) ==
  [Scenario(type, changes) EXCEPT !.start_seq = SeqSpace - 2, !.start_ssrc = 16909060,
                                  !.start_timestamp = TsSpace - 3,
                                  !.timestamp_step_size = 160]

PauseScenarios ==
  {NearWrap(type, [pause |-> p]) :
     type \in {"AfterPackets", "AfterSeconds"},
     p \in {<<PauseAt(2, 3), PauseAt(3, 4)>>,
            <<PauseAt(3, 1), PauseAt(3, 5), PauseAt(7, 2)>>}}

\* Ports asked for one after the other, 0 for a random one and 5 for a privileged
\* one, with the port the kernel may have drawn asked for by number afterwards.
PortRequest(t, p) ==
  [TransportAt(t) EXCEPT !.new_source_port = IF p = 0 THEN NONE ELSE p,
                         !.use_random_new_source_port = (p = 0)]

PortScenarios ==
  {Scenario("AfterPackets",
     [transport |-> <<PortRequest(1, p), PortRequest(2, q), PortRequest(3, 2)>>]) :
     p \in 0 .. 2, q \in {0, 1, 5}}

SchedulerScenarios == PauseScenarios \union PortScenarios

===============================================================================
