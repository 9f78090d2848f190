# RTPGen NG: a verification development

TLA+ models of RTPGen NG, the generator of RTP streams with scripted anomalies
in `src/`, checked with TLC on small instances and, for the invariants that
matter most, proved with TLAPS for every value of the constants.

## 1. The system

One process sends one RTP stream. A configuration (command line, YAML file or
an editor session) is parsed, validated and completed with defaults; then the
process listens on a Unix socket, starts the stream when a peer says so, and
ends on a message or a signal. Several processes may run on one host, all with
the same socket path.

| component | source | state | operations |
|---|---|---|---|
| ScenarioEngine | `core/ScenarioEngine.*` | `m_state` (fields of the next packet, `packet_count`, `elapsed_ms`, pause), six deques of change events | construction, `tick` |
| Sender | `core/Sender.*` | `m_sockfd`, `m_src_port`, the kernel's socket | construction, `send`, `rebind_if_needed` |
| Scheduler | `core/Scheduler.*` | `m_active` | `start_stream` (the send loop), `end_stream` |
| RtpEngine | `cli/RtpEngine.*` | the members above, `m_worker`, `m_control_worker`, `m_shutdown_handler` | `run`, `stop`, `on_shutdown`, start and end handler, destruction |
| control channel | `cli/UnixSocketControlChannel.*`, `cli/IControlChannel.h` | listening socket and its path, `m_active`, handlers | construction, `listen`, `dispatch`, `stop`, destruction |
| main and signals | `cli/main.cpp` | `g_shutdown_requested`, `g_shutdown_cv` | `main`, `handle_signal` |
| StreamOptionValidator | `core/StreamOptionValidator.*` | none (rewrites options) | `check_configuration` |
| YamlParser | `core/YamlParser.*` | none | `parse`, `parse_from_string` |
| PacketBuilder | `core/PacketBuilder.*` | none | `generate_rtp_packet` (header and payload of a tick) |
| RandomGenerators | `core/RandomGenerators.*` | generators | random SSRC, sequence number, timestamp |
| TemplateEditor | `cli/TemplateEditor.*` | a temporary file, a child process | `run_interactive_editor_flow`: create, edit, read, unlink |
| CliParser | `cli/CliParser.*` | none | `run_cli_flow` |

How they interact. `main()` constructs the channel and then the engine, which
owns the scheduler, the scenario engine and the sender. Three kinds of threads
run: main (waits on a condition variable, then stops and destroys everything),
the listener (`m_control_worker`, in `listen()`), and a send loop (`m_worker`,
in `start_stream()`), which the listener constructs when it dispatches
`start_stream`. They share two atomic flags `m_active` (one in the scheduler,
one in the channel), `g_shutdown_requested`, the condition variable, `m_worker`
and `m_shutdown_handler`. The send loop alone calls `tick()` and `send()`;
neither takes a lock. Peers and signals may come at any time.

What is hard, and what makes each component correct:

* Configuration (parser and validator): two passes over each vector that must
  agree, defaults and random values written in place, optionals read with
  `value()`. What is accepted is what the engine assumes; only the documented
  events are dropped; what the user set survives.
* ScenarioEngine: several events of several kinds due in one tick, equal
  triggers in an unstable sort, pauses that carry the clock past later
  triggers, numbers that wrap. Every event fires in the first tick that reaches
  its trigger, once; each field is what the script prescribes; a pause lasts
  one tick.
* Sender: a rebind that fails half way, ports other processes hold, the port
  the kernel chose for `bind(0)`. One socket is open, on the port believed.
* Scheduler: `end_stream()` at any point of an iteration, restarts, the
  difference between ticks, packets and time. The clock of the triggers never
  lags behind the time slept; at most one packet follows a stop; a stopped loop
  leaves.
* Session (RtpEngine, channel, main): stops that come before the thread they
  are for, notifications without the mutex, a listener that calls `stop()` on
  itself, destruction in an order in which the listener outlives what its
  handlers use. The process ends when asked to; no loop and no handler outlives
  the objects it uses; every loop has somebody who joins it.
* Startup and files (main, TemplateEditor, the channel's constructor and
  destructor): ten calls that may fail, an editor that may do anything, a path
  that all processes unlink and bind without asking, processes that are killed.
  Nothing is left behind by a process that was not killed; a running process is
  reachable; what a crash left is no obstacle; no start hangs.
* PacketBuilder: shifts, masks and byte order. A receiver reads what the engine
  decided, and cannot tell a pause from a lost packet.

`PROJECT.json` lists the hazards line by line with the properties that watch
them.

## 2. Modules

```
StreamOptions (types) --- ConfigValidation --- ConfigValidationProofs
      |
ScenarioEngine ---- RtpTimeline (closed-form reference) --- RtpTimelineProofs
      |  \--------- ScenarioEngineProofs (used by RtpTimelineProofs and SchedulerProofs)
PacketBuilder
      |
Sender  --- SenderProofs
      \
       Scheduler (engine + packets + sender + loop) --- SchedulerProofs

SessionLifecycle (what is promised)
      ^ implemented by
Session (main, listener, send loops, peers, signals) --- SessionProofs
                                                          --- SessionLifecycleProofs
ProcessTable
  |-- TemplateEditor --.
  |-- ControlSocket ---+-- Startup (main() of several processes) --- StartupProofs
```

A module `MCM` holds the instances of module `M`. Mutated forms
(`...Unbounded`, `...Forgotten`, `...Leaking`) stand directly before the
definition they change; no specification uses them.

**StreamOptions** holds the types of `core/StreamOptions.h` and `IsScenario`,
which is what the validator promises and the engine assumes: complete options,
events with a trigger, and for each reset the value that `apply()` will read.

**ConfigValidation** follows the constructor of `RtpEngine` from the raw input
to the accepted options or the exception: `parse_opts` (command line, or a YAML
document in a file or from the editor), `apply_defaults`, `validate_basics` and
the six checks, one step each. `Checked` is a loop body, `Erased` the predicate
of the `erase_if` after it, `Ignored` the loop's warning; `BadAccess` is the
exception of `value()` on an empty optional. The generators are a choice from
their range, made anew for each entry (`Draws`). A vector of events is a
function on the positions its entries had in the document, so that a result can
be compared with what the user wrote; erasing restricts it. A document is what
yaml-cpp makes of it: its keys carry the names of the options they set, and
`well_formed` says whether it loads and every value that is asked for fits.

**ScenarioEngine.** `Tick(delta)` is the whole of `tick()`: the end of a pause
(`PausedAfterResume`, `ElapsedAfter`), the increments (`Advance`, modulo the
width of the fields), the six loops (`Due`, `Remaining`), and the `apply()`
overloads, one operator each, folded over what is due. It is one action because
it runs on one thread between two sleeps. `SortByTrigger` is the set of all
sorted permutations, `std::sort` not being stable. `pending` holds the deques,
the history variable `script` what they were after sorting, so that "fires
once, on time" can be stated. Optional fields are values or `NONE`. The options
are those the validator lets through (`IsScenario`).

**RtpTimeline** adds the history `clock[n]`, the value triggers were compared
with in tick n, and states the fields of packet n as a formula over the sorted
script: the last write, plus the ticks since, plus the jumps since. A place
`<<kind, index>>` of the script has `Fired` once some tick reached its trigger;
`Order` ranks what has fired by tick, by the documented order of the kinds and by
index; per field there is the set of places that write it and of those that make
it jump, with what they write (`SeqWriters`, `SeqValue`, `SeqJumpers`, ...). It
contains no loop and no running state, so it checks the loops, their order and
the in-place updates against an independent definition.

**Sender.** `Send(port)` is `send()` for a packet whose state asks for `port`;
`Rebind` and `RebindFails` are the two outcomes of `rebind_if_needed()`; it fails
when `socket()` finds no descriptor, when the port is taken (by this process, too)
or privileged, or when no ephemeral port is left.
`sockets` maps the process's descriptors to ports. The kernel and the other
processes (`foreign`, `fds_full`) change at any time. The sendto itself changes
nothing and its failure is only logged.

**Scheduler** extends both and splits `start_stream()` at the points another
thread can come between: the loop condition, the tick, the two sleeps, the
send. `SendPacket` builds the packet from the engine's fields and hands it to the
sender. A failed rebind leaves `m_src_port` as it was, so that the next packet tries
again: `SendsFromRequestedPort` is about every packet. `slept`, `sent`, `pauses` and `late` are history.

**PacketBuilder** is `generate_rtp_packet` as an operator on the fields of
`StreamState`: twelve octets and a length. `Received` is the decoding of RFC
3550, written independently. `packet` in Scheduler is the last one sent.

**Session.** One action per access to something shared. `Promises` names what
is assumed of the environment, since nothing in the code enforces it:

| promise | why it is needed | without it |
|---|---|---|
| `silent_peers_close` | `read()` on an accepted connection has no timeout | MCSilentPeer |
| `no_start_after_stop` | the listener still dispatches during teardown | MCLateStart |
| `stop_after_rtp` | `start_stream()` overwrites an earlier `end_stream()` | MCStopBeforeLoop |
| `stop_while_waiting` | the wait loses a notification; the handler is registered late | MCLostWakeup |
| `signal_after_listen` | `listen()` overwrites an earlier `stop()` | `ListenReturnsAfterStop` fails |
| `no_late_wakeups` | a spurious wakeup during a stop brings `main()` back before the wait, where it loses the notification | `StopStreamEndsProcess` fails |

`silent_peers_close` is a fairness condition: how long a peer keeps silent is not
bounded. Nothing is promised of the kernel, of which `poll()` and `accept()` may
fail at any time, nor of the number of `start_stream`: `LoopsAreHeld` says what is
left of "one loop" when a second one comes. It runs beside the first until that is
told to stop, and the listener waits meanwhile.

The send loop is seen from outside here (`spawned`, `looping`, `done`); what it
does in between is Scheduler's subject. The flag `m_active` of the scheduler
has the same transitions in both. `second_stop` is history: whether a second
stop was asked for, by whichever way. No promise excludes one; only
`HandlersUseLiveMembers` speaks of sessions without, since with one it does not hold:
see the end of the next section.

**SessionLifecycle** says what the comments on `RtpEngine` and `IControlChannel`
promise: serving, then closing, then ended; one stream at most, which ceases only
while closing and has ceased when the process ends. `ImplementsLifecycle` maps
Session to it: closing begins with the first stop that anybody acts on (the end
handler is in progress, or the flag is set), the stream is live while some thread
is on its way to or in `start_stream()`.

**TemplateEditor** follows `run_interactive_editor_flow` call by call, with the
way out of each call that fails. `temp_file` is the file as a name with a
content, which the editor replaces or removes as it likes, after its return too
(`background`). Of a document only the engine's verdict is kept (`Inputs`):
which documents it accepts is ConfigValidation's subject.

**ControlSocket** is the life of `/tmp/rtpgen.sock`: constructor and destructor
of the channel, one step per system call. `path` is the process whose socket the
file leads to. In `/tmp` only the owner removes a file (`UserOf`), and the code
does not look at the result of `unlink()`.

**Startup** puts both into `main()`: editor or command line, channel, engine,
session, destruction, for several processes at once, each of which may be killed
at any step (`Crash`). `crashed` and `met` (who was about a channel at the same
time) are history. `EngineStops` stands for all of Session.

## 3. Runs

| run | question | result |
|---|---|---|
| MCConfigValidation | is what is accepted what the engine assumes, are exactly the documented events dropped, does what the user set survive | holds |
| MCRtpTimeline | does every event fire on time, does every pause end, are the fields those of the closed form | holds |
| MCScheduler | prompt stop, no endless pause, no trigger in time that is late; what a receiver reads; one socket, every packet from the right port, under any requests and failures | holds |
| MCSession | is the documented lifecycle implemented, do stop_stream and SIGTERM end loop, listener and process, is teardown safe, whatever is started, all promises kept | holds |
| MCStartup | files, reachability, recovery from crashes and termination of every start, of three processes of two users | holds |
| MCCodecOverwrite | starting values of a codec change are random only if absent | violated: they always are |
| MCZeroPause | a 0 ms pause is "True for exactly one tick cycle" | violated: it never ends |
| MCStopBeforeLoop | `end_stream()` stops the loop | violated: a stop before the loop is lost |
| MCSilentPeer | `listen()` exits within a poll cycle | violated: `read()` blocks |
| MCLostWakeup | a signal ends the process | violated: its notification is lost |
| MCLateStart | `stop()` is a full teardown | violated: a loop starts on destroyed members |
| MCSecondsTrigger | a threshold in time is one in seconds | violated: 5 fires after 5 ms |

The passing runs say nothing that contradicts these, nor the comments below.
`PendingIsFuture` is about the counter `trigger_reached()` reads, in whichever unit,
`SeqFollowsScript` about scenarios whose increment is one, `ElapsedCoversSleep` about
the direction of the drift only, `ReceiverSeesPausesAsLoss` about every field but the
marker. Mutants of the code break each of them.

Other differences between the code and its documents, which no run shows. The first
four show whenever a scenario meets them; the next three are races a promise or
`second_stop` excludes from MCSession:

* `seq_steps` is the "Sequence-Increment per packet" (`StreamOptions.h:138`); the
  increment is one (`ScenarioEngine.cpp:84`): `Advance`;
* "`packet_count` does not" increment during a pause (`ScenarioEngine.h:19`); it
  counts the tick that becomes one (`ScenarioEngine.cpp:86`): `Advance`;
* `delta_ms` is the "wall-clock time since the last tick() call"
  (`ScenarioEngine.h:81`); after a pause, which replaces the sleep of the interval
  (`Scheduler.cpp:21`), the interval is counted as well: `SleepThroughPause`;
* `M=0` (`PacketBuilder.cpp:14`); a codec of 128 or more, which no check rejects, sets
  the marker: `Octet`, and `ReceiverReadsTheTick`, which says when;
* `listen()` exits within a poll cycle of `stop()` (`UnixSocketControlChannel.h:52`);
  a stop that comes before it has set `m_active` is overwritten: `EnterListen`;
* the shutdown handler is called from the end handler (`RtpEngine.h:80`); a
  `stop_stream` dispatched before `main()` has registered it ends the stream and the
  listener, and `main()` waits on: `LookForHandler`;
* `stop()` is a full teardown (`RtpEngine.h:33`); an end handler that is in progress
  when a SIGTERM has `main()` destroy the engine uses what is destroyed:
  `HandlerEndsStream` and the three steps after it;
* a unit with each trigger, `type: AfterSeconds`, is in the example of
  `README.md` (lines 165-195) and read by no code: `YamlParser.cpp:40` takes the
  value only, and the unit of the document (`triggerUnit`) applies to all events;
* a second `start_stream` is said to terminate the process (`RtpEngine.h:43`), and the
  scheduler drives "a single RTP stream" (`Scheduler.h:14`); with `std::jthread` it
  starts a second thread and blocks the listener in the join of the running loop:
  `AssignWorker`, `LoopsAreHeld`;
* a new SSRC is "randomized if absent" (`StreamOptions.h:23`) and the event is
  "dropped [...] if [...] new_ssrc is absent" (`StreamOptions.h:17`); the code drops
  it: `Erased`, `DroppedIsWarned`;
* `end_stream`, which "tears the session down" (README line 131), is ignored;
  the code waits for `stop_stream`: `DispatchNothing`;
* the shutdown handler is invoked when the loop has been told to stop, not
  "after full session teardown" (`RtpEngine.h:80`): `LookForHandler`;
* on a parse error "the file is saved to `~/`" (README line 119); the temporary
  file is unlinked before anything is parsed: `NothingLeftBehind`;
* after the editor "the stream starts immediately" (same line); it waits for
  `start_stream` like any other: `DispatchStart`;
* the path is "unlinked before bind if a stale file exists"
  (`UnixSocketControlChannel.h:30`); that of a running process is unlinked just
  the same, by a `--help` too, for which `run_cli_flow` returns 0 with nothing
  parsed, so that `main()` goes on to construct the channel: `UnlinkStale`,
  `CliParsed`. `RunningIsReachable` says what remains.

**Bounds and why they suffice.** Number spaces of 8 and 16 (2^16 and 2^32 in
the code) so that 7 ticks and the jumps wrap both, in both directions.
`MaxTicks` lies beyond the last trigger of each scenario; deltas 2 and 3 make
the clock step over triggers as well as hit them. The scenarios of
`MCScenarioEngine.tla` have up to three events of a kind, events of different kinds
due together, equal triggers and pauses longer than the gap to the next
trigger. In `MCScheduler` two descriptors (one to replace the other), a port of
each sort (plain, ephemeral, both, privileged) and up to three requests, one of which
may ask by number for what `bind(0)` gave; the number spaces are 512 and
1024, so that sequence number and timestamp wrap across the boundary of an octet.
In `MCSession` four connections (two starts, two stops; three in the runs that lack a
promise), two signals and three send-loop threads: enough for every race between a
start, a stop and a signal, with a second of each; a third start stays unread, the
listener being in the join of the first loop. In `MCStartup` three processes, one of them
interactive: two of one user, one of which can follow, overtake or outlive the
other, and one of another user, which owns a file the others cannot remove. A
fourth would add another overtaker. `BacklogLimit` is 2, what `listen(fd, 1)`
queues. The counters of the model are bounded by their guards only
(`MaxTicks`, `MaxRequests`, `MaxSignals`).

In `MCConfigValidation` the inputs are every shape of a single event of each kind
(each optional absent or present, each flag absent, true or false, trigger 0 and
1), pairs of events, and all combinations of addresses around 1024, source, unit
and errors of the parser. Three sequence numbers and timestamps and two SSRCs
are enough for a drawn value to differ from a given one.

Deadlock is checked except in MCConfigValidation and MCCodecOverwrite, where the
construction is over, and in the runs of Session, where the system really can stop for
ever: once `poll()` has failed nobody reads, and a start that stays in the backlog
keeps the promised stops away; in the runs that lack a promise, a lost stop or a
silent peer.

**Fairness.** Weak fairness of the steps of each thread (`LoopStep`,
`MainStep`, `ListenerStep`, `WorkerStep`) and of a signal handler that has
begun: a thread that can go on is scheduled. (Of silent peers it is a promise, which
MCSilentPeer lacks.) Weak is enough, because none of
these steps is disabled by another thread for good once it is enabled, with no
lock being contended. In
Startup it is weak fairness of everything a process does by itself
(`ProcessStep`); the user who edits, the session that goes on and the kill that
never comes have none. Nothing makes a peer connect, write or close, a signal
arrive, a stream be started or stopped, or a port be released. In Scheduler the
loop may rest at `MaxTicks`, so `PauseEnds` looks only at scenarios whose last
pause comes before it.

## 4. Proofs

TLAPS checks eight modules, for all scenarios, number spaces, bounds, ports,
descriptors, threads, messages and processes.

* **ConfigValidationProofs**: every property of MCConfigValidation.
  `CheckedEntry` says of one entry, kind by kind, what the loop body leaves for
  the predicate of `erase_if`; `ConfigInv` carries it through the six checks, in
  the order `Rank` gives them: behind the current one `Survivors`, ahead of it the
  entries as parsed. `AcceptedIsWhatTheEngineAssumes` goes on to what the engine
  is given: what is left of each vector can be numbered from 1 on (`InOrder`), and
  the result is a scenario, `IsScenario`, the assumption of all proofs below.
* **ScenarioEngineProofs**: `EngineFiresOnTime` (`PendingIsFuture`),
  `EngineCountersTypeCorrect`, `EngineTypeCorrect` and `EveryPauseLastsOneTick`
  (`PauseLastsOneTick`), which assumes that no pause has 0 ms: MCZeroPause is the
  counterexample otherwise. Its invariant `PausesLast` says that a pause in
  progress has a length, and that the pauses still pending have one.
  `PendingIsFuture` is not inductive alone: consuming from the front is right only
  because the deques are sorted and the clock never runs backwards. `EngineInv`
  adds `ScriptSorted` and the types; `DueCountIsLoopExit` shows what the while loop
  consumes, `TickDeques` and `ConsumedIsReached` carry it over a tick. The types of
  the fields need that no reset lacks its value (`ScriptResets`, in `FieldsInv`).
  A while loop of `tick()` is a fold in the model; `ApplyAllTrace` shows it to be
  the last of a trace in which each state follows from the one before by one
  `apply()`, and `LoopInduction` is the loop rule that results: what holds before
  and is kept by each iteration holds after.
* **RtpTimelineProofs**: `SeqCorrect`, `TimestampCorrect`, `SsrcCorrect` and
  `SrcPortCorrect`, the four properties of the fields. Their formulas name the
  last write by a CHOOSE and sum the jumps over a set, so nothing of them can be
  carried over a step directly. `Follows` says the same of any field, written or
  not yet, with the last write as a witness. One tick keeps it (`TickFollows`), one
  jump (`JumpFollows`), one write (`WriteFollows`), and an event that touches
  another field (`OthersFollow`), provided the event comes after all that have
  fired (`ComesLast`); `SeqEffect` to `SrcPortEffect` show each overload of
  `apply()` to be one of these. `LoopHolds` runs it through a loop, `TickRtpHolds`
  through the four loops in the code's order, where `TickOrder` provides
  `ComesLast`: what falls due in a tick takes effect after everything earlier, in
  the order of the kinds and of the deque. The invariant `StreamFollows` adds the
  history (`ClockInv`: the clock never runs backwards, so that an event has fired
  exactly when it left its deque) and `EngineInv`. `SumGrows` is what a sum over a
  finite set gains by one more member; `WrapTwice`, that wrapping at each step is
  wrapping once.
* **SchedulerProofs**: `ClockCoversSleep`, `OnePacketAfterStop`,
  `StreamHoldsOneSocket`, `StreamUsesRequestedPort`, `SchedulerTypeCorrect` and
  `PausesLookLikeLoss`. The invariant `SchedulerInv` keeps the books: every tick
  became a packet or a pause (`PacketAccounting`), and `elapsed_ms` is what was slept
  and one interval per pause (`ElapsedAccounting`), from which it covers the sleep. To
  them it adds that a packet is only sent with no pause outstanding
  (`NoPauseWhileSending`), and to `late <= 1` where the loop is when a packet was late
  (`LateOnlyAfterStop`). It
  rests on `EngineInv`, `FieldsInv` and `SenderInv`. For the receiver it says that a
  header no event touches moves by one step per tick (`RunsOn`), and that the packet
  that has left is the one built from the state of the tick (`PacketInv`); the
  accounts turn ticks into packets and pauses. The first section is about the
  wire format alone: `ReceiverReadsTheTick` (the octets of 16 and 32 bits spell the
  number again, and the second octet is the codec) and `PacketFitsDatagram`, for
  every state with fields of the declared widths.
* **SenderProofs**: types, `OneSocket` and `PortAgrees`, inductive together, and
  `Send_LeavesFrom`: from there a single `send()`, whether it rebinds, fails to or
  has no need to, leaves from the port asked for or could not. SchedulerProofs makes
  it `StreamUsesRequestedPort`, of every packet of a stream.
* **SessionProofs**: types and `LoopsAreHeld` in any environment, for any number of
  starts; `TeardownIsFinal` when `Promises` contains `no_start_after_stop` and
  `stop_after_rtp`. `LoopsAreHeld` is inductive on the types and on what is known of
  the listener's life (`ChannelInv`). For the second, `StopsAreAsked` follows a stop
  from the peer through the backlog, the listener and the handler to `main()`, and says
  that from then on no thread is on its way to `m_worker`: so what `~RtpEngine` joins
  is what `m_worker` holds to the end, and what it does not join the listener does.
* **SessionLifecycleProofs**: `SessionImplementsLifecycle`, under the same
  promises and `stop_while_waiting`, and `SessionHandlersLive`. The first needs
  that a handler is registered whenever a stop may come, and that no loop has left
  before (`ClosingInv`), so that what began to close reaches the flag
  (`Closing_Stays`) and a second start finds the stream live; each action is then a
  step of the lifecycle or a stutter. The second follows the one stop (`OneStop`):
  while it is on its way to the flag nothing lets `main()` leave its wait.
* **StartupProofs**: all four invariants of MCStartup. `StartupInv` ties the
  stage of `main()` to that of the channel (`Stages`), says who may own the path
  (`PathOwner`), that two processes with a channel know of each other
  (`PresentMet`), and that a path is kept from everybody but the user's own
  processes (`PathKept`).

Assumptions: `ScenariosAssumption` (what ConfigValidation guarantees),
`WidthsAssumption` (a number space has at least one number and at most as many as
the declared type), `NoneAssumption` (an empty optional is no value),
`InputsAssumption`, `UnitsAssumption`, `SsrcsAssumption`, `BoundsAssumption`,
`PortsAssumption` (`Ports` contains the ports the scenarios ask for, and the first is
not privileged: the validator demands one above 1024), `SenderAssumption` (a second descriptor
exists), `SessionAssumption`, `PathAssumption`. TLC evaluates each of them.

Folds, sums over sets and the numbering of a vector are recursive. Their
inductions are on the least counterexample (`LeastNat`), since the library's
induction theorems take an operator as a parameter, which no prover at hand can
instantiate. Every type is the declared one: `UInt32` and the others are defined
by bounds, in numbers TLC can read, and a proof sees their width.

Only model-checked: all liveness (`StopEndsLoop`, `PauseEnds`, `StopEndsSendLoop`,
`ListenReturnsAfterStop`, `StopStreamEndsProcess`, `SigtermEndsProcess`,
`StopOnListenerEndsListening`, `EveryStartSettles`), which rests on fairness and so on
ENABLED, of which TLAPS proves nothing here. Every invariant
and every other action property of the passing runs is a theorem:
`PauseLastsOneTick` for pauses that have a length, `TeardownIsFinal`,
`HandlersUseLiveMembers` and `ImplementsLifecycle` under the promises
named above, the others without a condition.

## 5. Not modelled, and the plan

Every component keeps its state in some module. Left out of them:

* the vendored CLI11 (any outcome, any options), yaml-cpp's text format and
  conversions (`well_formed`), `choose_editor()`, log texts, verbosity, the value
  `main()` returns;
* the update handler, which is stored and never called; `use_tcp`, `seq_steps`
  and the declared interval, which nothing reads;
* a failing `sendto()`: it is logged and changes nothing;
* the timing of `sleep_for` beyond the sum of what it was asked to sleep;
* signals before `run()` in Startup: they only set the flag, which is an initial
  state of Session; a second process's conflict for the UDP port is one of the
  ways out of `EngineThrows`; a constructor of the sender that throws after
  `socket()` leaks a descriptor in a process that ends;
* names of temporary files: `mkstemps()` takes none twice. A process that waits in
  a full backlog is a peer that has not connected;
* memory order: the flags are sequentially consistent atomics in the code. The
  read of `m_shutdown_handler` in the end handler while `main()` assigns it is a
  race; the model's step reads it before or after. Signal-safety of `notify_all`
  in a handler is undefined by the standard; the model takes it as the
  notification it performs on Linux.

Steps that would extend it: which races the session loses without each promise as
theorems about shorter promises; codec, clock rate and destination in RtpTimeline,
as instances of the same `Follows`; a framing of messages, once the code has one.
