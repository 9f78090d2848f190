-------------------------------- MODULE Session --------------------------------
(***************************************************************************)
(* The threads of one process: main() (cli/main.cpp), the control listener *)
(* (UnixSocketControlChannel::listen, run by RtpEngine::m_control_worker)  *)
(* and the send-loop threads (Scheduler::start_stream, run by m_worker),   *)
(* with the peers that connect to the control socket and the signals that  *)
(* ask the process to end.                                                 *)
(*                                                                         *)
(* A step is one access to what the threads share: the two m_active flags, *)
(* g_shutdown_requested, the condition variable, m_worker,                 *)
(* m_shutdown_handler, the backlog of the control socket.                  *)
(***************************************************************************)
EXTENDS Integers, Sequences, FiniteSets

CONSTANTS
  Workers,       \* identities of the threads start_stream() is run by
  NoThread,      \* a jthread that is not joinable
  Messages,      \* what a peer may do with a connection
  Promises,      \* what the environment is assumed to keep, see below
  BacklogLimit,  \* connections the kernel queues: listen(fd, 1) queues 2
  MaxRequests,   \* bound of the model on the number of connections
  MaxSignals     \* bound of the model on the number of signals

\* silent: connect and send nothing; closed: connect and close.
AllMessages == {"start_stream", "stop_stream", "end_stream", "update_stream",
                "silent", "closed"}

(***************************************************************************)
(* Nothing in the code enforces a promise. Each excludes a race, or a wait  *)
(* for good, that breaks a property below.                                 *)
(*   silent_peers_close    a peer that writes nothing closes in the end    *)
(*   no_start_after_stop   start_stream is not sent once a stop was asked  *)
(*   stop_after_rtp        a stop is asked once the started loops run      *)
(*   stop_while_waiting    a stop is asked once main() is in wait()        *)
(*   signal_after_listen   a signal comes once listen() is in its loop     *)
(*   no_late_wakeups       wait() returns spuriously only before a stop    *)
(***************************************************************************)
AllPromises == {"silent_peers_close", "no_start_after_stop", "stop_after_rtp",
                "stop_while_waiting", "signal_after_listen", "no_late_wakeups"}

ASSUME SessionAssumption ==
  /\ NoThread \notin Workers
  /\ Messages \subseteq AllMessages
  /\ Promises \subseteq AllPromises
  /\ BacklogLimit \in Nat /\ MaxRequests \in Nat /\ MaxSignals \in Nat

VARIABLES
  main,          \* where main() is
  main_joins,    \* the thread ~RtpEngine waits for
  listener,      \* where the listener thread is
  listener_joins,\* the thread the assignment to m_worker waits for
  client,        \* the message of the accepted connection
  worker,        \* for each send-loop thread, where it is
  m_worker,      \* RtpEngine::m_worker
  s_active,      \* Scheduler::m_active
  c_active,      \* UnixSocketControlChannel::m_active
  handler_set,   \* RtpEngine::m_shutdown_handler is not empty
  g_shutdown_requested,
  backlog,       \* kernel: connections not yet accepted
  signal,        \* whether a signal handler runs
  requests,      \* history: connections so far
  signals,       \* history: signals so far
  stop_asked,    \* history: some peer sent stop_stream, or a signal came
  second_stop    \* history: a stop was asked for once more

mainVars == <<main, main_joins>>
listenerVars == <<listener, listener_joins, client>>
engineMembers == <<worker, m_worker, s_active, handler_set>>
environmentVars == <<signal, requests, signals, stop_asked, second_stop>>

sessionVars == <<mainVars, listenerVars, engineMembers, environmentVars,
                 c_active, g_shutdown_requested, backlog>>

MainSteps == {"run", "register", "predicate", "blocking", "waiting", "end_stream",
              "stop_channel", "join_worker", "joining", "join_listener",
              "close_channel", "exited"}

ListenerSteps == {"none", "entering", "check", "poll", "read", "assign",
                  "join_old", "h_end_stream", "h_stop_channel", "h_handler",
                  "h_flag", "h_notify", "done"}

\* The channel and the engine are constructed; main() is about to call run().
\* A signal may have come before, from the first line of main() on.
SessionInit ==
  /\ main = "run" /\ main_joins = NoThread
  /\ listener = "none" /\ listener_joins = NoThread /\ client = "closed"
  /\ worker = [w \in Workers |-> "none"]
  /\ m_worker = NoThread
  /\ s_active = FALSE /\ c_active = FALSE
  /\ handler_set = FALSE
  /\ g_shutdown_requested \in BOOLEAN /\ stop_asked = g_shutdown_requested
  /\ Promises \intersect {"stop_while_waiting", "signal_after_listen"} # {}
       => ~g_shutdown_requested
  /\ backlog = <<>>
  /\ signal = FALSE
  /\ requests = 0 /\ signals = 0
  /\ second_stop = FALSE

-------------------------------------------------------------------------------
(* main()                                                                   *)

\* A step of main() that writes nothing shared.
MainMovesTo(step) ==
  /\ main' = step
  /\ UNCHANGED <<main_joins, listenerVars, engineMembers, environmentVars,
                 c_active, g_shutdown_requested, backlog>>

\* engine.run()
Run ==
  /\ main = "run"
  /\ main' = "register"
  /\ listener' = "entering"
  /\ UNCHANGED <<main_joins, listener_joins, client, engineMembers,
                 environmentVars, c_active, g_shutdown_requested, backlog>>

\* engine.on_shutdown(...)
RegisterHandler ==
  /\ main = "register"
  /\ main' = "predicate"
  /\ handler_set' = TRUE
  /\ UNCHANGED <<main_joins, listenerVars, worker, m_worker, s_active,
                 environmentVars, c_active, g_shutdown_requested, backlog>>

\* The predicate of g_shutdown_cv.wait.
EvaluatePredicate ==
  /\ main = "predicate"
  /\ MainMovesTo(IF g_shutdown_requested THEN "end_stream" ELSE "blocking")

\* The wait releases the mutex and blocks. Whoever sets the flag does not take
\* the mutex, so the flag may have been set since the predicate was evaluated.
BlockInWait ==
  /\ main = "blocking"
  /\ MainMovesTo("waiting")

\* engine.stop(): the send loop is left running.
MainForgetsStream == main = "end_stream" /\ MainMovesTo("stop_channel")

\* engine.stop(): m_scheduler.end_stream()
MainEndsStream ==
  /\ main = "end_stream"
  /\ main' = "stop_channel"
  /\ s_active' = FALSE
  /\ UNCHANGED <<main_joins, listenerVars, worker, m_worker, handler_set,
                 environmentVars, c_active, g_shutdown_requested, backlog>>

\* engine.stop(): the channel is left running.
MainForgetsChannel ==
  /\ main = "stop_channel"
  /\ MainMovesTo("join_worker")

\* engine.stop(): m_control_channel.stop()
MainStopsChannel ==
  /\ main = "stop_channel"
  /\ main' = "join_worker"
  /\ c_active' = FALSE
  /\ UNCHANGED <<main_joins, listenerVars, engineMembers, environmentVars,
                 g_shutdown_requested, backlog>>

\* ~RtpEngine begins with ~m_worker, which joins the thread it holds.
DestroyWorker ==
  /\ main = "join_worker"
  /\ main_joins' = m_worker
  /\ main' = IF m_worker = NoThread THEN "join_listener" ELSE "joining"
  /\ UNCHANGED <<listenerVars, engineMembers, environmentVars,
                 c_active, g_shutdown_requested, backlog>>

\* ~m_worker detaches instead of joining.
WorkerDetached ==
  /\ main = "joining"
  /\ MainMovesTo("join_listener")

\* After the join the scheduler, the engine, the sender, the options and the
\* shutdown handler are destroyed, before the listener is joined.
WorkerJoined ==
  /\ main = "joining"
  /\ worker[main_joins] = "done"
  /\ MainMovesTo("join_listener")

\* ~m_control_worker joins the listener.
ListenerJoined ==
  /\ main = "join_listener"
  /\ listener = "done"
  /\ MainMovesTo("close_channel")

\* ~UnixSocketControlChannel, return from main.
CloseChannel ==
  /\ main = "close_channel"
  /\ main' = "exited"
  /\ c_active' = FALSE
  /\ backlog' = <<>>
  /\ UNCHANGED <<main_joins, listenerVars, engineMembers, environmentVars,
                 g_shutdown_requested>>

MainStep ==
  \/ Run \/ RegisterHandler \/ EvaluatePredicate \/ BlockInWait
  \/ MainEndsStream \/ MainStopsChannel \/ DestroyWorker \/ WorkerJoined
  \/ ListenerJoined \/ CloseChannel

\* notify_all() wakes main() if it is blocked, and is lost otherwise.
Notified(m) == IF m = "waiting" THEN "predicate" ELSE m

-------------------------------------------------------------------------------
(* The listener thread: listen() and the handlers it calls.                 *)

\* A step of the listener that writes nothing shared.
ListenerMovesTo(step) ==
  /\ listener' = step
  /\ UNCHANGED <<mainVars, listener_joins, client, engineMembers,
                 environmentVars, c_active, g_shutdown_requested, backlog>>

EnterListen ==
  /\ listener = "entering"
  /\ listener' = "check"
  /\ c_active' = TRUE
  /\ UNCHANGED <<mainVars, listener_joins, client, engineMembers,
                 environmentVars, g_shutdown_requested, backlog>>

\* The loop of listen() does not look at m_active.
ListenForEver == listener = "check" /\ ListenerMovesTo("poll")

CheckListenerActive ==
  /\ listener = "check"
  /\ ListenerMovesTo(IF c_active THEN "poll" ELSE "done")

\* poll() times out after 200 ms, or a signal interrupts it.
PollTimesOut ==
  /\ listener = "poll"
  /\ backlog = <<>>
  /\ ListenerMovesTo("check")

PollFails ==
  /\ listener = "poll"
  /\ ListenerMovesTo("done")

\* The result of accept() is not looked at: read() is called with -1.
AcceptUnchecked ==
  /\ listener = "poll"
  /\ backlog # <<>>
  /\ client' = "no_descriptor"
  /\ listener' = "read"
  /\ UNCHANGED <<mainVars, listener_joins, engineMembers, environmentVars,
                 c_active, g_shutdown_requested, backlog>>

\* accept() fails, with no descriptor free say: the connection stays queued.
\* The break on !m_active does what the loop condition does.
AcceptFails ==
  /\ listener = "poll"
  /\ backlog # <<>>
  /\ ListenerMovesTo("check")

Accept ==
  /\ listener = "poll"
  /\ backlog # <<>>
  /\ client' = Head(backlog)
  /\ backlog' = Tail(backlog)
  /\ listener' = "read"
  /\ UNCHANGED <<mainVars, listener_joins, engineMembers, environmentVars,
                 c_active, g_shutdown_requested>>

\* read() returns and dispatch() has nothing to call: an unknown prefix, an
\* update_stream (no handler does anything with it), or nothing was read.
DispatchNothing ==
  /\ listener = "read"
  /\ client \in {"end_stream", "update_stream", "closed"}
  /\ ListenerMovesTo("check")

\* The start handler constructs a thread that runs m_scheduler.start_stream().
DispatchStart ==
  /\ listener = "read"
  /\ client = "start_stream"
  /\ \E w \in Workers :
       /\ worker[w] = "none"
       /\ worker' = [worker EXCEPT ![w] = "spawned"]
       /\ listener_joins' = w
  /\ listener' = "assign"
  /\ UNCHANGED <<mainVars, client, m_worker, s_active, handler_set,
                 environmentVars, c_active, g_shutdown_requested, backlog>>

\* The assignment to m_worker forgets the thread that was there.
AssignWorkerForgetting ==
  /\ listener = "assign"
  /\ m_worker' = listener_joins
  /\ listener' = "check"
  /\ UNCHANGED <<mainVars, listener_joins, client, worker, s_active, handler_set,
                 environmentVars, c_active, g_shutdown_requested, backlog>>

\* The assignment to m_worker swaps in the new thread and waits for the old
\* one, if there is one; the stop token it requests to stop is not looked at.
AssignWorker ==
  /\ listener = "assign"
  /\ m_worker' = listener_joins
  /\ listener_joins' = m_worker
  /\ listener' = IF m_worker = NoThread THEN "check" ELSE "join_old"
  /\ UNCHANGED <<mainVars, client, worker, s_active, handler_set,
                 environmentVars, c_active, g_shutdown_requested, backlog>>

OldWorkerJoined ==
  /\ listener = "join_old"
  /\ worker[listener_joins] = "done"
  /\ ListenerMovesTo("check")

DispatchStop ==
  /\ listener = "read"
  /\ client = "stop_stream"
  /\ ListenerMovesTo("h_end_stream")

\* The end handler: stop() is end_stream() ...
HandlerEndsStream ==
  /\ listener = "h_end_stream"
  /\ listener' = "h_stop_channel"
  /\ s_active' = FALSE
  /\ UNCHANGED <<mainVars, listener_joins, client, worker, m_worker, handler_set,
                 environmentVars, c_active, g_shutdown_requested, backlog>>

\* ... and the stop() of the channel the handler was called by.
HandlerStopsChannel ==
  /\ listener = "h_stop_channel"
  /\ listener' = "h_handler"
  /\ c_active' = FALSE
  /\ UNCHANGED <<mainVars, listener_joins, client, engineMembers,
                 environmentVars, g_shutdown_requested, backlog>>

\* if (m_shutdown_handler). The read races with the registration: it sees the
\* handler or it does not.
LookForHandler ==
  /\ listener = "h_handler"
  /\ ListenerMovesTo(IF handler_set THEN "h_flag" ELSE "check")

HandlerSetsFlag ==
  /\ listener = "h_flag"
  /\ listener' = "h_notify"
  /\ g_shutdown_requested' = TRUE
  /\ UNCHANGED <<mainVars, listener_joins, client, engineMembers,
                 environmentVars, c_active, backlog>>

\* The handler sets the flag and notifies nobody.
HandlerForgetsToNotify ==
  /\ listener = "h_notify"
  /\ ListenerMovesTo("check")

\* The shutdown handler is called before stop().
HandlerNotifiesBeforeStop ==
  /\ listener = "h_notify"
  /\ listener' = "h_end_stream"
  /\ main' = Notified(main)
  /\ UNCHANGED <<main_joins, listener_joins, client, engineMembers,
                 environmentVars, c_active, g_shutdown_requested, backlog>>

HandlerNotifies ==
  /\ listener = "h_notify"
  /\ listener' = "check"
  /\ main' = Notified(main)
  /\ UNCHANGED <<main_joins, listener_joins, client, engineMembers,
                 environmentVars, c_active, g_shutdown_requested, backlog>>

ListenerStep ==
  \/ EnterListen \/ CheckListenerActive \/ PollTimesOut \/ PollFails
  \/ AcceptFails \/ Accept \/ DispatchNothing \/ DispatchStart \/ AssignWorker
  \/ OldWorkerJoined \/ DispatchStop \/ HandlerEndsStream \/ HandlerStopsChannel
  \/ LookForHandler \/ HandlerSetsFlag \/ HandlerNotifies

-------------------------------------------------------------------------------
(* A send-loop thread: Scheduler::start_stream() seen from outside.         *)

EnterLoop(w) ==
  /\ worker[w] = "spawned"
  /\ worker' = [worker EXCEPT ![w] = "looping"]
  /\ s_active' = TRUE
  /\ UNCHANGED <<mainVars, listenerVars, m_worker, handler_set, environmentVars,
                 c_active, g_shutdown_requested, backlog>>

\* The loop ends on its own, when there is nothing left to send say.
LeaveLoopUnasked(w) ==
  /\ worker[w] = "looping"
  /\ worker' = [worker EXCEPT ![w] = "done"]
  /\ UNCHANGED <<mainVars, listenerVars, m_worker, s_active, handler_set,
                 environmentVars, c_active, g_shutdown_requested, backlog>>

LeaveLoop(w) ==
  /\ worker[w] = "looping"
  /\ ~s_active
  /\ worker' = [worker EXCEPT ![w] = "done"]
  /\ UNCHANGED <<mainVars, listenerVars, m_worker, s_active, handler_set,
                 environmentVars, c_active, g_shutdown_requested, backlog>>

\* The exit of the process ends every thread.
WorkerStep(w) == main # "exited" /\ (EnterLoop(w) \/ LeaveLoop(w))

-------------------------------------------------------------------------------
(* The environment: peers, signals, spurious wakeups.                       *)

\* No start_stream is on its way to becoming a running loop.
StartsTookEffect ==
  /\ \A i \in DOMAIN backlog : backlog[i] # "start_stream"
  /\ ~(listener = "read" /\ client = "start_stream")
  /\ \A w \in Workers : worker[w] # "spawned"
  /\ listener # "assign"

StopMayBeAsked ==
  /\ "stop_after_rtp" \in Promises => StartsTookEffect
  /\ "stop_while_waiting" \in Promises => main = "waiting"

MayBeSent(m) ==
  /\ m = "start_stream" => ("no_start_after_stop" \in Promises => ~stop_asked)
  /\ m = "stop_stream" => StopMayBeAsked

Connect(m) ==
  /\ main # "exited"
  /\ requests < MaxRequests
  /\ Len(backlog) < BacklogLimit
  /\ MayBeSent(m)
  /\ backlog' = Append(backlog, m)
  /\ requests' = requests + 1
  /\ stop_asked' = (stop_asked \/ m = "stop_stream")
  /\ second_stop' = (second_stop \/ (stop_asked /\ m = "stop_stream"))
  /\ UNCHANGED <<mainVars, listenerVars, engineMembers, signal, signals,
                 c_active, g_shutdown_requested>>

\* A silent peer gives up: read() returns 0.
SilentPeerCloses ==
  /\ listener = "read"
  /\ client = "silent"
  /\ client' = "closed"
  /\ UNCHANGED <<mainVars, listener, listener_joins, engineMembers,
                 environmentVars, c_active, g_shutdown_requested, backlog>>

\* handle_signal(), on whichever thread: the flag first ...
SignalSetsFlag ==
  /\ main # "exited"
  /\ ~signal
  /\ signals < MaxSignals
  /\ StopMayBeAsked
  /\ "signal_after_listen" \in Promises => listener \notin {"none", "entering"}
  /\ signal' = TRUE
  /\ signals' = signals + 1
  /\ stop_asked' = TRUE
  /\ second_stop' = (second_stop \/ stop_asked)
  /\ g_shutdown_requested' = TRUE
  /\ UNCHANGED <<mainVars, listenerVars, engineMembers, requests, c_active, backlog>>

\* ... then notify_all().
SignalNotifies ==
  /\ main # "exited"
  /\ signal
  /\ signal' = FALSE
  /\ main' = Notified(main)
  /\ UNCHANGED <<main_joins, listenerVars, engineMembers, requests, signals,
                 stop_asked, second_stop, c_active, g_shutdown_requested, backlog>>

SpuriousWakeup ==
  /\ main = "waiting"
  /\ "no_late_wakeups" \in Promises => ~stop_asked
  /\ MainMovesTo("predicate")

Exited == main = "exited" /\ UNCHANGED sessionVars

-------------------------------------------------------------------------------
SessionNext ==
  \/ MainStep
  \/ ListenerStep
  \/ \E w \in Workers : WorkerStep(w)
  \/ \E m \in Messages : Connect(m)
  \/ SilentPeerCloses \/ SignalSetsFlag \/ SignalNotifies \/ SpuriousWakeup
  \/ Exited

\* The threads and a signal handler that began run on. Nothing makes a peer
\* connect or a signal come, and only a promise makes a silent peer close.
SessionFairness ==
  /\ WF_sessionVars(MainStep)
  /\ WF_sessionVars(ListenerStep)
  /\ \A w \in Workers : WF_sessionVars(WorkerStep(w))
  /\ WF_sessionVars(SignalNotifies)
  /\ "silent_peers_close" \in Promises => WF_sessionVars(SilentPeerCloses)

SessionSpec == SessionInit /\ [][SessionNext]_sessionVars /\ SessionFairness

-------------------------------------------------------------------------------
(* Properties.                                                              *)

SessionTypeOK ==
  /\ main \in MainSteps
  /\ listener \in ListenerSteps
  /\ {main_joins, listener_joins, m_worker} \subseteq Workers \union {NoThread}
  /\ client \in Messages \union {"closed"}
  /\ worker \in [Workers -> {"none", "spawned", "looping", "done"}]
  /\ {s_active, c_active, handler_set, g_shutdown_requested, signal, stop_asked,
      second_stop} \subseteq BOOLEAN
  /\ backlog \in Seq(Messages) /\ Len(backlog) <= BacklogLimit
  /\ requests \in 0 .. MaxRequests
  /\ signals \in 0 .. MaxSignals

EngineDestroyed == main \in {"join_listener", "close_channel", "exited"}

Alive(w) == worker[w] \in {"spawned", "looping"}

\* However many start_stream come, and whenever: a loop that runs or is about to is
\* held by m_worker, or by the assignment to it, which joins it. So two threads at
\* most are in Scheduler::start_stream(), and none is left without a joiner.
LoopsAreHeld ==
  \A w \in Workers : Alive(w) =>
    w = m_worker \/ (listener \in {"assign", "join_old"} /\ w = listener_joins)

\* ~RtpEngine: no send loop runs, or is about to, on a scheduler, an engine or
\* a sender that is destroyed, except the one a second start_stream replaced,
\* as long as the listener waits for it.
TeardownIsFinal ==
  EngineDestroyed => \A w \in Workers : Alive(w) => listener = "join_old" /\ w = listener_joins

\* Where the listener is about to use the scheduler, m_worker or
\* m_shutdown_handler. What is left to it after them is to notify a global, or to
\* join the thread that was swapped out of m_worker.
UsesMembers == {"assign", "h_end_stream", "h_stop_channel", "h_handler", "h_flag"}

\* A process that is asked to stop once: no handler that the listener runs uses
\* a member after ~RtpEngine destroyed it.
HandlersUseLiveMembers ==
  EngineDestroyed /\ ~second_stop => listener \notin UsesMembers

\* The channel half of stop() works when the end handler calls it, on the listener's
\* own thread: the listener returns from the handler and leaves its loop.
StopOnListenerEndsListening ==
  (listener = "h_stop_channel") ~> (listener = "done")

\* Documentation of Scheduler::end_stream(): the send loop stops after its
\* current iteration, whoever called stop().
StopEndsSendLoop ==
  (main = "stop_channel" \/ listener = "h_stop_channel")
    ~> \A w \in Workers : ~Alive(w)

\* Documentation of IControlChannel::listen() and stop(): listen() returns once
\* stop() is called, from whichever thread.
ListenReturnsAfterStop == (main = "join_worker") ~> (listener = "done")

\* Documentation of RtpEngine::stop() and on_shutdown(): a stop_stream ends the
\* process from the moment its connection is accepted. One that is queued when
\* poll() fails is never read.
StopStreamEndsProcess ==
  (listener = "read" /\ client = "stop_stream") ~> (main = "exited")

\* Documentation of RtpEngine::stop(): a SIGTERM (or SIGINT) ends the process.
SigtermEndsProcess == signal ~> (main = "exited")

-------------------------------------------------------------------------------
(* The lifecycle this session implements. It closes with the first stop     *)
(* that anybody acts on, and the stream is live as long as some thread is.  *)

Closing ==
  g_shutdown_requested
    \/ listener \in {"h_end_stream", "h_stop_channel", "h_handler", "h_flag"}

PhaseOfSession ==
  IF main = "exited" THEN "ended" ELSE IF Closing THEN "closing" ELSE "serving"

StreamOfSession ==
  IF \E w \in Workers : Alive(w) THEN "live"
  ELSE IF \E w \in Workers : worker[w] = "done" THEN "ceased" ELSE "none"

Life == INSTANCE SessionLifecycle WITH phase <- PhaseOfSession, stream <- StreamOfSession

\* The process behaves as the comments on RtpEngine promise: one stream at most,
\* which a second start_stream does not interrupt, which ceases only after a stop
\* and has ceased when the process ends, and a stop is final.
ImplementsLifecycle == Life!LifeSafety

===============================================================================
