----------------------------- MODULE SessionProofs -----------------------------
(* Proofs about Session for any number of threads, requests and signals and *)
(* for any set of promises.                                                 *)
EXTENDS Session, TLAPS

\* The type invariant with the one place a thread identity is dereferenced.
SessionInv ==
  /\ SessionTypeOK
  /\ main = "joining" => main_joins \in Workers
  /\ listener \in {"assign", "join_old"} => listener_joins \in Workers

LEMMA SessionInit_Inv == SessionInit => SessionInv
<1> SUFFICES ASSUME SessionInit PROVE SessionInv
  OBVIOUS
<1> USE SessionAssumption DEF SessionInit
<1>1. backlog \in Seq(Messages) /\ Len(backlog) <= BacklogLimit
  OBVIOUS
<1>2. {s_active, c_active, handler_set, g_shutdown_requested, signal, stop_asked,
       second_stop} \subseteq BOOLEAN
  BY ZenonT(30)
<1> QED
  BY <1>1, <1>2 DEF SessionInv, SessionTypeOK, MainSteps, ListenerSteps

LEMMA MainStep_Inv == SessionInv /\ MainStep => SessionInv'
<1> SUFFICES ASSUME SessionInv, MainStep PROVE SessionInv'
  OBVIOUS
<1> USE SessionAssumption
    DEF SessionInv, SessionTypeOK, MainSteps, ListenerSteps, mainVars, listenerVars,
        engineMembers, environmentVars, MainMovesTo
<1>1. CASE Run
  BY <1>1 DEF Run
<1>2. CASE RegisterHandler
  BY <1>2 DEF RegisterHandler
<1>3. CASE EvaluatePredicate
  BY <1>3 DEF EvaluatePredicate
<1>4. CASE BlockInWait
  BY <1>4 DEF BlockInWait
<1>5. CASE MainEndsStream
  BY <1>5 DEF MainEndsStream
<1>6. CASE MainStopsChannel
  BY <1>6 DEF MainStopsChannel
<1>7. CASE DestroyWorker
  BY <1>7 DEF DestroyWorker
<1>8. CASE WorkerJoined
  BY <1>8 DEF WorkerJoined
<1>9. CASE ListenerJoined
  BY <1>9 DEF ListenerJoined
<1>10. CASE CloseChannel
  <2>1. backlog' = <<>>
    BY <1>10 DEF CloseChannel
  <2>2. (backlog \in Seq(Messages) /\ Len(backlog) <= BacklogLimit)'
    BY <2>1
  <2>3. main' \in MainSteps /\ main' # "joining"
    BY <1>10 DEF CloseChannel
  <2>4. ({s_active, c_active, handler_set, g_shutdown_requested, signal, stop_asked,
          second_stop} \subseteq BOOLEAN)'
    BY <1>10, ZenonT(30) DEF CloseChannel
  <2> QED
    BY <1>10, <2>2, <2>3, <2>4 DEF CloseChannel
<1> QED
  BY <1>1, <1>2, <1>3, <1>4, <1>5, <1>6, <1>7, <1>8, <1>9, <1>10 DEF MainStep

LEMMA ListenerStep_Inv == SessionInv /\ ListenerStep => SessionInv'
<1> SUFFICES ASSUME SessionInv, ListenerStep PROVE SessionInv'
  OBVIOUS
<1> USE SessionAssumption
    DEF SessionInv, SessionTypeOK, MainSteps, ListenerSteps, mainVars, listenerVars,
        engineMembers, environmentVars, ListenerMovesTo
<1>1. CASE EnterListen
  BY <1>1 DEF EnterListen
<1>2. CASE CheckListenerActive \/ PollTimesOut \/ PollFails \/ AcceptFails
  BY <1>2 DEF CheckListenerActive, PollTimesOut, PollFails, AcceptFails
<1>3. CASE Accept
  BY <1>3 DEF Accept
<1>4. CASE DispatchNothing \/ DispatchStop \/ LookForHandler
  BY <1>4 DEF DispatchNothing, DispatchStop, LookForHandler
<1>5. CASE DispatchStart
  BY <1>5 DEF DispatchStart
<1>6. CASE AssignWorker
  BY <1>6 DEF AssignWorker
<1>7. CASE OldWorkerJoined
  BY <1>7 DEF OldWorkerJoined
<1>8. CASE HandlerEndsStream
  BY <1>8 DEF HandlerEndsStream
<1>9. CASE HandlerStopsChannel
  BY <1>9 DEF HandlerStopsChannel
<1>10. CASE HandlerSetsFlag
  BY <1>10 DEF HandlerSetsFlag
<1>11. CASE HandlerNotifies
  BY <1>11 DEF HandlerNotifies, Notified
<1> QED
  BY <1>1, <1>2, <1>3, <1>4, <1>5, <1>6, <1>7, <1>8, <1>9, <1>10, <1>11
     DEF ListenerStep

LEMMA WorkerStep_Inv ==
  ASSUME SessionInv, NEW w \in Workers, WorkerStep(w)
  PROVE  SessionInv'
BY DEF SessionInv, SessionTypeOK, MainSteps, ListenerSteps, mainVars, listenerVars,
       engineMembers, environmentVars, WorkerStep, EnterLoop, LeaveLoop

\* What is neither main(), the listener nor a send loop.
EnvironmentStep ==
  \/ \E m \in Messages : Connect(m)
  \/ SilentPeerCloses \/ SignalSetsFlag \/ SignalNotifies \/ SpuriousWakeup
  \/ Exited

LEMMA EnvironmentStep_Inv == SessionInv /\ EnvironmentStep => SessionInv'
<1> SUFFICES ASSUME SessionInv, EnvironmentStep PROVE SessionInv'
  OBVIOUS
<1> USE SessionAssumption
    DEF SessionInv, SessionTypeOK, MainSteps, ListenerSteps, mainVars, listenerVars,
        engineMembers, environmentVars, MainMovesTo
<1>1. ASSUME NEW m \in Messages, Connect(m) PROVE SessionInv'
  BY <1>1 DEF Connect
<1>2. CASE SilentPeerCloses
  BY <1>2 DEF SilentPeerCloses
<1>3. CASE SignalSetsFlag
  BY <1>3 DEF SignalSetsFlag
<1>4. CASE SignalNotifies
  BY <1>4 DEF SignalNotifies, Notified
<1>5. CASE SpuriousWakeup
  BY <1>5 DEF SpuriousWakeup
<1>6. CASE Exited
  BY <1>6 DEF Exited, sessionVars
<1> QED
  BY <1>1, <1>2, <1>3, <1>4, <1>5, <1>6 DEF EnvironmentStep

LEMMA Session_Invariance == SessionSpec => []SessionInv
<1>1. SessionInv /\ [SessionNext]_sessionVars => SessionInv'
  <2> SUFFICES ASSUME SessionInv, [SessionNext]_sessionVars PROVE SessionInv'
    OBVIOUS
  <2>1. CASE UNCHANGED sessionVars
    BY <2>1 DEF SessionInv, SessionTypeOK, sessionVars, mainVars, listenerVars,
                engineMembers, environmentVars
  <2> QED
    BY <2>1, MainStep_Inv, ListenerStep_Inv, WorkerStep_Inv, EnvironmentStep_Inv
       DEF SessionNext, EnvironmentStep
<1> QED
  BY <1>1, SessionInit_Inv, PTL DEF SessionSpec

\* The types of the session's state, for all bounds and environments.
THEOREM SessionTypeCorrect == SessionSpec => []SessionTypeOK
<1>1. SessionInv => SessionTypeOK
  BY DEF SessionInv
<1> QED
  BY <1>1, Session_Invariance, PTL

-------------------------------------------------------------------------------
(* main() closes the channel after the listener has left listen(), and the  *)
(* listener never comes back: its last step is final. That needs the start  *)
(* of the thread in the invariant: run() is called once, before all else.   *)

ChannelOutlivesListener ==
  main \in {"close_channel", "exited"} => listener = "done"

ChannelInv ==
  /\ ChannelOutlivesListener
  /\ (listener = "none") <=> (main = "run")

LEMMA ChannelInv_Step ==
  ASSUME SessionInv, ChannelInv, [SessionNext]_sessionVars
  PROVE  ChannelInv'
<1> USE DEF SessionInv, ChannelInv, ChannelOutlivesListener, mainVars, listenerVars,
            MainMovesTo, ListenerMovesTo
<1>1. CASE MainStep
  BY <1>1 DEF MainStep, Run, RegisterHandler, EvaluatePredicate, BlockInWait,
              MainEndsStream, MainStopsChannel, DestroyWorker, WorkerJoined,
              ListenerJoined, CloseChannel
<1>2. CASE ListenerStep
  BY <1>2 DEF ListenerStep, EnterListen, CheckListenerActive, PollTimesOut,
              PollFails, AcceptFails, Accept, DispatchNothing, DispatchStart,
              AssignWorker, OldWorkerJoined, DispatchStop, HandlerEndsStream,
              HandlerStopsChannel, LookForHandler, HandlerSetsFlag,
              HandlerNotifies, Notified
<1>3. ASSUME NEW w \in Workers, WorkerStep(w) PROVE ChannelInv'
  BY <1>3 DEF WorkerStep, EnterLoop, LeaveLoop
<1>4. CASE EnvironmentStep
  BY <1>4 DEF EnvironmentStep, Connect, SilentPeerCloses, SignalSetsFlag,
              SignalNotifies, SpuriousWakeup, Exited, sessionVars, Notified
<1>5. CASE UNCHANGED sessionVars
  BY <1>5 DEF sessionVars
<1> QED
  BY <1>1, <1>2, <1>3, <1>4, <1>5 DEF SessionNext, EnvironmentStep

LEMMA Channel_Invariance == SessionSpec => []ChannelInv
<1>1. SessionInit => ChannelInv
  BY DEF SessionInit, ChannelInv, ChannelOutlivesListener
<1> QED
  BY <1>1, ChannelInv_Step, Session_Invariance, PTL DEF SessionSpec

-------------------------------------------------------------------------------
(* Who holds the send loops. The thread a start_stream constructs goes from *)
(* the listener's temporary to m_worker in one swap, and the one that was   *)
(* there back to the temporary, which joins it.                             *)

LEMMA LoopsAreHeld_Step ==
  ASSUME SessionInv, ChannelInv, LoopsAreHeld, [SessionNext]_sessionVars
  PROVE  LoopsAreHeld'
<1> USE DEF SessionInv, SessionTypeOK, LoopsAreHeld, Alive, mainVars, listenerVars,
            engineMembers, MainMovesTo, ListenerMovesTo
<1>1. CASE MainStep
  BY <1>1 DEF MainStep, Run, RegisterHandler, EvaluatePredicate, BlockInWait,
              MainEndsStream, MainStopsChannel, DestroyWorker, WorkerJoined,
              ListenerJoined, CloseChannel, ChannelInv
<1>2. CASE DispatchStart
  BY <1>2 DEF DispatchStart
<1>3. CASE AssignWorker
  BY <1>3, SessionAssumption DEF AssignWorker
<1>4. CASE OldWorkerJoined
  BY <1>4 DEF OldWorkerJoined
<1>5. CASE ListenerStep /\ ~DispatchStart /\ ~AssignWorker /\ ~OldWorkerJoined
  BY <1>5 DEF ListenerStep, EnterListen, CheckListenerActive, PollTimesOut,
              PollFails, AcceptFails, Accept, DispatchNothing, DispatchStop,
              HandlerEndsStream, HandlerStopsChannel, LookForHandler, HandlerSetsFlag,
              HandlerNotifies
<1>6. ASSUME NEW w \in Workers, WorkerStep(w) PROVE LoopsAreHeld'
  BY <1>6 DEF WorkerStep, EnterLoop, LeaveLoop
<1>7. CASE EnvironmentStep
  BY <1>7 DEF EnvironmentStep, Connect, SilentPeerCloses, SignalSetsFlag,
              SignalNotifies, SpuriousWakeup, Exited, sessionVars
<1>8. CASE UNCHANGED sessionVars
  BY <1>8 DEF sessionVars
<1> QED
  BY <1>1, <1>2, <1>3, <1>4, <1>5, <1>6, <1>7, <1>8 DEF SessionNext, EnvironmentStep

\* Whatever is sent and whenever, a send loop that runs or is about to is the one
\* ~m_worker will join or the one the listener is joining.
THEOREM SessionLoopsAreHeld == SessionSpec => []LoopsAreHeld
<1>1. SessionInit => LoopsAreHeld
  BY DEF SessionInit, LoopsAreHeld, Alive
<1> QED
  BY <1>1, LoopsAreHeld_Step, Session_Invariance, Channel_Invariance, PTL
     DEF SessionSpec

-------------------------------------------------------------------------------
(* Teardown. Once a stop was asked no thread is on its way to m_worker and  *)
(* none can come, so that m_worker is still the thread ~RtpEngine joins     *)
(* when the join returns. With LoopsAreHeld, what may be left then is the   *)
(* thread the listener is joining.                                          *)

StartPromises == {"no_start_after_stop", "stop_after_rtp"}

\* Who acts on a stop was asked to.
StopsAreAsked ==
  /\ g_shutdown_requested => stop_asked
  /\ \A i \in DOMAIN backlog : backlog[i] = "stop_stream" => stop_asked
  /\ listener = "read" /\ client = "stop_stream" => stop_asked
  /\ listener \in {"h_end_stream", "h_stop_channel", "h_handler", "h_flag"}
       => stop_asked
  /\ main \in {"end_stream", "stop_channel", "join_worker", "joining"}
       \/ EngineDestroyed => g_shutdown_requested
  /\ stop_asked => StartsTookEffect

TeardownInv ==
  /\ StopsAreAsked
  /\ main = "joining" => main_joins = m_worker
  /\ TeardownIsFinal

\* What the three parts of the invariant read.
LEMMA Teardown_Unchanged ==
  ASSUME TeardownInv,
         UNCHANGED <<worker, m_worker, listener_joins, backlog, stop_asked,
                     main_joins, g_shutdown_requested, listener, client, main>>
  PROVE  TeardownInv'
BY DEF TeardownInv, StopsAreAsked, TeardownIsFinal, EngineDestroyed, Alive,
       StartsTookEffect

LEMMA Teardown_MainStep ==
  ASSUME SessionInv, ChannelInv, LoopsAreHeld, TeardownInv, MainStep
  PROVE  TeardownInv'
<1> USE DEF SessionInv, SessionTypeOK, TeardownInv, mainVars, listenerVars, engineMembers,
            environmentVars, MainMovesTo
<1>1. CASE Run
  BY <1>1 DEF Run, ChannelInv, StopsAreAsked, TeardownIsFinal, EngineDestroyed, Alive,
              StartsTookEffect
<1>2. CASE CloseChannel
  BY <1>2 DEF CloseChannel, StopsAreAsked, TeardownIsFinal, EngineDestroyed, Alive,
              StartsTookEffect
<1>3. ASSUME MainStep, ~Run, ~CloseChannel
      PROVE  UNCHANGED <<worker, m_worker, listener_joins, backlog, stop_asked,
                         g_shutdown_requested, listener, client>>
  BY <1>3 DEF MainStep, RegisterHandler, EvaluatePredicate, BlockInWait, MainEndsStream,
              MainStopsChannel, DestroyWorker, WorkerJoined, ListenerJoined
<1>4. ASSUME MainStep, ~Run, ~CloseChannel PROVE StopsAreAsked'
  BY <1>3, <1>4 DEF StopsAreAsked, StartsTookEffect, EngineDestroyed, MainStep,
              RegisterHandler, EvaluatePredicate, BlockInWait, MainEndsStream,
              MainStopsChannel, DestroyWorker, WorkerJoined, ListenerJoined
<1>5. ASSUME MainStep, ~Run, ~CloseChannel
      PROVE  (main = "joining" => main_joins = m_worker)'
  BY <1>5 DEF MainStep, RegisterHandler, EvaluatePredicate, BlockInWait, MainEndsStream,
              MainStopsChannel, DestroyWorker, WorkerJoined, ListenerJoined
<1>6. ASSUME MainStep, ~Run, ~CloseChannel PROVE TeardownIsFinal'
  <2>1. CASE DestroyWorker
    <3>1. listener # "assign"
      BY <2>1 DEF DestroyWorker, StopsAreAsked, StartsTookEffect
    <3> QED
      BY <2>1, <3>1, SessionAssumption
         DEF DestroyWorker, TeardownIsFinal, EngineDestroyed, LoopsAreHeld, Alive
  <2>2. CASE WorkerJoined
    <3>1. listener # "assign" /\ main_joins = m_worker /\ worker[m_worker] = "done"
      BY <2>2 DEF WorkerJoined, StopsAreAsked, StartsTookEffect
    <3> QED
      BY <2>2, <3>1 DEF WorkerJoined, TeardownIsFinal, LoopsAreHeld, Alive
  <2> QED
    BY <1>3, <1>6, <2>1, <2>2
       DEF TeardownIsFinal, EngineDestroyed, Alive, MainStep, RegisterHandler,
           EvaluatePredicate, BlockInWait, MainEndsStream, MainStopsChannel,
           ListenerJoined
<1> QED
  BY <1>1, <1>2, <1>4, <1>5, <1>6

LEMMA Teardown_ListenerStep ==
  ASSUME SessionInv, TeardownInv, ListenerStep
  PROVE  TeardownInv'
<1> USE DEF SessionInv, SessionTypeOK, TeardownInv, mainVars, listenerVars, engineMembers,
            environmentVars, ListenerMovesTo
<1>1. CASE EnterListen \/ CheckListenerActive \/ PollTimesOut \/ PollFails \/ AcceptFails
           \/ DispatchNothing \/ OldWorkerJoined
  BY <1>1 DEF EnterListen, CheckListenerActive, PollTimesOut, PollFails, AcceptFails,
              DispatchNothing, OldWorkerJoined, StopsAreAsked, TeardownIsFinal,
              EngineDestroyed, Alive, StartsTookEffect
<1>2. CASE Accept
  <2>1. /\ Len(backlog') = Len(backlog) - 1
        /\ DOMAIN backlog' = 1 .. Len(backlog')
        /\ DOMAIN backlog = 1 .. Len(backlog)
        /\ 1 \in DOMAIN backlog
        /\ \A i \in DOMAIN backlog' :
             i \in Nat /\ i + 1 \in DOMAIN backlog /\ i + 1 # 1
               /\ backlog'[i] = backlog[i + 1]
        /\ client' = backlog[1]
    BY <1>2 DEF Accept
  <2>2. StopsAreAsked'
    BY <1>2, <2>1 DEF Accept, StopsAreAsked, StartsTookEffect, EngineDestroyed
  <2> QED
    BY <1>2, <2>2 DEF Accept, TeardownIsFinal, EngineDestroyed, Alive
<1>3. CASE DispatchStart
  <2>1. ~stop_asked
    BY <1>3 DEF DispatchStart, StopsAreAsked, StartsTookEffect
  <2>2. StopsAreAsked'
    BY <1>3, <2>1 DEF DispatchStart, StopsAreAsked, EngineDestroyed
  <2> QED
    BY <1>3, <2>1, <2>2
       DEF DispatchStart, StopsAreAsked, TeardownIsFinal, EngineDestroyed
<1>4. CASE AssignWorker
  <2>1. ~stop_asked
    BY <1>4 DEF AssignWorker, StopsAreAsked, StartsTookEffect
  <2>2. StopsAreAsked'
    BY <1>4, <2>1 DEF AssignWorker, StopsAreAsked, EngineDestroyed
  <2> QED
    BY <1>4, <2>1, <2>2
       DEF AssignWorker, StopsAreAsked, TeardownIsFinal, EngineDestroyed
<1>5. CASE DispatchStop \/ HandlerEndsStream \/ HandlerStopsChannel \/ LookForHandler
           \/ HandlerSetsFlag \/ HandlerNotifies
  BY <1>5 DEF DispatchStop, HandlerEndsStream, HandlerStopsChannel, LookForHandler,
              HandlerSetsFlag, HandlerNotifies, Notified, StopsAreAsked,
              TeardownIsFinal, EngineDestroyed, Alive, StartsTookEffect
<1> QED
  BY <1>1, <1>2, <1>3, <1>4, <1>5 DEF ListenerStep

LEMMA Teardown_WorkerStep ==
  ASSUME SessionInv, TeardownInv, NEW w \in Workers, WorkerStep(w)
  PROVE  TeardownInv'
<1> USE DEF SessionInv, SessionTypeOK, TeardownInv, mainVars, listenerVars, environmentVars
<1>1. /\ \A v \in Workers : worker'[v] = "spawned" => worker[v] = "spawned"
      /\ \A v \in Workers : Alive(v)' => Alive(v)
      /\ UNCHANGED <<m_worker, listener_joins, backlog, stop_asked,
                     main_joins, g_shutdown_requested, listener, client, main>>
  BY DEF WorkerStep, EnterLoop, LeaveLoop, Alive
<1>2. StopsAreAsked'
  BY <1>1 DEF StopsAreAsked, StartsTookEffect, EngineDestroyed
<1> QED
  BY <1>1, <1>2 DEF TeardownIsFinal, EngineDestroyed

LEMMA Teardown_EnvironmentStep ==
  ASSUME StartPromises \subseteq Promises, SessionInv, TeardownInv, EnvironmentStep
  PROVE  TeardownInv'
<1> USE DEF SessionInv, SessionTypeOK, TeardownInv, mainVars, listenerVars, engineMembers,
            environmentVars, MainMovesTo
<1>1. ASSUME NEW m \in Messages, Connect(m) PROVE TeardownInv'
  <2>1. /\ DOMAIN backlog = 1 .. Len(backlog)
        /\ DOMAIN backlog' = 1 .. Len(backlog) + 1
        /\ Len(backlog) \in Nat
        /\ \A i \in DOMAIN backlog : i \in DOMAIN backlog' /\ backlog'[i] = backlog[i]
        /\ backlog'[Len(backlog) + 1] = m
    BY <1>1 DEF Connect
  <2>2. /\ m = "start_stream" => ~stop_asked
        /\ m = "stop_stream" => StartsTookEffect
    BY <1>1 DEF Connect, MayBeSent, StopMayBeAsked, StartPromises
  <2>3. StopsAreAsked'
    <3>1. ASSUME NEW i \in DOMAIN backlog', backlog'[i] = "stop_stream"
          PROVE  stop_asked'
      <4>1. stop_asked \/ m = "stop_stream" => stop_asked'
        BY <1>1 DEF Connect
      <4>2. CASE i \in DOMAIN backlog
        <5>1. backlog[i] = "stop_stream"
          BY <2>1, <3>1, <4>2
        <5> QED
          BY <4>1, <4>2, <5>1 DEF StopsAreAsked
      <4>3. CASE i = Len(backlog) + 1
        BY <2>1, <3>1, <4>1, <4>3
      <4> QED
        BY <2>1, <4>2, <4>3
    <3>2. stop_asked' => StartsTookEffect /\ m # "start_stream"
      BY <1>1, <2>2 DEF Connect, StopsAreAsked
    <3>3. (StartsTookEffect /\ m # "start_stream") => StartsTookEffect'
      BY <1>1, <2>1 DEF Connect, StartsTookEffect
    <3>4. /\ stop_asked => stop_asked'
          /\ UNCHANGED <<main, listener, client, g_shutdown_requested>>
      BY <1>1 DEF Connect
    <3>5. EngineDestroyed' <=> EngineDestroyed
      BY <3>4 DEF EngineDestroyed
    <3> QED
      BY <3>1, <3>2, <3>3, <3>4, <3>5 DEF StopsAreAsked
  <2> QED
    BY <1>1, <2>3 DEF Connect, TeardownIsFinal, EngineDestroyed, Alive
<1>2. CASE SignalSetsFlag
  <2>1. StartsTookEffect
    BY <1>2 DEF SignalSetsFlag, StopMayBeAsked, StartPromises
  <2> QED
    BY <1>2, <2>1 DEF SignalSetsFlag, StopsAreAsked, StartsTookEffect,
                      TeardownIsFinal, EngineDestroyed, Alive
<1>3. CASE SilentPeerCloses \/ SignalNotifies \/ SpuriousWakeup
  BY <1>3 DEF SilentPeerCloses, SignalNotifies, SpuriousWakeup, Notified,
              StopsAreAsked, StartsTookEffect, TeardownIsFinal, EngineDestroyed, Alive
<1>4. CASE Exited
  BY <1>4, Teardown_Unchanged DEF Exited, sessionVars
<1> QED
  BY <1>1, <1>2, <1>3, <1>4 DEF EnvironmentStep

LEMMA Teardown_Invariance ==
  ASSUME StartPromises \subseteq Promises
  PROVE  SessionSpec => []TeardownInv
<1>1. SessionInit => TeardownInv
  <2> SUFFICES ASSUME SessionInit PROVE TeardownInv
    OBVIOUS
  <2>1. backlog = <<>> /\ DOMAIN backlog = {}
    BY DEF SessionInit
  <2> QED
    BY <2>1 DEF SessionInit, TeardownInv, StopsAreAsked, StartsTookEffect,
                TeardownIsFinal, EngineDestroyed
<1>2. SessionInv /\ ChannelInv /\ LoopsAreHeld /\ TeardownInv /\ [SessionNext]_sessionVars
        => TeardownInv'
  <2> SUFFICES ASSUME SessionInv, ChannelInv, LoopsAreHeld, TeardownInv,
                      [SessionNext]_sessionVars
               PROVE  TeardownInv'
    OBVIOUS
  <2>1. CASE UNCHANGED sessionVars
    BY <2>1, Teardown_Unchanged
       DEF sessionVars, mainVars, listenerVars, engineMembers, environmentVars
  <2> QED
    BY <2>1, Teardown_MainStep, Teardown_ListenerStep, Teardown_WorkerStep,
       Teardown_EnvironmentStep DEF SessionNext, EnvironmentStep
<1> QED
  BY <1>1, <1>2, Session_Invariance, Channel_Invariance, SessionLoopsAreHeld, PTL
     DEF SessionSpec

\* If start_stream is sent neither after a stop was asked nor shortly before, however
\* often it is sent, no send loop runs on what ~RtpEngine has destroyed, but for the
\* one the listener is joining.
THEOREM SessionTeardown ==
  ASSUME StartPromises \subseteq Promises
  PROVE  SessionSpec => []TeardownIsFinal
<1>1. TeardownInv => TeardownIsFinal
  BY DEF TeardownInv
<1> QED
  BY <1>1, Teardown_Invariance, PTL

===============================================================================
