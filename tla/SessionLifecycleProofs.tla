------------------------- MODULE SessionLifecycleProofs -------------------------
(* Session implements SessionLifecycle, and no handler uses what ~RtpEngine *)
(* has destroyed.                                                           *)
EXTENDS SessionProofs

\* The handler notifies after it has set the flag.
NotifyInv == listener = "h_notify" => g_shutdown_requested

LEMMA NotifyInv_Step ==
  ASSUME NotifyInv, [SessionNext]_sessionVars
  PROVE  NotifyInv'
<1> USE DEF NotifyInv, mainVars, listenerVars, engineMembers, environmentVars,
            MainMovesTo, ListenerMovesTo
<1>1. CASE MainStep
  BY <1>1 DEF MainStep, Run, RegisterHandler, EvaluatePredicate, BlockInWait,
              MainEndsStream, MainStopsChannel, DestroyWorker, WorkerJoined,
              ListenerJoined, CloseChannel
<1>2. CASE ListenerStep
  BY <1>2 DEF ListenerStep, EnterListen, CheckListenerActive, PollTimesOut,
              PollFails, AcceptFails, Accept, DispatchNothing, DispatchStart,
              AssignWorker, OldWorkerJoined, DispatchStop, HandlerEndsStream,
              HandlerStopsChannel, LookForHandler, HandlerSetsFlag, HandlerNotifies
<1>3. ASSUME NEW w \in Workers, WorkerStep(w) PROVE NotifyInv'
  BY <1>3 DEF WorkerStep, EnterLoop, LeaveLoop
<1>4. CASE EnvironmentStep
  BY <1>4 DEF EnvironmentStep, Connect, SilentPeerCloses, SignalSetsFlag,
              SignalNotifies, SpuriousWakeup, Exited, sessionVars
<1>5. CASE UNCHANGED sessionVars
  BY <1>5 DEF sessionVars
<1> QED
  BY <1>1, <1>2, <1>3, <1>4, <1>5 DEF SessionNext, EnvironmentStep

LEMMA Notify_Invariance == SessionSpec => []NotifyInv
<1>1. SessionInit => NotifyInv
  BY DEF SessionInit, NotifyInv
<1> QED
  BY <1>1, NotifyInv_Step, PTL DEF SessionSpec

-------------------------------------------------------------------------------
(* The refinement. A stop is asked of a process whose shutdown handler is   *)
(* registered, so that what began to close goes on to the flag.             *)

LifecyclePromises == StartPromises \union {"stop_while_waiting"}

ClosingInv ==
  /\ main \notin {"run", "register"} => handler_set
  /\ stop_asked => handler_set
  /\ s_active \/ Closing \/ \A w \in Workers : worker[w] # "looping"
  /\ Closing \/ \A w \in Workers : worker[w] # "done"

LEMMA Closing_Stays ==
  ASSUME ChannelInv, TeardownInv, NotifyInv, ClosingInv, [SessionNext]_sessionVars,
         Closing
  PROVE  Closing'
<1> USE DEF Closing, mainVars, listenerVars, engineMembers, environmentVars,
            MainMovesTo, ListenerMovesTo
<1>1. CASE MainStep
  BY <1>1 DEF MainStep, Run, RegisterHandler, EvaluatePredicate, BlockInWait,
              MainEndsStream, MainStopsChannel, DestroyWorker, WorkerJoined,
              ListenerJoined, CloseChannel, ChannelInv
<1>2. CASE LookForHandler
  BY <1>2 DEF LookForHandler, ClosingInv, TeardownInv, StopsAreAsked
<1>3. CASE ListenerStep /\ ~LookForHandler
  BY <1>3 DEF ListenerStep, EnterListen, CheckListenerActive, PollTimesOut, PollFails,
              AcceptFails, Accept, DispatchNothing, DispatchStart, AssignWorker,
              OldWorkerJoined, DispatchStop, HandlerEndsStream,
              HandlerStopsChannel, HandlerSetsFlag, HandlerNotifies
<1>4. ASSUME NEW w \in Workers, WorkerStep(w) PROVE Closing'
  BY <1>4 DEF WorkerStep, EnterLoop, LeaveLoop
<1>5. CASE EnvironmentStep
  BY <1>5 DEF EnvironmentStep, Connect, SilentPeerCloses, SignalSetsFlag,
              SignalNotifies, SpuriousWakeup, Exited, sessionVars
<1>6. CASE UNCHANGED sessionVars
  BY <1>6 DEF sessionVars
<1> QED
  BY <1>1, <1>2, <1>3, <1>4, <1>5, <1>6 DEF SessionNext, EnvironmentStep

LEMMA ClosingInv_Step ==
  ASSUME LifecyclePromises \subseteq Promises, SessionInv, ChannelInv, TeardownInv,
         NotifyInv, ClosingInv, [SessionNext]_sessionVars
  PROVE  ClosingInv'
<1> USE DEF SessionInv, SessionTypeOK, ClosingInv, mainVars, listenerVars, engineMembers,
            environmentVars, MainMovesTo, ListenerMovesTo
<1>0. Closing => Closing'
  BY Closing_Stays
<1>1. CASE MainStep
  <2>1. CASE MainEndsStream
    BY <1>0, <2>1 DEF MainEndsStream, TeardownInv, StopsAreAsked, Closing
  <2> QED
    BY <1>0, <1>1, <2>1
       DEF MainStep, Run, RegisterHandler, EvaluatePredicate, BlockInWait,
           MainStopsChannel, DestroyWorker, WorkerJoined, ListenerJoined, CloseChannel
<1>2. CASE ListenerStep
  <2>1. CASE HandlerEndsStream
    BY <2>1 DEF HandlerEndsStream, Closing
  <2>2. CASE DispatchStart
    BY <1>0, <2>2 DEF DispatchStart
  <2> QED
    BY <1>0, <1>2, <2>1, <2>2
       DEF ListenerStep, EnterListen, CheckListenerActive, PollTimesOut, PollFails,
           AcceptFails, Accept, DispatchNothing, AssignWorker, OldWorkerJoined,
           DispatchStop, HandlerStopsChannel, LookForHandler, HandlerSetsFlag,
           HandlerNotifies, Notified
<1>3. ASSUME NEW w \in Workers, WorkerStep(w) PROVE ClosingInv'
  BY <1>0, <1>3 DEF WorkerStep, EnterLoop, LeaveLoop
<1>4. CASE EnvironmentStep
  BY <1>0, <1>4
     DEF EnvironmentStep, Connect, MayBeSent, StopMayBeAsked, SilentPeerCloses,
         SignalSetsFlag, SignalNotifies, SpuriousWakeup, Exited, sessionVars, Notified,
         LifecyclePromises
<1>5. CASE UNCHANGED sessionVars
  BY <1>0, <1>5 DEF sessionVars
<1> QED
  BY <1>1, <1>2, <1>3, <1>4, <1>5 DEF SessionNext, EnvironmentStep

LEMMA Closing_Invariance ==
  ASSUME LifecyclePromises \subseteq Promises
  PROVE  SessionSpec => []ClosingInv
<1>1. SessionInit => ClosingInv
  BY DEF SessionInit, ClosingInv, LifecyclePromises
<1>2. StartPromises \subseteq Promises
  BY DEF LifecyclePromises
<1> QED
  BY <1>1, <1>2, ClosingInv_Step, Session_Invariance, Channel_Invariance,
     Teardown_Invariance, Notify_Invariance, PTL DEF SessionSpec

\* A step that starts and ends no thread, and does not end the process, closes or
\* stutters.
LEMMA Life_Phase ==
  ASSUME UNCHANGED worker, (main = "exited") <=> (main' = "exited"),
         Closing => Closing'
  PROVE  [Life!LifeNext]_(Life!lifeVars)
<1>1. StreamOfSession' = StreamOfSession
  BY DEF StreamOfSession, Alive
<1>2. PhaseOfSession' = PhaseOfSession
        \/ (PhaseOfSession = "serving" /\ PhaseOfSession' = "closing")
  BY DEF PhaseOfSession
<1> QED
  BY <1>1, <1>2 DEF Life!LifeNext, Life!Close, Life!lifeVars

\* Of several threads the last that ends ends the stream.
LEMMA Life_WorkerStep ==
  ASSUME SessionInv, ClosingInv, NEW w \in Workers, WorkerStep(w)
  PROVE  [Life!LifeNext]_(Life!lifeVars)
<1> USE DEF SessionInv, SessionTypeOK
<1>1. /\ worker[w] \in {"spawned", "looping"}
      /\ worker'[w] \in {"looping", "done"}
      /\ \A v \in Workers \ {w} : worker'[v] = worker[v]
      /\ main # "exited"
      /\ UNCHANGED <<main, listener, g_shutdown_requested>>
  BY DEF WorkerStep, EnterLoop, LeaveLoop, mainVars, listenerVars
<1>2. StreamOfSession = "live"
  BY <1>1 DEF StreamOfSession, Alive
<1>3. worker'[w] = "looping" => StreamOfSession' = "live"
  BY <1>1 DEF StreamOfSession, Alive
<1>4. worker'[w] = "done" => StreamOfSession' \in {"live", "ceased"}
  BY <1>1 DEF StreamOfSession, Alive
<1>5. PhaseOfSession' = PhaseOfSession
  BY <1>1 DEF PhaseOfSession, Closing
<1>6. worker'[w] = "done" => Closing
  BY DEF WorkerStep, EnterLoop, LeaveLoop, ClosingInv
<1>7. worker'[w] = "done" => PhaseOfSession = "closing"
  BY <1>1, <1>6 DEF PhaseOfSession
<1> QED
  BY <1>1, <1>2, <1>3, <1>4, <1>5, <1>7 DEF Life!LifeNext, Life!Cease, Life!lifeVars

\* A second start finds the stream live, for it has not ceased: nobody closes.
LEMMA Life_DispatchStart ==
  ASSUME SessionInv, TeardownInv, ClosingInv, DispatchStart
  PROVE  [Life!LifeNext]_(Life!lifeVars)
<1> USE DEF SessionInv, SessionTypeOK
<1>1. ~stop_asked
  BY DEF DispatchStart, TeardownInv, StopsAreAsked, StartsTookEffect
<1>2. ~Closing /\ main # "exited"
  BY <1>1 DEF DispatchStart, Closing, TeardownInv, StopsAreAsked, EngineDestroyed
<1>3. PhaseOfSession = "serving" /\ PhaseOfSession' = "serving"
  BY <1>2 DEF DispatchStart, PhaseOfSession, Closing, mainVars
<1>4. StreamOfSession \in {"none", "live"}
  BY <1>2 DEF StreamOfSession, ClosingInv
<1>5. StreamOfSession' = "live"
  BY DEF DispatchStart, StreamOfSession, Alive
<1> QED
  BY <1>3, <1>4, <1>5 DEF Life!LifeNext, Life!Begin, Life!lifeVars

LEMMA Life_CloseChannel ==
  ASSUME SessionInv, ChannelInv, TeardownInv, CloseChannel
  PROVE  [Life!LifeNext]_(Life!lifeVars)
<1>1. PhaseOfSession = "closing" /\ PhaseOfSession' = "ended"
  BY DEF CloseChannel, PhaseOfSession, Closing, TeardownInv, StopsAreAsked, EngineDestroyed
<1>2. StreamOfSession # "live"
  BY DEF CloseChannel, ChannelInv, ChannelOutlivesListener, TeardownInv,
         TeardownIsFinal, EngineDestroyed, StreamOfSession
<1>3. StreamOfSession' = StreamOfSession
  BY DEF CloseChannel, engineMembers, StreamOfSession, Alive
<1> QED
  BY <1>1, <1>2, <1>3 DEF Life!LifeNext, Life!End

LEMMA Life_Step ==
  ASSUME SessionInv, ChannelInv, TeardownInv, NotifyInv, ClosingInv,
         [SessionNext]_sessionVars
  PROVE  [Life!LifeNext]_(Life!lifeVars)
<1> USE DEF mainVars, listenerVars, engineMembers, environmentVars, MainMovesTo,
            ListenerMovesTo
<1>0. Closing => Closing'
  BY Closing_Stays
<1>1. CASE MainStep /\ ~CloseChannel
  BY <1>0, <1>1, Life_Phase
     DEF MainStep, Run, RegisterHandler, EvaluatePredicate, BlockInWait,
         MainEndsStream, MainStopsChannel, DestroyWorker, WorkerJoined, ListenerJoined
<1>2. CASE ListenerStep /\ ~DispatchStart
  BY <1>0, <1>2, Life_Phase
     DEF ListenerStep, EnterListen, CheckListenerActive, PollTimesOut, PollFails,
         AcceptFails, Accept, DispatchNothing, AssignWorker, OldWorkerJoined,
         DispatchStop, HandlerEndsStream, HandlerStopsChannel, LookForHandler,
         HandlerSetsFlag, HandlerNotifies, Notified
<1>3. CASE EnvironmentStep
  BY <1>0, <1>3, Life_Phase
     DEF EnvironmentStep, Connect, SilentPeerCloses, SignalSetsFlag, SignalNotifies,
         SpuriousWakeup, Exited, sessionVars, Notified
<1>4. CASE UNCHANGED sessionVars
  BY <1>0, <1>4, Life_Phase DEF sessionVars
<1> QED
  BY <1>1, <1>2, <1>3, <1>4, Life_CloseChannel, Life_DispatchStart, Life_WorkerStep
     DEF SessionNext, EnvironmentStep, MainStep, ListenerStep

\* Under the promises that exclude a start during teardown and a stop before main()
\* waits, the threads implement the lifecycle the comments on RtpEngine describe,
\* for any number of threads and requests, and of start_stream among them.
THEOREM SessionImplementsLifecycle ==
  ASSUME LifecyclePromises \subseteq Promises
  PROVE  SessionSpec => ImplementsLifecycle
<1>1. StartPromises \subseteq Promises
  BY DEF LifecyclePromises
<1>2. SessionInit => Life!LifeInit
  BY DEF SessionInit, Life!LifeInit, PhaseOfSession, StreamOfSession, Closing, Alive,
         LifecyclePromises
<1> QED
  BY <1>1, <1>2, Life_Step, Session_Invariance, Channel_Invariance, Teardown_Invariance,
     Notify_Invariance, Closing_Invariance, PTL
     DEF SessionSpec, ImplementsLifecycle, Life!LifeSafety

-------------------------------------------------------------------------------
(* What the handlers use. A stop that is asked once is in one place, and    *)
(* while it is on its way to the flag main() has no reason to leave wait(). *)

StopQueued == \E i \in DOMAIN backlog : backlog[i] = "stop_stream"
StopRead == listener = "read" /\ client = "stop_stream"
StopHandled == listener \in {"h_end_stream", "h_stop_channel", "h_handler", "h_flag"}

OneStop ==
  /\ \A i, j \in DOMAIN backlog :
       backlog[i] = "stop_stream" /\ backlog[j] = "stop_stream" => i = j
  /\ StopRead \/ StopHandled => ~StopQueued
  /\ StopQueued \/ StopRead \/ StopHandled => ~g_shutdown_requested

OneStopInv == ~second_stop => OneStop

LEMMA OneStop_ListenerStep ==
  ASSUME SessionInv, OneStop, ListenerStep
  PROVE  OneStop'
<1> USE DEF SessionInv, SessionTypeOK, OneStop, StopQueued, StopRead, StopHandled,
            mainVars, engineMembers, environmentVars, ListenerMovesTo
<1>1. CASE Accept
  <2>1. /\ Len(backlog') = Len(backlog) - 1
        /\ DOMAIN backlog' = 1 .. Len(backlog')
        /\ DOMAIN backlog = 1 .. Len(backlog)
        /\ 1 \in DOMAIN backlog
        /\ \A i \in DOMAIN backlog' :
             i \in Nat /\ i + 1 \in DOMAIN backlog /\ i + 1 # 1
               /\ backlog'[i] = backlog[i + 1]
        /\ client' = backlog[1]
        /\ listener' = "read" /\ g_shutdown_requested' = g_shutdown_requested
    BY <1>1 DEF Accept
  <2>2. StopQueued' => StopQueued /\ client' # "stop_stream"
    BY <2>1
  <2>3. StopRead' => StopQueued
    BY <2>1
  <2>4. \A i, j \in DOMAIN backlog' :
          backlog'[i] = "stop_stream" /\ backlog'[j] = "stop_stream" => i = j
    BY <2>1
  <2> QED
    BY <2>1, <2>2, <2>3, <2>4
<1>2. CASE ListenerStep /\ ~Accept
  BY <1>2 DEF ListenerStep, EnterListen, CheckListenerActive, PollTimesOut, PollFails,
              AcceptFails, DispatchNothing, DispatchStart, AssignWorker,
              OldWorkerJoined, DispatchStop, HandlerEndsStream, HandlerStopsChannel,
              LookForHandler, HandlerSetsFlag, HandlerNotifies
<1> QED
  BY <1>1, <1>2

LEMMA OneStop_Connect ==
  ASSUME SessionInv, StopsAreAsked, OneStopInv, NEW m \in Messages, Connect(m)
  PROVE  OneStopInv'
<1> SUFFICES ASSUME ~second_stop' PROVE OneStop'
  BY DEF OneStopInv
<1> USE DEF SessionInv, SessionTypeOK, StopQueued, StopRead, StopHandled
<1>1. /\ DOMAIN backlog = 1 .. Len(backlog)
      /\ DOMAIN backlog' = 1 .. Len(backlog) + 1
      /\ Len(backlog) \in Nat
      /\ \A i \in DOMAIN backlog : i \in DOMAIN backlog' /\ backlog'[i] = backlog[i]
      /\ backlog'[Len(backlog) + 1] = m
      /\ UNCHANGED <<listener, client, g_shutdown_requested>>
  BY DEF Connect, listenerVars
<1>2. OneStop
  BY DEF Connect, OneStopInv
<1>3. CASE m = "stop_stream"
  <2>1. ~stop_asked
    BY <1>3 DEF Connect
  <2>2. ~StopQueued /\ ~StopRead /\ ~StopHandled /\ ~g_shutdown_requested
    BY <2>1 DEF StopsAreAsked
  <2> QED
    BY <1>1, <2>2 DEF OneStop
<1>4. CASE m # "stop_stream"
  <2>1. StopQueued' => StopQueued
    BY <1>1, <1>4
  <2> QED
    BY <1>1, <1>2, <1>4, <2>1 DEF OneStop
<1> QED
  BY <1>3, <1>4

LEMMA OneStop_Step ==
  ASSUME SessionInv, ChannelInv, TeardownInv, OneStopInv, [SessionNext]_sessionVars
  PROVE  OneStopInv'
<1> USE DEF mainVars, listenerVars, engineMembers, environmentVars, MainMovesTo
<1>1. CASE MainStep
  <2>1. CASE CloseChannel
    <3>1. DOMAIN backlog' = {}
      BY <2>1 DEF CloseChannel
    <3>2. listener' = "done"
      BY <2>1 DEF CloseChannel, ChannelInv, ChannelOutlivesListener
    <3> QED
      BY <3>1, <3>2 DEF OneStopInv, OneStop, StopQueued, StopRead, StopHandled
  <2> QED
    BY <1>1, <2>1
       DEF MainStep, Run, RegisterHandler, EvaluatePredicate, BlockInWait,
           MainEndsStream, MainStopsChannel, DestroyWorker, WorkerJoined,
           ListenerJoined, OneStopInv, OneStop, StopQueued, StopRead, StopHandled
<1>2. CASE ListenerStep
  <2>1. second_stop' = second_stop
    BY <1>2 DEF ListenerStep, EnterListen, CheckListenerActive, PollTimesOut, PollFails,
                AcceptFails, Accept, DispatchNothing, DispatchStart, AssignWorker,
                OldWorkerJoined, DispatchStop, HandlerEndsStream, HandlerStopsChannel,
                LookForHandler, HandlerSetsFlag, HandlerNotifies, ListenerMovesTo
  <2> QED
    BY <1>2, <2>1, OneStop_ListenerStep DEF OneStopInv
<1>3. ASSUME NEW w \in Workers, WorkerStep(w) PROVE OneStopInv'
  BY <1>3 DEF WorkerStep, EnterLoop, LeaveLoop, OneStopInv, OneStop, StopQueued,
              StopRead, StopHandled
<1>4. CASE SignalSetsFlag
  BY <1>4 DEF SignalSetsFlag, OneStopInv, OneStop, StopQueued, StopRead, StopHandled,
              TeardownInv, StopsAreAsked
<1>5. CASE SilentPeerCloses \/ SignalNotifies \/ SpuriousWakeup
  BY <1>5 DEF SilentPeerCloses, SignalNotifies, SpuriousWakeup, OneStopInv, OneStop,
              StopQueued, StopRead, StopHandled
<1>6. CASE Exited \/ UNCHANGED sessionVars
  BY <1>6 DEF Exited, sessionVars, OneStopInv, OneStop, StopQueued, StopRead, StopHandled
<1> QED
  BY <1>1, <1>2, <1>3, <1>4, <1>5, <1>6, OneStop_Connect DEF SessionNext, TeardownInv

\* If every start_stream is sent in time and the process is asked to stop once, by
\* a message or by a signal at any moment, no handler in progress uses a member that
\* ~RtpEngine has destroyed, m_shutdown_handler included.
THEOREM SessionHandlersLive ==
  ASSUME StartPromises \subseteq Promises
  PROVE  SessionSpec => []HandlersUseLiveMembers
<1>1. SessionInit => OneStopInv
  <2> SUFFICES ASSUME SessionInit PROVE OneStop
    BY DEF OneStopInv
  <2>1. DOMAIN backlog = {} /\ listener = "none"
    BY DEF SessionInit
  <2> QED
    BY <2>1 DEF OneStop, StopQueued, StopRead, StopHandled
<1>2. TeardownInv /\ OneStopInv => HandlersUseLiveMembers
  <2> SUFFICES ASSUME TeardownInv, OneStopInv, EngineDestroyed, ~second_stop
               PROVE  listener # "assign" /\ ~StopHandled
    BY DEF HandlersUseLiveMembers, UsesMembers, StopHandled
  <2>1. g_shutdown_requested /\ StartsTookEffect
    BY DEF TeardownInv, StopsAreAsked
  <2> QED
    BY <2>1 DEF StartsTookEffect, OneStopInv, OneStop
<1> QED
  BY <1>1, <1>2, OneStop_Step, Session_Invariance, Channel_Invariance,
     Teardown_Invariance, PTL DEF SessionSpec

===============================================================================
