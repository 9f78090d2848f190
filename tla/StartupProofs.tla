----------------------------- MODULE StartupProofs -----------------------------
(* Proofs about Startup for any number of processes and of users.           *)
EXTENDS Startup, TLAPS

-------------------------------------------------------------------------------
(* The invariant.  A process has a channel only in the stages of main() that *)
(* Present names; the file leads to a process only while it holds the socket *)
(* it bound, unless listen() failed or it was killed; and two processes that *)
(* hold channels know of each other.                                        *)

Stages ==
  \A p \in Processes :
    /\ pc[p] \in {"new", "editor", "options"} => chan[p] = "none"
    /\ pc[p] = "channel" => chan[p] \notin {"closed", "gone"}
    /\ pc[p] = "running" => chan[p] = "listening"
    /\ pc[p] = "teardown" => chan[p] \in {"listening", "closed", "gone"}
    /\ pc[p] = "ended" => chan[p] \in {"none", "refused", "deaf", "gone"}
    /\ crashed[p] => pc[p] = "ended"

PathOwner ==
  \A p \in Processes :
    path = p => crashed[p] \/ chan[p] \in {"bound", "listening", "deaf", "closed"}

PresentMet == \A p, q \in Present : p # q => q \in met[p]

PathKept ==
  \A p \in Processes :
    chan[p] \in {"bound", "listening"} /\ (\A q \in met[p] : ~SameUser(p, q))
      => path = p

SocketInv == Stages /\ PathOwner /\ PresentMet /\ PathKept /\ StaleSocketIsNoObstacle

StartupInv == StartupTypeOK /\ NoFileAfterReturn /\ SocketInv

-------------------------------------------------------------------------------
(* The editor: types and the file.                                          *)

EditorNext(p) ==
  BeginFlow(p) \/ FlowStep(p) \/ EditorEnds(p) \/ EditorSaves(p)

LEMMA EditorNextKeeps ==
  ASSUME EditorTypeOK, NoFileAfterReturn, NEW p \in Processes, EditorNext(p)
  PROVE  EditorTypeOK' /\ NoFileAfterReturn'
<1> USE DEF EditorTypeOK, NoFileAfterReturn, Returned, Goto, FlowSteps
<1>1. CASE BeginFlow(p)
  BY <1>1 DEF BeginFlow
<1>2. CASE CreateFile(p)
  BY <1>2 DEF CreateFile, Inputs, NoInput
<1>3. CASE WriteTemplate(p)
  BY <1>3 DEF WriteTemplate, Inputs, Template
<1>4. CASE CloseFile(p)
  BY <1>4 DEF CloseFile
<1>5. CASE WritingFails(p)
  BY <1>5 DEF WritingFails, Unlink
<1>6. CASE Fork(p)
  BY <1>6 DEF Fork
<1>7. CASE CallFails(p)
  BY <1>7 DEF CallFails
<1>8. CASE ReadFile(p)
  BY <1>8 DEF ReadFile
<1>9. CASE UnlinkRead(p)
  BY <1>9 DEF UnlinkRead, Unlink
<1>10. CASE Catch(p)
  BY <1>10 DEF Catch, Unlink
<1>11. CASE EditorFails(p)
  BY <1>11 DEF EditorFails, Unlink
<1>12. CASE EditorExits(p)
  BY <1>12 DEF EditorExits
<1>13. CASE EditorSaves(p)
  BY <1>13 DEF EditorSaves
<1> QED
  BY <1>1, <1>2, <1>3, <1>4, <1>5, <1>6, <1>7, <1>8, <1>9, <1>10, <1>11,
     <1>12, <1>13 DEF EditorNext, FlowStep, EditorEnds

\* What says nothing of the editor's variables survives its steps.
LEMMA SocketFrame ==
  ASSUME SocketInv, UNCHANGED <<socketVars, pc, crashed, met>>
  PROVE  SocketInv'
BY DEF SocketInv, Stages, PathOwner, PresentMet, PathKept,
       StaleSocketIsNoObstacle, Present, socketVars

-------------------------------------------------------------------------------
(* main().                                                                  *)

\* The steps of main() that touch no file, no socket and start no channel.
PlainMoves(p) ==
  \/ MainGoes(p, "new", "editor")
  \/ MainGoes(p, "new", "options")
  \/ MainGoes(p, "options", "ended")
  \/ MainGoes(p, "editor", "ended")
  \/ chan[p] \in {"refused", "deaf"} /\ MainGoes(p, "channel", "ended")
  \/ chan[p] = "listening" /\ MainGoes(p, "channel", "running")
  \/ chan[p] = "listening" /\ MainGoes(p, "channel", "teardown")
  \/ MainGoes(p, "running", "teardown")
  \/ chan[p] = "gone" /\ MainGoes(p, "teardown", "ended")

LEMMA PlainMovesKeep ==
  ASSUME StartupTypeOK, SocketInv, NEW p \in Processes, PlainMoves(p),
         UNCHANGED <<socketVars, crashed, met>>
  PROVE  SocketInv' /\ pc' \in [Processes -> MainSteps]
<1> USE DEF StartupTypeOK, PlainMoves, MainGoes, socketVars
<1>1. pc' \in [Processes -> MainSteps]
  BY DEF MainSteps
<1>2. Stages'
  BY DEF SocketInv, Stages
<1>3. PathOwner' /\ PathKept' /\ StaleSocketIsNoObstacle'
  BY DEF SocketInv, PathOwner, PathKept, StaleSocketIsNoObstacle
<1>4. PresentMet'
  <2>1. Present' \subseteq Present
    BY DEF Present
  <2> QED
    BY <2>1 DEF SocketInv, PresentMet
<1> QED
  BY <1>1, <1>2, <1>3, <1>4 DEF SocketInv

LEMMA EnterChannelKeeps ==
  ASSUME StartupTypeOK, SocketInv, NEW p \in Processes,
         EnterChannel(p, "options") \/ EnterChannel(p, "editor"),
         UNCHANGED <<socketVars, crashed>>
  PROVE  /\ SocketInv'
         /\ pc' \in [Processes -> MainSteps]
         /\ met' \in [Processes -> SUBSET Processes]
<1>1. /\ pc' = [pc EXCEPT ![p] = "channel"]
      /\ pc[p] \in {"options", "editor"}
      /\ met' = [q \in Processes |->
                   IF q = p THEN met[q] \union Present
                   ELSE IF q \in Present THEN met[q] \union {p} ELSE met[q]]
      /\ UNCHANGED <<path, chan, crashed>>
  BY DEF EnterChannel, MainGoes, socketVars
<1>2. /\ pc \in [Processes -> MainSteps]
      /\ met \in [Processes -> SUBSET Processes]
      /\ Present \subseteq Processes
  BY DEF StartupTypeOK, Present
<1>3. pc' \in [Processes -> MainSteps]
  BY <1>1, <1>2 DEF MainSteps
<1>4. met' \in [Processes -> SUBSET Processes]
  BY <1>1, <1>2
<1>5. \A q \in Processes : met[q] \subseteq met'[q]
  BY <1>1, <1>2
<1>6. Stages'
  BY <1>1, <1>2 DEF SocketInv, Stages
<1>7. PathOwner'
  BY <1>1 DEF SocketInv, PathOwner
<1>8. PresentMet'
  <2>1. Present' = Present \union {p}
    BY <1>1, <1>2 DEF Present
  <2> SUFFICES ASSUME NEW r \in Present', NEW q \in Present', r # q
               PROVE  q \in met'[r]
    BY DEF PresentMet
  <2>2. r \in Processes /\ q \in Processes
    BY <1>2, <2>1
  <2>3. CASE r = p
    BY <1>1, <2>1, <2>2, <2>3
  <2>4. CASE q = p
    BY <1>1, <2>1, <2>2, <2>4
  <2>5. CASE r # p /\ q # p
    BY <1>5, <2>1, <2>2, <2>5 DEF SocketInv, PresentMet
  <2> QED
    BY <2>3, <2>4, <2>5
<1>9. PathKept'
  BY <1>1, <1>5 DEF SocketInv, PathKept, SameUser
<1>10. StaleSocketIsNoObstacle'
  BY <1>1, <1>5 DEF SocketInv, StaleSocketIsNoObstacle, SameUser
<1> QED
  BY <1>3, <1>4, <1>6, <1>7, <1>8, <1>9, <1>10 DEF SocketInv

\* Who constructs or destroys a channel is present.
LEMMA HoldersArePresent ==
  ASSUME StartupTypeOK, Stages, NEW p \in Processes,
         chan[p] \in {"open", "unlinked", "bound", "listening", "closed"}
  PROVE  p \in Present
BY DEF StartupTypeOK, Stages, Present, MainSteps

\* unlink(): a process that keeps its path from everyone of its user keeps it.
LEMMA RemovePathKeeps ==
  ASSUME StartupTypeOK, SocketInv, NEW p \in Processes, p \in Present,
         RemovePath(p), NEW q \in Processes, q # p,
         chan[q] \in {"bound", "listening"},
         \A r \in met[q] : ~SameUser(q, r)
  PROVE  path' = q
<1>1. q \in Present
  BY HoldersArePresent DEF SocketInv
<1>2. ~SameUser(q, p)
  BY <1>1 DEF SocketInv, PresentMet
<1>3. path = q
  BY DEF SocketInv, PathKept
<1> QED
  BY <1>2, <1>3 DEF RemovePath

LEMMA ConstructorKeeps ==
  ASSUME StartupTypeOK, SocketInv, NEW p \in Processes, pc[p] = "channel",
         ConstructorStep(p), UNCHANGED <<pc, crashed, met>>
  PROVE  SocketInv' /\ SocketTypeOK'
<1>1. /\ chan \in [Processes -> ChanSteps] /\ path \in Processes \union {NOBODY}
      /\ NOBODY \notin Processes
      /\ p \in Present /\ Present' = Present
      /\ ~crashed[p]
  BY PathAssumption DEF StartupTypeOK, SocketTypeOK, Present, SocketInv, Stages
<1>2. \E to \in ChanSteps \ {"none", "closed", "gone"} :
        chan' = [chan EXCEPT ![p] = to]
  BY DEF ConstructorStep, OpenSocket, SocketFails, UnlinkStale, BindPath,
         BindFails, Listen, ListenFails, Move, ChanSteps
<1>3. SocketTypeOK'
  <2>1. path' \in Processes \union {NOBODY}
    BY <1>1 DEF ConstructorStep, OpenSocket, SocketFails, UnlinkStale, BindPath,
         BindFails, Listen, ListenFails, RemovePath
  <2> QED
    BY <1>1, <1>2, <2>1 DEF SocketTypeOK
<1>4. Stages'
  BY <1>1, <1>2 DEF SocketInv, Stages, ChanSteps
<1>5. PresentMet'
  BY <1>1 DEF SocketInv, PresentMet
<1>6. \A q \in Processes : q # p => chan'[q] = chan[q]
  BY <1>1, <1>2
<1>7. CASE OpenSocket(p) \/ SocketFails(p) \/ BindFails(p)
  <2>1. path' = path /\ chan[p] \in {"none", "unlinked"} /\ chan'[p] \in {"open", "refused"}
    BY <1>1, <1>7 DEF OpenSocket, SocketFails, BindFails, Move
  <2>2. PathOwner' /\ PathKept' /\ StaleSocketIsNoObstacle'
    BY <1>1, <1>6, <2>1 DEF SocketInv, PathOwner, PathKept, StaleSocketIsNoObstacle
  <2> QED
    BY <1>3, <1>4, <1>5, <2>2 DEF SocketInv
<1>8. CASE UnlinkStale(p)
  <2>1. chan[p] = "open" /\ chan'[p] = "unlinked" /\ RemovePath(p)
    BY <1>1, <1>8 DEF UnlinkStale, Move
  <2>2. /\ path' \in {path, NOBODY}
        /\ path' # NOBODY => ~SameUser(path', p)
    BY <2>1 DEF RemovePath
  <2>3. PathOwner'
    BY <1>1, <1>6, <2>1, <2>2 DEF SocketInv, PathOwner
  <2>4. PathKept'
    BY <1>1, <1>6, <2>1, RemovePathKeeps DEF PathKept
  <2>5. StaleSocketIsNoObstacle'
    BY <1>1, <1>6, <2>1, <2>2 DEF SocketInv, StaleSocketIsNoObstacle, SameUser
  <2> QED
    BY <1>3, <1>4, <1>5, <2>3, <2>4, <2>5 DEF SocketInv
<1>9. CASE BindPath(p)
  <2>1. chan[p] = "unlinked" /\ chan'[p] = "bound" /\ path = NOBODY /\ path' = p
    BY <1>1, <1>9 DEF BindPath, Move
  <2>2. PathOwner'
    BY <2>1 DEF PathOwner
  <2>3. PathKept'
    BY <1>1, <1>6, <2>1 DEF SocketInv, PathKept
  <2>4. StaleSocketIsNoObstacle'
    <3> SUFFICES ASSUME NEW q \in Processes, chan'[q] = "unlinked"
                 PROVE  p \in met[q]
      BY <2>1 DEF StaleSocketIsNoObstacle
    <3>1. q # p /\ chan[q] = "unlinked"
      BY <1>6, <2>1
    <3>2. q \in Present
      BY <3>1, HoldersArePresent DEF SocketInv
    <3> QED
      BY <1>1, <3>1, <3>2 DEF SocketInv, PresentMet
  <2> QED
    BY <1>3, <1>4, <1>5, <2>2, <2>3, <2>4 DEF SocketInv
<1>10. CASE Listen(p) \/ ListenFails(p)
  <2>1. path' = path /\ chan[p] = "bound" /\ chan'[p] \in {"listening", "deaf"}
    BY <1>1, <1>10 DEF Listen, ListenFails, Move
  <2>2. PathOwner' /\ PathKept' /\ StaleSocketIsNoObstacle'
    BY <1>1, <1>6, <2>1 DEF SocketInv, PathOwner, PathKept, StaleSocketIsNoObstacle
  <2> QED
    BY <1>3, <1>4, <1>5, <2>2 DEF SocketInv
<1> QED
  BY <1>7, <1>8, <1>9, <1>10 DEF ConstructorStep

LEMMA DestructorKeeps ==
  ASSUME StartupTypeOK, SocketInv, NEW p \in Processes, pc[p] = "teardown",
         DestructorStep(p), UNCHANGED <<pc, crashed, met>>
  PROVE  SocketInv' /\ SocketTypeOK'
<1>1. /\ chan \in [Processes -> ChanSteps] /\ path \in Processes \union {NOBODY}
      /\ NOBODY \notin Processes
      /\ p \in Present /\ Present' = Present
  BY PathAssumption DEF StartupTypeOK, SocketTypeOK, Present
<1>2. \/ chan[p] = "listening" /\ chan' = [chan EXCEPT ![p] = "closed"] /\ path' = path
      \/ chan[p] = "closed" /\ chan' = [chan EXCEPT ![p] = "gone"] /\ RemovePath(p)
  BY DEF DestructorStep, CloseSocket, UnlinkPath, Move
<1>3. path' \in {path, NOBODY} /\ \A q \in Processes : q # p => chan'[q] = chan[q]
  BY <1>1, <1>2 DEF RemovePath
<1>4. SocketTypeOK'
  BY <1>1, <1>2, <1>3 DEF SocketTypeOK, ChanSteps
<1>5. Stages'
  BY <1>1, <1>2, <1>3 DEF SocketInv, Stages
<1>6. PathOwner'
  <2>1. CASE chan[p] = "listening" /\ chan' = [chan EXCEPT ![p] = "closed"] /\ path' = path
    BY <1>1, <1>3, <2>1 DEF SocketInv, PathOwner
  <2>2. CASE chan[p] = "closed" /\ chan' = [chan EXCEPT ![p] = "gone"] /\ RemovePath(p)
    <3>1. path' # p
      BY <1>1, <2>2 DEF RemovePath, SameUser
    <3> QED
      BY <1>1, <1>3, <3>1 DEF SocketInv, PathOwner
  <2> QED
    BY <1>2, <2>1, <2>2
<1>7. PresentMet'
  BY <1>1 DEF SocketInv, PresentMet
<1>8. PathKept'
  <2> SUFFICES ASSUME NEW q \in Processes, chan'[q] \in {"bound", "listening"},
                      \A r \in met[q] : ~SameUser(q, r)
               PROVE  path' = q
    BY DEF PathKept
  <2>1. q # p /\ chan[q] \in {"bound", "listening"}
    BY <1>1, <1>2, <1>3
  <2>2. CASE path' = path
    BY <2>1, <2>2 DEF SocketInv, PathKept
  <2>3. CASE RemovePath(p)
    BY <1>1, <2>1, <2>3, RemovePathKeeps
  <2> QED
    BY <1>2, <2>2, <2>3
<1>9. StaleSocketIsNoObstacle'
  BY <1>1, <1>2, <1>3 DEF SocketInv, StaleSocketIsNoObstacle
<1> QED
  BY <1>4, <1>5, <1>6, <1>7, <1>8, <1>9 DEF SocketInv

LEMMA CrashKeeps ==
  ASSUME StartupTypeOK, SocketInv, NEW p \in Processes, Crash(p)
  PROVE  /\ SocketInv' /\ SocketTypeOK'
         /\ pc' \in [Processes -> MainSteps]
         /\ crashed' \in [Processes -> BOOLEAN]
<1>1. /\ pc' = [pc EXCEPT ![p] = "ended"]
      /\ crashed' = [crashed EXCEPT ![p] = TRUE]
      /\ chan' = [chan EXCEPT ![p] = "gone"]
      /\ path' = path /\ met' = met
      /\ pc \in [Processes -> MainSteps] /\ crashed \in [Processes -> BOOLEAN]
      /\ chan \in [Processes -> ChanSteps]
  BY DEF Crash, StartupTypeOK, SocketTypeOK
<1>2. /\ pc' \in [Processes -> MainSteps]
      /\ crashed' \in [Processes -> BOOLEAN]
      /\ SocketTypeOK'
  BY <1>1 DEF MainSteps, ChanSteps, StartupTypeOK, SocketTypeOK
<1>3. Stages' /\ PathOwner'
  BY <1>1 DEF SocketInv, Stages, PathOwner
<1>4. PresentMet'
  <2>1. Present' \subseteq Present
    BY <1>1 DEF Present
  <2> QED
    BY <1>1, <2>1 DEF SocketInv, PresentMet
<1>5. PathKept' /\ StaleSocketIsNoObstacle'
  BY <1>1 DEF SocketInv, PathKept, StaleSocketIsNoObstacle
<1> QED
  BY <1>2, <1>3, <1>4, <1>5 DEF SocketInv

-------------------------------------------------------------------------------
(* The steps of the specification.                                          *)

LEMMA StartupInit_Inv == StartupInit => StartupInv
<1> SUFFICES ASSUME StartupInit PROVE StartupInv
  OBVIOUS
<1> USE DEF StartupInit, EditorInit, SocketInit
<1>1. StartupTypeOK
  BY DEF StartupTypeOK, EditorTypeOK, SocketTypeOK, FlowSteps, ChanSteps,
         MainSteps, Inputs, NoInput
<1>2. NoFileAfterReturn
  BY DEF NoFileAfterReturn, Returned
<1>3. SocketInv
  BY PathAssumption DEF SocketInv, Stages, PathOwner, PresentMet, PathKept,
         StaleSocketIsNoObstacle, Present
<1> QED
  BY <1>1, <1>2, <1>3 DEF StartupInv

LEMMA EditorFrame ==
  ASSUME EditorTypeOK, NoFileAfterReturn, UNCHANGED editorVars
  PROVE  EditorTypeOK' /\ NoFileAfterReturn'
BY DEF EditorTypeOK, NoFileAfterReturn, Returned, editorVars

LEMMA Process_Inv ==
  ASSUME StartupInv, NEW p \in Processes,
         \/ StartEditor(p) \/ StartCli(p) \/ ProcessStep(p)
         \/ UserSaves(p) \/ UserEnds(p) \/ EngineStops(p) \/ Crash(p)
  PROVE  StartupInv'
<1>1. StartupTypeOK /\ EditorTypeOK /\ SocketTypeOK /\ NoFileAfterReturn /\ SocketInv
  BY DEF StartupInv, StartupTypeOK
<1>2. SocketTypeOK /\ UNCHANGED socketVars => SocketTypeOK'
  BY DEF SocketTypeOK, socketVars
<1>3. CASE EditorStep(p) \/ UserEnds(p) \/ UserSaves(p)
  <2>1. EditorNext(p) /\ UNCHANGED <<socketVars, pc, crashed, met>>
    BY <1>3 DEF EditorStep, UserEnds, UserSaves, EditorNext
  <2>2. EditorTypeOK' /\ NoFileAfterReturn'
    BY <1>1, <2>1, EditorNextKeeps
  <2>3. SocketInv'
    BY <1>1, <2>1, SocketFrame
  <2> QED
    BY <1>1, <1>2, <2>1, <2>2, <2>3 DEF StartupInv, StartupTypeOK
<1>4. CASE \/ StartEditor(p) \/ StartCli(p) \/ CliFails(p) \/ EditorReturnsError(p)
           \/ ChannelThrows(p) \/ ConstructEngine(p) \/ EngineThrows(p)
           \/ EngineStops(p) \/ MainReturns(p)
  <2>1. PlainMoves(p) /\ UNCHANGED <<socketVars, crashed, met>>
    BY <1>4 DEF StartEditor, StartCli, CliFails, EditorReturnsError, ChannelThrows,
         ConstructEngine, EngineThrows, EngineStops, MainReturns, PlainMoves
  <2>2. EditorTypeOK' /\ NoFileAfterReturn'
    <3>1. CASE StartEditor(p)
      BY <1>1, <3>1, EditorNextKeeps DEF StartEditor, EditorNext
    <3>2. CASE ~StartEditor(p)
      <4>1. UNCHANGED editorVars
        BY <1>4, <3>2 DEF StartCli, CliFails, EditorReturnsError,
             ChannelThrows, ConstructEngine, EngineThrows, EngineStops, MainReturns
      <4> QED
        BY <1>1, <4>1, EditorFrame
    <3> QED
      BY <3>1, <3>2
  <2>3. SocketInv' /\ pc' \in [Processes -> MainSteps]
    BY <1>1, <2>1, PlainMovesKeep
  <2> QED
    BY <1>1, <1>2, <2>1, <2>2, <2>3 DEF StartupInv, StartupTypeOK
<1>5. CASE CliParsed(p) \/ EditorReturns(p)
  <2>1. /\ EnterChannel(p, "options") \/ EnterChannel(p, "editor")
        /\ UNCHANGED <<socketVars, crashed>>
    BY <1>5 DEF CliParsed, EditorReturns
  <2>2. EditorTypeOK' /\ NoFileAfterReturn'
    BY <1>1, <1>5 DEF CliParsed, EditorReturns, editorVars, EditorTypeOK,
         NoFileAfterReturn, Returned
  <2>3. /\ SocketInv'
        /\ pc' \in [Processes -> MainSteps]
        /\ met' \in [Processes -> SUBSET Processes]
    BY <1>1, <2>1, EnterChannelKeeps
  <2> QED
    BY <1>1, <1>2, <2>1, <2>2, <2>3 DEF StartupInv, StartupTypeOK
<1>6. CASE ConstructChannel(p)
  <2>1. SocketInv' /\ SocketTypeOK'
    BY <1>1, <1>6, ConstructorKeeps DEF ConstructChannel
  <2>2. EditorTypeOK' /\ NoFileAfterReturn'
    BY <1>1, <1>6, EditorFrame DEF ConstructChannel
  <2> QED
    BY <1>1, <1>6, <2>1, <2>2 DEF StartupInv, StartupTypeOK, ConstructChannel
<1>7. CASE DestroyChannel(p)
  <2>1. SocketInv' /\ SocketTypeOK'
    BY <1>1, <1>7, DestructorKeeps DEF DestroyChannel
  <2>2. EditorTypeOK' /\ NoFileAfterReturn'
    BY <1>1, <1>7, EditorFrame DEF DestroyChannel
  <2> QED
    BY <1>1, <1>7, <2>1, <2>2 DEF StartupInv, StartupTypeOK, DestroyChannel
<1>8. CASE Crash(p)
  <2>1. /\ SocketInv' /\ SocketTypeOK'
        /\ pc' \in [Processes -> MainSteps]
        /\ crashed' \in [Processes -> BOOLEAN]
    BY <1>1, <1>8, CrashKeeps
  <2>2. EditorTypeOK' /\ NoFileAfterReturn' /\ met' = met
    BY <1>1, <1>8, EditorFrame DEF Crash
  <2> QED
    BY <1>1, <2>1, <2>2 DEF StartupInv, StartupTypeOK
<1> QED
  BY <1>3, <1>4, <1>5, <1>6, <1>7, <1>8 DEF ProcessStep

LEMMA Startup_Invariance == StartupSpec => []StartupInv
<1>1. StartupInv /\ [StartupNext]_startupVars => StartupInv'
  <2> SUFFICES ASSUME StartupInv, [StartupNext]_startupVars PROVE StartupInv'
    OBVIOUS
  <2>1. CASE UNCHANGED startupVars
    <3>1. UNCHANGED editorVars /\ UNCHANGED <<socketVars, pc, crashed, met>>
      BY <2>1 DEF startupVars
    <3>2. EditorTypeOK' /\ NoFileAfterReturn' /\ SocketInv'
      BY <3>1, EditorFrame, SocketFrame DEF StartupInv, StartupTypeOK
    <3> QED
      BY <3>1, <3>2 DEF StartupInv, StartupTypeOK, SocketTypeOK, socketVars
  <2>2. CASE StartupNext
    BY <2>1, <2>2, Process_Inv DEF StartupNext, AllEnded
  <2> QED
    BY <2>1, <2>2
<1> QED
  BY <1>1, StartupInit_Inv, PTL DEF StartupSpec

-------------------------------------------------------------------------------
(* The theorems.                                                            *)

\* The files, the channel and main() keep their types.
THEOREM StartupTypeCorrect == StartupSpec => []StartupTypeOK
<1>1. StartupInv => StartupTypeOK
  BY DEF StartupInv
<1> QED
  BY <1>1, Startup_Invariance, PTL

\* Whatever fails, and however many processes run at once, one that is not
\* killed leaves neither its template nor, but for a failed listen(), its socket.
THEOREM StartupCleansUp == StartupSpec => []NothingLeftBehind
<1>1. StartupInv => NothingLeftBehind
  BY DEF StartupInv, SocketInv, Stages, PathOwner, NothingLeftBehind, NoDeadPath
<1> QED
  BY <1>1, Startup_Invariance, PTL

\* A session whose user starts no other process beside it can be reached,
\* whatever crashed before it and whatever other users do.
THEOREM LoneSessionIsReachable == StartupSpec => []RunningIsReachable
<1>1. StartupInv => RunningIsReachable
  BY DEF StartupInv, SocketInv, Stages, PathKept, RunningIsReachable, Reachable
<1> QED
  BY <1>1, Startup_Invariance, PTL

\* No socket of an earlier process of the same user keeps bind() from its path.
THEOREM CrashIsRecovered == StartupSpec => []StaleSocketIsNoObstacle
<1>1. StartupInv => StaleSocketIsNoObstacle
  BY DEF StartupInv, SocketInv
<1> QED
  BY <1>1, Startup_Invariance, PTL

===============================================================================
