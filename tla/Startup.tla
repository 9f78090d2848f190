-------------------------------- MODULE Startup --------------------------------
(***************************************************************************)
(* main() of several processes, from the choice of the input to the exit:  *)
(* editor or command line (CliParser.cpp), construction of the channel and *)
(* the engine, the session, destruction.  A process may be killed between  *)
(* any two steps.  What happens while a session runs is module Session's,  *)
(* what the engine accepts is ConfigValidation's.                          *)
(***************************************************************************)
EXTENDS TemplateEditor, ControlSocket

VARIABLES
  pc,       \* where main() is
  crashed,  \* history: killed
  met       \* history: the processes that were about a channel at the same time

startupVars == <<editorVars, socketVars, pc, crashed, met>>

MainSteps == {"new", "editor", "options", "channel", "running", "teardown", "ended"}

StartupInit ==
  /\ EditorInit
  /\ SocketInit
  /\ pc = [p \in Processes |-> "new"]
  /\ crashed = [p \in Processes |-> FALSE]
  /\ met = [p \in Processes |-> {}]

-------------------------------------------------------------------------------
MainGoes(p, from, to) == pc[p] = from /\ pc' = [pc EXCEPT ![p] = to]

Present == {q \in Processes : pc[q] \in {"channel", "running", "teardown"}}

\* The construction of the channel begins.
EnterChannel(p, from) ==
  /\ MainGoes(p, from, "channel")
  /\ met' = [q \in Processes |->
               IF q = p THEN met[q] \union Present
               ELSE IF q \in Present THEN met[q] \union {p} ELSE met[q]]

\* argc == 1
StartEditor(p) ==
  /\ p \in NoArgs
  /\ MainGoes(p, "new", "editor")
  /\ BeginFlow(p)
  /\ UNCHANGED <<socketVars, crashed, met>>

StartCli(p) ==
  /\ p \notin NoArgs
  /\ MainGoes(p, "new", "options")
  /\ UNCHANGED <<editorVars, socketVars, crashed, met>>

\* CLI11 returns 0 after it has printed the help, with no option stored:
\* main() goes on as after any other command line.
CliParsed(p) ==
  /\ EnterChannel(p, "options")
  /\ \E input \in Inputs : raw_opts' = [raw_opts EXCEPT ![p] = input]
  /\ UNCHANGED <<flow, temp_file, background, socketVars, crashed>>

CliFails(p) ==
  /\ MainGoes(p, "options", "ended")
  /\ UNCHANGED <<editorVars, socketVars, crashed, met>>

EditorStep(p) ==
  pc[p] = "editor" /\ FlowStep(p) /\ UNCHANGED <<socketVars, pc, crashed, met>>

UserEnds(p) ==
  pc[p] = "editor" /\ EditorEnds(p) /\ UNCHANGED <<socketVars, pc, crashed, met>>

UserSaves(p) == EditorSaves(p) /\ UNCHANGED <<socketVars, pc, crashed, met>>

EditorReturns(p) ==
  /\ flow[p] = "edited"
  /\ EnterChannel(p, "editor")
  /\ UNCHANGED <<editorVars, socketVars, crashed>>

EditorReturnsError(p) ==
  /\ flow[p] = "error"
  /\ MainGoes(p, "editor", "ended")
  /\ UNCHANGED <<editorVars, socketVars, crashed, met>>

ConstructChannel(p) ==
  /\ pc[p] = "channel"
  /\ ConstructorStep(p)
  /\ UNCHANGED <<editorVars, pc, crashed, met>>

\* A constructor that throws leaves nothing to destroy.
ChannelThrows(p) ==
  /\ chan[p] \in {"refused", "deaf"}
  /\ MainGoes(p, "channel", "ended")
  /\ UNCHANGED <<editorVars, socketVars, crashed, met>>

ConstructEngine(p) ==
  /\ chan[p] = "listening"
  /\ raw_opts[p] = "accepted"
  /\ MainGoes(p, "channel", "running")
  /\ UNCHANGED <<editorVars, socketVars, crashed, met>>

\* The options are rejected, the source port is taken, or there is no
\* descriptor or thread left: the channel is destroyed on the way out.
EngineThrows(p) ==
  /\ chan[p] = "listening"
  /\ MainGoes(p, "channel", "teardown")
  /\ UNCHANGED <<editorVars, socketVars, crashed, met>>

\* The session has been stopped.
EngineStops(p) ==
  /\ MainGoes(p, "running", "teardown")
  /\ UNCHANGED <<editorVars, socketVars, crashed, met>>

DestroyChannel(p) ==
  /\ pc[p] = "teardown"
  /\ DestructorStep(p)
  /\ UNCHANGED <<editorVars, pc, crashed, met>>

MainReturns(p) ==
  /\ chan[p] = "gone"
  /\ MainGoes(p, "teardown", "ended")
  /\ UNCHANGED <<editorVars, socketVars, crashed, met>>

\* The kernel closes the descriptors; files stay.
Crash(p) ==
  /\ pc[p] \notin {"new", "ended"}
  /\ pc' = [pc EXCEPT ![p] = "ended"]
  /\ crashed' = [crashed EXCEPT ![p] = TRUE]
  /\ chan' = [chan EXCEPT ![p] = "gone"]
  /\ UNCHANGED <<editorVars, path, met>>

ProcessStep(p) ==
  \/ CliParsed(p) \/ CliFails(p)
  \/ EditorStep(p) \/ EditorReturns(p) \/ EditorReturnsError(p)
  \/ ConstructChannel(p) \/ ChannelThrows(p)
  \/ ConstructEngine(p) \/ EngineThrows(p)
  \/ DestroyChannel(p) \/ MainReturns(p)

AllEnded == (\A p \in Processes : pc[p] = "ended") /\ UNCHANGED startupVars

StartupNext ==
  \/ \E p \in Processes :
       \/ StartEditor(p) \/ StartCli(p) \/ ProcessStep(p)
       \/ UserSaves(p) \/ UserEnds(p) \/ EngineStops(p) \/ Crash(p)
  \/ AllEnded

StartupSpec ==
  /\ StartupInit
  /\ [][StartupNext]_startupVars
  /\ \A p \in Processes : WF_startupVars(ProcessStep(p))

-------------------------------------------------------------------------------
(* Properties.                                                              *)

\* Every variable keeps its type.
StartupTypeOK ==
  /\ EditorTypeOK
  /\ SocketTypeOK
  /\ pc \in [Processes -> MainSteps]
  /\ crashed \in [Processes -> BOOLEAN]
  /\ met \in [Processes -> SUBSET Processes]

NoDeadPath ==
  \A p \in Processes :
    pc[p] = "ended" /\ ~crashed[p] /\ path = p => chan[p] = "deaf"

\* A process that was not killed removes what it created, whichever of its calls
\* failed and whatever the others do: the template from the return of the flow
\* on, the socket before its exit.  listen() failing is the one path of the
\* constructor that leaves the file.
NothingLeftBehind == NoFileAfterReturn /\ NoDeadPath

\* Peers reach a running session, unless a process of the same user was about a
\* channel meanwhile: its unlink() takes the path away, from the constructor
\* even if its options are then rejected, from the destructor long after.
\* Processes that crashed before, and those of other users, cannot.
RunningIsReachable ==
  \A p \in Processes :
    pc[p] = "running" /\ (\A q \in met[p] : ~SameUser(p, q)) => Reachable(p)

\* What a crash left never keeps the next process of that user from starting:
\* after its unlink() only a process that is starting with it, or the file of
\* another user, is in the way of bind().
StaleSocketIsNoObstacle ==
  \A p, q \in Processes :
    chan[p] = "unlinked" /\ path = q => q \in met[p] \/ ~SameUser(p, q)

\* main() comes to rest: it never stays in a constructor, a destructor or the
\* flow, except for the user who edits.
EveryStartSettles ==
  \A p \in Processes :
    []<>(pc[p] \in {"new", "running", "ended"} \/ flow[p] = "edit")

===============================================================================
