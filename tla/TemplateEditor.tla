---------------------------- MODULE TemplateEditor ----------------------------
(***************************************************************************)
(* The interactive start (cli/TemplateEditor.cpp): a temporary file holds  *)
(* the template, an editor runs on it, and what the editor left becomes    *)
(* the input of the session.  Any call of the system may fail, and the     *)
(* editor may do anything to the file.                                     *)
(*                                                                         *)
(* A process has a file name of its own: mkstemps() takes no name twice.   *)
(***************************************************************************)
EXTENDS ProcessTable

VARIABLES
  flow,        \* where run_interactive_editor_flow() is
  temp_file,   \* what /tmp/rtpgen_XXXXXX.yaml holds
  raw_opts,    \* StreamOptions as main() hands them to the engine
  background   \* history: the editor returned and still has the file open

editorVars == <<flow, temp_file, raw_opts, background>>

\* What a document or a command line amounts to for the engine.  No input at all
\* is rejected, a file without text being no input; the template is accepted.
Inputs == {"accepted", "rejected"}
NoInput == "rejected"
Template == "accepted"

FlowSteps == {"idle", "create", "write", "close", "fork", "edit", "read",
              "unlink", "catch", "edited", "error"}

Returned(p) == flow[p] \in {"edited", "error"}

EditorInit ==
  /\ flow = [p \in Processes |-> "idle"]
  /\ temp_file = [p \in Processes |-> "absent"]
  /\ raw_opts = [p \in Processes |-> NoInput]
  /\ background = [p \in Processes |-> FALSE]

-------------------------------------------------------------------------------
Goto(p, from, to) == flow[p] = from /\ flow' = [flow EXCEPT ![p] = to]

Unlink(p) == temp_file' = [temp_file EXCEPT ![p] = "absent"]

BeginFlow(p) ==
  Goto(p, "idle", "create") /\ UNCHANGED <<temp_file, raw_opts, background>>

CreateFile(p) ==
  /\ Goto(p, "create", "write")
  /\ temp_file' = [temp_file EXCEPT ![p] = NoInput]
  /\ UNCHANGED <<raw_opts, background>>

WriteTemplate(p) ==
  /\ Goto(p, "write", "close")
  /\ temp_file' = [temp_file EXCEPT ![p] = Template]
  /\ UNCHANGED <<raw_opts, background>>

CloseFile(p) ==
  Goto(p, "close", "fork") /\ UNCHANGED <<temp_file, raw_opts, background>>

\* write() or close() fails: the file is unlinked before the throw.
WritingFails(p) ==
  /\ \E from \in {"write", "close"} : Goto(p, from, "catch")
  /\ Unlink(p)
  /\ UNCHANGED <<raw_opts, background>>

Fork(p) ==
  Goto(p, "fork", "edit") /\ UNCHANGED <<temp_file, raw_opts, background>>

\* mkstemps(), fork() or waitpid() fails, or the file cannot be opened again.
CallFails(p) ==
  /\ \E from \in {"create", "fork", "edit", "read"} : Goto(p, from, "catch")
  /\ UNCHANGED <<temp_file, raw_opts, background>>

\* waitpid() reports a status other than a normal exit with 0; so does the
\* child that found no editor to execute.
EditorFailsKeepingFile(p) ==
  Goto(p, "edit", "error") /\ UNCHANGED <<temp_file, raw_opts, background>>

EditorFails(p) ==
  Goto(p, "edit", "error") /\ Unlink(p) /\ UNCHANGED <<raw_opts, background>>

\* The exit of an editor that handed the file to another process looks the same.
EditorExits(p) ==
  /\ Goto(p, "edit", "read")
  /\ \E b \in BOOLEAN : background' = [background EXCEPT ![p] = b]
  /\ UNCHANGED <<temp_file, raw_opts>>

\* The test of the stream left out: what is read is no document.
ReadFileUnchecked(p) ==
  /\ Goto(p, "read", "unlink")
  /\ raw_opts' = [raw_opts EXCEPT ![p] = temp_file[p]]
  /\ UNCHANGED <<temp_file, background>>

ReadFile(p) ==
  /\ Goto(p, "read", "unlink")
  /\ temp_file[p] # "absent"
  /\ raw_opts' = [raw_opts EXCEPT ![p] = temp_file[p]]
  /\ UNCHANGED <<temp_file, background>>

UnlinkRead(p) ==
  Goto(p, "unlink", "edited") /\ Unlink(p) /\ UNCHANGED <<raw_opts, background>>

Catch(p) ==
  Goto(p, "catch", "error") /\ Unlink(p) /\ UNCHANGED <<raw_opts, background>>

\* What the process does by itself, and what waits for the editor.
FlowStep(p) ==
  \/ CreateFile(p) \/ WriteTemplate(p) \/ CloseFile(p) \/ WritingFails(p)
  \/ Fork(p) \/ CallFails(p) \/ ReadFile(p) \/ UnlinkRead(p) \/ Catch(p)

EditorEnds(p) == EditorFails(p) \/ EditorExits(p)

\* The editor saves, by writing or by renaming, or removes the file.
EditorSaves(p) ==
  /\ flow[p] = "edit" \/ background[p]
  /\ \E doc \in Inputs \union {"absent"} :
       temp_file' = [temp_file EXCEPT ![p] = doc]
  /\ UNCHANGED <<flow, raw_opts, background>>

-------------------------------------------------------------------------------
EditorTypeOK ==
  /\ flow \in [Processes -> FlowSteps]
  /\ temp_file \in [Processes -> Inputs \union {"absent"}]
  /\ raw_opts \in [Processes -> Inputs]
  /\ background \in [Processes -> BOOLEAN]

\* "The temp file is always unlinked before returning, on every path"
\* (TemplateEditor.h:19), whichever call failed; only an editor that goes on in
\* the background brings it back.
NoFileAfterReturn ==
  \A p \in Processes : Returned(p) /\ ~background[p] => temp_file[p] = "absent"

===============================================================================
