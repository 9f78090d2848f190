----------------------------- MODULE ControlSocket -----------------------------
(***************************************************************************)
(* The file /tmp/rtpgen.sock by which peers find a process                 *)
(* (UnixSocketControlChannel, constructor and destructor).  All processes  *)
(* use the same path, each call is one step, and nothing but the kernel    *)
(* guards the path: in /tmp a file can be removed by its owner only.       *)
(***************************************************************************)
EXTENDS ProcessTable

CONSTANT NOBODY  \* no file

ASSUME PathAssumption == NOBODY \notin Processes

VARIABLES
  path,  \* whose socket the file leads to
  chan   \* how far the constructor or the destructor of the channel is

socketVars == <<path, chan>>

\* "refused": thrown before the file existed; "deaf": listen() failed.
ChanSteps == {"none", "open", "unlinked", "bound", "listening",
              "refused", "deaf", "closed", "gone"}

SocketInit ==
  /\ path = NOBODY
  /\ chan = [p \in Processes |-> "none"]

-------------------------------------------------------------------------------
Move(p, from, to) == chan[p] = from /\ chan' = [chan EXCEPT ![p] = to]

\* unlink() on the path, whose result nobody looks at.
RemovePath(p) ==
  path' = IF path # NOBODY /\ SameUser(path, p) THEN NOBODY ELSE path

OpenSocket(p) == Move(p, "none", "open") /\ UNCHANGED path

SocketFails(p) == Move(p, "none", "refused") /\ UNCHANGED path

\* The file a crashed process left is taken for nobody's concern.
UnlinkStaleForgotten(p) == Move(p, "open", "unlinked") /\ UNCHANGED path

UnlinkStale(p) == Move(p, "open", "unlinked") /\ RemovePath(p)

\* The unlink after the bind.
BindPathThenUnlink(p) ==
  /\ path = NOBODY
  /\ Move(p, "unlinked", "bound")
  /\ UNCHANGED path

BindPath(p) ==
  /\ path = NOBODY
  /\ Move(p, "unlinked", "bound")
  /\ path' = p

\* Back to the unlink in the place of the throw.
BindFailsRetrying(p) ==
  path # NOBODY /\ Move(p, "unlinked", "open") /\ UNCHANGED path

\* Somebody has bound the path since the unlink, or the unlink failed; or the
\* kernel cannot create the file (no space in /tmp, say).
BindFails(p) == Move(p, "unlinked", "refused") /\ UNCHANGED path

Listen(p) == Move(p, "bound", "listening") /\ UNCHANGED path

ListenFails(p) == Move(p, "bound", "deaf") /\ UNCHANGED path

ConstructorStep(p) ==
  \/ OpenSocket(p) \/ SocketFails(p) \/ UnlinkStale(p)
  \/ BindPath(p) \/ BindFails(p) \/ Listen(p) \/ ListenFails(p)

CloseSocket(p) == Move(p, "listening", "closed") /\ UNCHANGED path

\* The destructor leaves the file to the next constructor.
UnlinkPathForgotten(p) == Move(p, "closed", "gone") /\ UNCHANGED path

\* Removes the file of whoever has bound the path meanwhile, too.
UnlinkPath(p) == Move(p, "closed", "gone") /\ RemovePath(p)

DestructorStep(p) == CloseSocket(p) \/ UnlinkPath(p)

-------------------------------------------------------------------------------
SocketTypeOK ==
  /\ path \in Processes \union {NOBODY}
  /\ chan \in [Processes -> ChanSteps]

\* A peer that connects to the path reaches p.
Reachable(p) == path = p /\ chan[p] = "listening"

===============================================================================
