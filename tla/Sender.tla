-------------------------------- MODULE Sender --------------------------------
(***************************************************************************)
(* The UDP socket of the stream (core/Sender.{h,cpp}): send() first rebinds*)
(* the socket when the engine asks for another source port, then sends.    *)
(* The kernel (which ports are taken, which port bind(0) gives, whether    *)
(* socket() finds a descriptor) and the other processes are modelled as    *)
(* far as the calls in Sender.cpp can tell.                                *)
(***************************************************************************)
EXTENDS Integers, FiniteSets, Functions

CONSTANTS
  Fds,             \* descriptors socket() may return
  Ports,           \* ports a configuration may ask for
  PrivilegedPorts, \* ports this process may not bind: those below 1024, unless
                   \* it has CAP_NET_BIND_SERVICE
  EphemeralPorts   \* ports the kernel chooses from for bind(0)

\* While one descriptor is in use another one is left to take its place;
\* running out of them is fds_full.
ASSUME SenderAssumption ==
  /\ \A fd \in Fds : Fds \ {fd} # {}
  /\ Ports \subseteq Nat \ {0}
  /\ EphemeralPorts \subseteq Nat \ {0}

VARIABLES
  m_sockfd,    \* Sender::m_sockfd
  m_src_port,  \* Sender::m_src_port: the port asked for, 0 after a random one
  sockets,     \* kernel: the descriptors this process holds, with their port
  foreign,     \* kernel: ports other processes hold
  fds_full     \* kernel: socket() fails (EMFILE, ENFILE, ENOBUFS)

senderVars == <<m_sockfd, m_src_port, sockets, foreign, fds_full>>
kernelVars == <<foreign, fds_full>>

-------------------------------------------------------------------------------
\* A constructor that does not throw: the socket is bound to src_port.
SenderInit(src_port) ==
  /\ m_sockfd \in Fds
  /\ m_src_port = src_port
  /\ sockets = [fd \in {m_sockfd} |-> src_port]
  /\ foreign \in SUBSET ((Ports \union EphemeralPorts) \ {src_port})
  /\ fds_full = FALSE

PortsTaken == foreign \union Range(sockets)

\* The ports a bind() to port may give the socket; none when it fails, with
\* EADDRINUSE for a port that is taken, be it by the socket in use, and EACCES
\* for a privileged one. bind(0) takes any free ephemeral port.
BindResults(port) ==
  IF port = 0 THEN EphemeralPorts \ PortsTaken
              ELSE {port} \ (PortsTaken \union PrivilegedPorts)

\* The descriptors socket() may return; none when it fails.
FreeFds == IF fds_full THEN {} ELSE Fds \ DOMAIN sockets

CanRebind(port) == FreeFds # {} /\ BindResults(port) # {}

\* The sockets of the process once fd, bound to p, took the place of old.
Replaced(old, fd, p) ==
  [x \in (DOMAIN sockets \ {old}) \union {fd} |-> IF x = fd THEN p ELSE sockets[x]]

\* The old socket stays open.
RebindLeaking(port) ==
  \E fd \in FreeFds, p \in BindResults(port) :
    /\ sockets' = Replaced(fd, fd, p)
    /\ m_sockfd' = fd
    /\ m_src_port' = port

\* The new port is noted, the new descriptor is not.
RebindForgetsSocket(port) ==
  \E fd \in FreeFds, p \in BindResults(port) :
    /\ m_src_port' = port
    /\ UNCHANGED <<m_sockfd, sockets>>

\* The new socket is open and bound before the old one is closed.
Rebind(port) ==
  \E fd \in FreeFds, p \in BindResults(port) :
    /\ sockets' = Replaced(m_sockfd, fd, p)
    /\ m_sockfd' = fd
    /\ m_src_port' = port

\* The requested port is noted before it is known whether the rebind succeeds.
RebindFailsNoted(port) ==
  ~CanRebind(port) /\ m_src_port' = port /\ UNCHANGED <<m_sockfd, sockets>>

\* A failed socket() or bind() is logged; the new descriptor, if any, is closed.
RebindFails(port) ==
  ~CanRebind(port) /\ UNCHANGED <<m_sockfd, m_src_port, sockets>>

\* send(): sendto() changes no state and its failure is only logged.
Send(port) ==
  /\ \/ port = m_src_port /\ UNCHANGED <<m_sockfd, m_src_port, sockets>>
     \/ port # m_src_port /\ (Rebind(port) \/ RebindFails(port))
  /\ UNCHANGED kernelVars

-------------------------------------------------------------------------------
(* The kernel and the other processes.                                     *)

ForeignBinds(p) ==
  /\ p \notin PortsTaken
  /\ foreign' = foreign \union {p}
  /\ UNCHANGED <<m_sockfd, m_src_port, sockets, fds_full>>

ForeignCloses(p) ==
  /\ p \in foreign
  /\ foreign' = foreign \ {p}
  /\ UNCHANGED <<m_sockfd, m_src_port, sockets, fds_full>>

FdsRunOut ==
  /\ fds_full' = ~fds_full
  /\ UNCHANGED <<m_sockfd, m_src_port, sockets, foreign>>

KernelNext ==
  \/ \E p \in Ports \union EphemeralPorts : ForeignBinds(p) \/ ForeignCloses(p)
  \/ FdsRunOut

-------------------------------------------------------------------------------
(* The sender alone: packets with any requested port, 0 for a random one.  *)

SenderSpec ==
  /\ \E p \in Ports \ PrivilegedPorts : SenderInit(p)
  /\ [][KernelNext \/ \E p \in Ports \union {0} : Send(p)]_senderVars

-------------------------------------------------------------------------------
(* Properties.                                                              *)

AllPorts == Ports \union EphemeralPorts

SenderTypeOK ==
  /\ m_sockfd \in Fds
  /\ m_src_port \in Ports \union {0}
  /\ DOMAIN sockets \subseteq Fds
  /\ \A fd \in DOMAIN sockets : sockets[fd] \in AllPorts
  /\ foreign \subseteq AllPorts
  /\ fds_full \in BOOLEAN

\* However many rebinds were tried and failed, the process holds exactly one
\* socket, the one it sends from: nothing leaks, nothing is used after close.
OneSocket == DOMAIN sockets = {m_sockfd}

\* An explicit port the sender believes to use is the one the socket is bound
\* to, a random one is one that bind(0) gives, and no other process has it.
PortAgrees ==
  /\ sockets[m_sockfd] \in IF m_src_port = 0 THEN EphemeralPorts ELSE {m_src_port}
  /\ \A fd \in DOMAIN sockets : sockets[fd] \notin foreign

\* What keeps this process from getting a socket on port, 0 being any.
OutOfReach(port) ==
  \/ fds_full
  \/ port # 0 /\ port \in foreign \union PrivilegedPorts
  \/ port = 0 /\ EphemeralPorts \subseteq PortsTaken

\* A packet leaves from the port asked for if nothing keeps the process from it,
\* and else from the port of the packet before. A port the process has already,
\* drawn by bind(0) and asked for by number later, is one it has.
LeavesFrom(port) ==
  IF OutOfReach(port) THEN sockets' = sockets
  ELSE sockets'[m_sockfd'] \in IF port = 0 THEN EphemeralPorts ELSE {port}

===============================================================================
