----------------------------- MODULE SenderProofs -----------------------------
(* Proofs about Sender for any number of ports and descriptors.             *)
EXTENDS Sender, TLAPS

SenderInv == SenderTypeOK /\ OneSocket /\ PortAgrees

LEMMA SenderInit_Inv ==
  ASSUME NEW p \in Ports, SenderInit(p)
  PROVE  SenderInv
BY SenderAssumption
   DEF SenderInit, SenderInv, SenderTypeOK, OneSocket, PortAgrees, AllPorts

\* A send, with whatever rebind it does, keeps exactly one socket and keeps
\* m_src_port and the port of that socket in agreement.
LEMMA Send_Inv ==
  ASSUME SenderInv, NEW port \in Ports \union {0}, Send(port)
  PROVE  SenderInv'
<1> USE DEF SenderInv, SenderTypeOK, OneSocket, PortAgrees, AllPorts, kernelVars
<1>1. CASE UNCHANGED <<m_sockfd, m_src_port, sockets>>
  BY <1>1 DEF Send
<1>2. CASE Rebind(port)
  <2>1. PICK fd \in FreeFds, p \in BindResults(port) :
          /\ sockets' = Replaced(m_sockfd, fd, p)
          /\ m_sockfd' = fd
          /\ m_src_port' = port
    BY <1>2 DEF Rebind
  <2>2. /\ fd \in Fds
        /\ p \in AllPorts
        /\ p \notin foreign
        /\ p \in IF port = 0 THEN EphemeralPorts ELSE {port}
    BY <2>1 DEF FreeFds, BindResults, PortsTaken
  <2>3. sockets' = [x \in {fd} |-> p]
    BY <2>1 DEF Replaced
  <2> QED
    BY <2>1, <2>2, <2>3 DEF Send
<1> QED
  BY <1>1, <1>2 DEF Send, RebindFails

LEMMA Kernel_Inv ==
  ASSUME SenderInv, KernelNext
  PROVE  SenderInv'
BY DEF SenderInv, SenderTypeOK, OneSocket, PortAgrees, AllPorts, KernelNext,
       ForeignBinds, ForeignCloses, FdsRunOut, PortsTaken, Range

LEMMA Sender_Invariance == SenderSpec => []SenderInv
<1>1. (\E p \in Ports \ PrivilegedPorts : SenderInit(p)) => SenderInv
  BY SenderInit_Inv
<1>2. SenderInv /\ [KernelNext \/ \E p \in Ports \union {0} : Send(p)]_senderVars
        => SenderInv'
  <2> SUFFICES ASSUME SenderInv,
                      [KernelNext \/ \E p \in Ports \union {0} : Send(p)]_senderVars
               PROVE  SenderInv'
    OBVIOUS
  <2>1. CASE KernelNext
    BY <2>1, Kernel_Inv
  <2>2. CASE \E p \in Ports \union {0} : Send(p)
    BY <2>2, Send_Inv
  <2>3. CASE UNCHANGED senderVars
    BY <2>3 DEF senderVars, SenderInv, SenderTypeOK, OneSocket, PortAgrees, AllPorts
  <2> QED
    BY <2>1, <2>2, <2>3
<1> QED
  BY <1>1, <1>2, PTL DEF SenderSpec

\* The fields of the sender and the kernel's tables keep their types.
THEOREM SenderTypeCorrect == SenderSpec => []SenderTypeOK
<1>1. SenderInv => SenderTypeOK
  BY DEF SenderInv
<1> QED
  BY <1>1, Sender_Invariance, PTL

\* No sequence of rebinds, failed ones included, leaks a socket or sends from
\* one that was closed.
THEOREM SenderHoldsOneSocket == SenderSpec => []OneSocket
<1>1. SenderInv => OneSocket
  BY DEF SenderInv
<1> QED
  BY <1>1, Sender_Invariance, PTL

\* m_src_port is the port of the socket, or 0 for one that bind(0) gave, and nobody
\* else has it.
THEOREM SenderPortAgrees == SenderSpec => []PortAgrees
<1>1. SenderInv => PortAgrees
  BY DEF SenderInv
<1> QED
  BY <1>1, Sender_Invariance, PTL

\* Every branch of send(), the one that rebinds nothing and the failed rebind
\* included, leaves the socket on the port asked for if it can be had.
LEMMA Send_LeavesFrom ==
  ASSUME SenderInv, NEW port \in Ports \union {0}, Send(port)
  PROVE  LeavesFrom(port)
<1> USE DEF SenderInv, OneSocket, PortAgrees
<1>1. CASE port = m_src_port /\ UNCHANGED <<m_sockfd, m_src_port, sockets>>
  BY <1>1 DEF LeavesFrom
<1>2. CASE Rebind(port)
  <2>1. PICK fd \in FreeFds, p \in BindResults(port) :
          /\ sockets' = Replaced(m_sockfd, fd, p)
          /\ m_sockfd' = fd
    BY <1>2 DEF Rebind
  <2>2. sockets'[m_sockfd'] = p
    BY <2>1 DEF Replaced
  <2>3. ~OutOfReach(port)
    BY <2>1 DEF OutOfReach, FreeFds, BindResults, PortsTaken
  <2>4. p \in IF port = 0 THEN EphemeralPorts ELSE {port}
    BY <2>1 DEF BindResults
  <2> QED
    BY <2>2, <2>3, <2>4 DEF LeavesFrom
<1>3. CASE RebindFails(port)
  <2>1. ~fds_full => FreeFds # {}
    BY SenderAssumption DEF FreeFds, SenderTypeOK
  <2>2. ~OutOfReach(port) => port # 0 /\ port = sockets[m_sockfd]
    BY <1>3, <2>1
       DEF RebindFails, CanRebind, BindResults, PortsTaken, OutOfReach, Range
  <2> QED
    BY <1>3, <2>2 DEF RebindFails, LeavesFrom
<1> QED
  BY <1>1, <1>2, <1>3 DEF Send

===============================================================================
