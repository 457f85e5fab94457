--------------------------- MODULE TCPServerProofs ---------------------------
(***************************************************************************)
(* Proofs about TCPServer, for every number of sessions and descriptors,   *)
(* every width of the connection id and every number of begin() calls: its *)
(* types and control, its ids, and that it implements SessionService.      *)
(***************************************************************************)
EXTENDS TCPServer, TLAPS

-----------------------------------------------------------------------------
(* Types.                                                                  *)

\* Ids are numbers, and the next entry of the counter is one of them.
LEMMA NextEntryIsId ==
  ASSUME entryCnt \in Ids
  PROVE  NextEntry \in Ids
BY SizesAssumption DEF Ids, NextEntry

\* The initial state has the declared types.
LEMMA TypeInit == Init => TypeOK
<1> SUFFICES ASSUME Init PROVE TypeOK
  OBVIOUS
<1>1. 0 \in Ids /\ 0 \in 0..MaxUnread /\ 0 \in 0..MaxBegins
  BY SizesAssumption DEF Ids
<1>2. /\ fdOwner \in [Fds -> Sessions \cup {Free, ListenerSocket, Foreign}]
      /\ connFd \in [Sessions -> Fds \cup {NoFd}]
  BY DEF Init
<1>3. /\ connId \in [Sessions -> Ids]
      /\ unread \in [Sessions -> 0..MaxUnread]
      /\ job \in [Sessions -> JobStates]
  BY <1>1 DEF Init, JobStates
<1>4. /\ obj \in [Sessions -> {"none", "live", "deleted"}]
      /\ sock \in [Sessions -> {"none", "queued", "accepted", "closed"}]
      /\ peer \in [Sessions -> {"absent", "open", "closed"}]
  BY DEF Init
<1> QED
  BY <1>1, <1>2, <1>3, <1>4 DEF Init, TypeOK, PcStates

\* Closing a descriptor keeps the kernel's tables typed.
LEMMA CloseKeepsTypes ==
  ASSUME TypeOK, NEW f, CloseDescriptor(f)
  PROVE  /\ fdOwner' \in [Fds -> Sessions \cup {Free, ListenerSocket, Foreign}]
         /\ sock' \in [Sessions -> {"none", "queued", "accepted", "closed"}]
         /\ unread' \in [Sessions -> 0..MaxUnread]
         /\ peer' = peer
<1>1. fdOwner' \in [Fds -> Sessions \cup {Free, ListenerSocket, Foreign}]
  BY DEF TypeOK, CloseDescriptor
<1>2. sock' \in [Sessions -> {"none", "queued", "accepted", "closed"}]
  BY DEF TypeOK, CloseDescriptor
<1>3. unread' \in [Sessions -> 0..MaxUnread]
  BY SizesAssumption DEF TypeOK, CloseDescriptor
<1> QED
  BY <1>1, <1>2, <1>3 DEF CloseDescriptor

\* Reading one chunk keeps them typed.
LEMMA ReceiveKeepsTypes ==
  ASSUME TypeOK, NEW j \in Fds, Receive(j)
  PROVE  unread' \in [Sessions -> 0..MaxUnread]
<1>1. \A s \in Sessions : fdOwner[j] = s => unread[s] > 0
  BY DEF Receive, HasBytes
<1> QED
  BY <1>1, SizesAssumption DEF TypeOK, Receive

\* The control thread's calls keep the types.
LEMMA TypeControl ==
  ASSUME TypeOK, ControlStep
  PROVE  TypeOK'
<1>1. CASE Begin
  <2>1. begins' \in 0..MaxBegins
    BY <1>1, SizesAssumption DEF TypeOK, Begin
  <2> QED
    BY <1>1, <2>1 DEF TypeOK, Begin, objects, kernel, PcStates
<1>2. CASE Stop
  BY <1>2 DEF TypeOK, Stop, thread, table, objects, kernel
<1>3. CASE Join
  BY <1>3 DEF TypeOK, Join, table, objects, kernel, PcStates
<1>4. CASE Elapse
  BY <1>4 DEF TypeOK, Elapse, control, thread, objects, kernel
<1> QED
  BY <1>1, <1>2, <1>3, <1>4 DEF ControlStep

\* The server thread's bookkeeping and teardown steps keep the types.
LEMMA TypeTeardown ==
  ASSUME TypeOK,
         \/ Listen \/ Select \/ ScanEnd
         \/ HangupUnlist \/ HangupClose \/ HangupDelete
         \/ DropUnlist \/ DropDelete \/ DropClose
         \/ LeaveLoop \/ ShutdownEnd
  PROVE  TypeOK'
<1>1. CASE Listen
  BY <1>1, FdsAssumption DEF TypeOK, Listen, control, table, objects, PcStates
<1>2. CASE Select
  BY <1>2 DEF TypeOK, Select, ReadSet, control, table, objects, kernel, PcStates
<1>3. CASE ScanEnd
  BY <1>3 DEF TypeOK, ScanEnd, control, table, objects, kernel, PcStates
<1>4. CASE HangupClose
  BY <1>4, CloseKeepsTypes
  DEF TypeOK, HangupClose, control, table, objects, PcStates
<1>5. CASE HangupDelete
  BY <1>5 DEF TypeOK, HangupDelete, DeleteDying, StopPolling, control, table,
     kernel, PcStates
<1>6. CASE DropDelete
  BY <1>6 DEF TypeOK, DropDelete, DeleteDying, control, table, kernel, PcStates
<1>7. CASE DropClose
  BY <1>7, CloseKeepsTypes
  DEF TypeOK, DropClose, StopPolling, control, table, objects, PcStates
<1>8. CASE LeaveLoop
  BY <1>8 DEF TypeOK, LeaveLoop, control, table, objects, kernel, PcStates
<1>9. CASE ShutdownEnd
  BY <1>9 DEF TypeOK, ShutdownEnd, control, table, objects, kernel, PcStates
<1>10. CASE HangupUnlist \/ DropUnlist
  BY <1>10
  DEF TypeOK, HangupUnlist, DropUnlist, Unlist, control, objects, kernel, PcStates
<1> QED
  BY <1>1, <1>2, <1>3, <1>4, <1>5, <1>6, <1>7, <1>8, <1>9, <1>10

\* Erasing an id keeps the server's table typed.
LEMMA EraseKeepsTypes ==
  ASSUME TypeOK, NEW f, EraseId(f)
  PROVE  /\ active' \subseteq Ids
         /\ dying' \subseteq Sessions
         /\ UNCHANGED <<connections, entryCnt, recent, accepted>>
BY DEF TypeOK, EraseId, FindConnection

\* The steps of the loop over the descriptors keep the types.
LEMMA TypeScan ==
  ASSUME TypeOK, NEW j \in Fds,
         \/ Accept(j) \/ AcceptFails(j)
         \/ RecvBytes(j) \/ RecvBye(j) \/ RecvNothing(j)
         \/ \E deferred \in BOOLEAN : RecvRequest(j, deferred)
         \/ ShutdownClose(j)
  PROVE  TypeOK'
<1>0. j \in Nat
  BY FdsAssumption
<1>1. CASE Accept(j)
  BY <1>1, <1>0, NextEntryIsId, FdsAssumption
  DEF TypeOK, Accept, NewMaxFd, LowestFree, OldestQueued, control, PcStates
<1>2. CASE AcceptFails(j)
  BY <1>2, <1>0 DEF TypeOK, AcceptFails, control, table, objects, kernel
<1>3. CASE RecvBytes(j)
  BY <1>3, <1>0, ReceiveKeepsTypes
  DEF TypeOK, RecvBytes, Receive, control, table, objects
<1>4. CASE RecvBye(j)
  BY <1>4, <1>0, ReceiveKeepsTypes, EraseKeepsTypes
  DEF TypeOK, RecvBye, Receive, control, objects, PcStates
<1>5. CASE RecvNothing(j)
  BY <1>5, <1>0, EraseKeepsTypes
  DEF TypeOK, RecvNothing, control, objects, kernel, PcStates
<1>6. CASE \E deferred \in BOOLEAN : RecvRequest(j, deferred)
  <2>1. PICK deferred \in BOOLEAN : RecvRequest(j, deferred)
    BY <1>6
  <2>2. job' \in [Sessions -> JobStates]
    BY <2>1 DEF TypeOK, RecvRequest, Reply, JobStates
  <2> QED
    BY <2>1, <2>2, <1>0, ReceiveKeepsTypes
    DEF TypeOK, RecvRequest, Receive, control, table, objects
<1>7. CASE ShutdownClose(j)
  BY <1>7, <1>0, CloseKeepsTypes
  DEF TypeOK, ShutdownClose, control, table, objects
<1> QED
  BY <1>1, <1>2, <1>3, <1>4, <1>5, <1>6, <1>7

\* So do the workers, the clients and the rest of the process.
LEMMA TypeOthers ==
  ASSUME TypeOK, WorkerStep \/ ClientStep \/ ForeignStep
  PROVE  TypeOK'
<1>1. ASSUME NEW s \in Sessions, Check(s) \/ SendReply(s)
      PROVE  TypeOK'
  BY <1>1
  DEF TypeOK, Check, SendReply, JobStates, control, thread, table, objects,
      kernel
<1>2. ASSUME NEW s \in Sessions,
             Connect(s) \/ ClientSend(s) \/ ClientClose(s) \/ ClientAbort(s)
      PROVE  TypeOK'
  <2>1. \A n \in 0..MaxUnread : n < MaxUnread => n + 1 \in 0..MaxUnread
    BY SizesAssumption
  <2>2. 0 \in 0..MaxUnread
    BY SizesAssumption
  <2>3. CASE Connect(s)
    BY <2>3 DEF TypeOK, Connect, control, thread, table, objects
  <2>4. CASE ClientSend(s)
    BY <2>1, <2>4 DEF TypeOK, ClientSend, control, thread, table, objects
  <2>5. CASE ClientClose(s)
    BY <2>2, <2>5 DEF TypeOK, ClientClose, control, thread, table, objects
  <2>6. CASE ClientAbort(s)
    BY <2>2, <2>6 DEF TypeOK, ClientAbort, control, thread, table, objects
  <2> QED
    BY <1>2, <2>3, <2>4, <2>5, <2>6
<1>3. ASSUME NEW f \in Fds, OpenForeign(f) \/ CloseForeign(f)
      PROVE  TypeOK'
  BY <1>3
  DEF TypeOK, OpenForeign, CloseForeign, control, thread, table, objects
<1> QED
  BY <1>1, <1>2, <1>3 DEF WorkerStep, ClientStep, ForeignStep

\* Every step keeps the types.
LEMMA TypeStep == TypeOK /\ [Next]_vars => TypeOK'
<1> SUFFICES ASSUME TypeOK, [Next]_vars PROVE TypeOK'
  OBVIOUS
<1>1. CASE UNCHANGED vars
  BY <1>1 DEF TypeOK, vars, control, thread, table, objects, kernel
<1>2. CASE Next
  BY <1>2, TypeControl, TypeTeardown, TypeScan, TypeOthers
  DEF Next, ServerStep
<1> QED
  BY <1>1, <1>2

\* TypeOK always holds.
THEOREM TypeCorrect == Spec => []TypeOK
BY TypeInit, TypeStep, PTL DEF Spec

-----------------------------------------------------------------------------
(* The invariant behind the safety properties.  The two ends of a polled   *)
(* descriptor, the master set and the kernel's table, agree at every step  *)
(* of a round; the bits of the read set still to be scanned are current;   *)
(* and, in the first life of the server, a listed object's descriptor is   *)
(* the socket it was made for.                                             *)

Ours == Sessions \cup {ListenerSocket}

\* A socket has one descriptor, and only while it is accepted.
KernelInv ==
  /\ \A f \in Fds : fdOwner[f] \in Sessions => sock[fdOwner[f]] = "accepted"
  /\ \A f, g \in Fds :
       fdOwner[f] \in Sessions /\ fdOwner[f] = fdOwner[g] => f = g
  /\ \A f \in Fds : fdOwner[f] = ListenerSocket => f = listener
  /\ Serving => listener \in Fds /\ fdOwner[listener] = ListenerSocket

\* Everything the server has open is in the master set and within max_fd.
OpenIsPolled ==
  \A f \in Fds : fdOwner[f] \in Ours =>
    /\ f \in masterFds
    /\ f <= maxFd
    /\ Serving \/ pc = "shutdown"
    /\ pc = "shutdown" => scan <= f

\* Everything in the master set is open and the server's own, except for a
\* descriptor close_socket has closed and not yet cleared, and those the final
\* loop has passed.
PolledIsOpen ==
  \A f \in masterFds :
    /\ Serving => fdOwner[f] \in Ours \/ (pc = "hangup_delete" /\ f = scan)
    /\ pc = "shutdown" => f <= maxFd /\ (scan <= f => fdOwner[f] \in Ours)
    /\ Serving => f <= maxFd

\* The connection that is about to leave the list.
Unlisting == pc \in {"unlist", "hangup_unlist"}

\* The descriptor being dropped is still the connection's own.
DropInv ==
  /\ Unlisting \/ pc \in {"delete", "close", "hangup"} =>
       scan \in Fds /\ fdOwner[scan] \in Sessions
  /\ Unlisting => \A s \in dying : connFd[s] = scan
  /\ Unlisting /\ begins <= 1 =>
       \A s \in connections : connFd[s] = scan => s \in dying
  /\ pc = "hangup_delete" =>
       scan \in Fds /\ scan # listener /\ fdOwner[scan] \notin Ours
  /\ pc \in {"delete", "close", "hangup"} /\ begins <= 1 =>
       \A s \in connections : connFd[s] # scan

\* The bits ahead of the scan are of the listener, or of sessions that have
\* bytes or are at their end.
Ahead(j) == IF pc = "scan" THEN scan <= j ELSE scan < j

ReadyBitsCurrent ==
  Unlisting \/ pc \in {"scan", "delete", "close", "hangup", "hangup_delete"} =>
    \A j \in readFds : Ahead(j) =>
      \/ j = listener
      \/ \E s \in Sessions :
           fdOwner[j] = s /\ (unread[s] > 0 \/ peer[s] = "closed")

\* In the server's first life a listed object owns its descriptor.
ListedOwns ==
  begins <= 1 =>
    /\ pc = "bind" \/ begins = 0 => connections = {}
    /\ begins = 0 => pc = "off"
    /\ Serving => \A s \in connections :
                     connFd[s] \in Fds /\ fdOwner[connFd[s]] = s

SafeInv ==
  /\ NeverExits
  /\ KernelInv
  /\ OpenIsPolled
  /\ PolledIsOpen
  /\ DropInv
  /\ ReadyBitsCurrent
  /\ ListedOwns

IInv == TypeOK /\ SafeInv

\* The invariant holds at the start.
LEMMA SafeInit == Init => SafeInv
BY DEF Init, SafeInv, NeverExits, KernelInv, OpenIsPolled, PolledIsOpen, DropInv,
   ReadyBitsCurrent, ListedOwns, Ours, Sessions, Free, ListenerSocket, Serving,
   Unlisting

\* Steps that touch neither the descriptors, nor the scan, nor the list keep it.
LEMMA SafeFrame ==
  ASSUME SafeInv,
         UNCHANGED <<begins, pc, scan, listener, masterFds, readFds, maxFd,
                     dying, connections, connFd, kernel>>
  PROVE  SafeInv'
BY DEF SafeInv, NeverExits, KernelInv, OpenIsPolled, PolledIsOpen, DropInv,
   ReadyBitsCurrent, Ahead, ListedOwns, Ours, Serving, Unlisting, kernel

\* Calls of the control thread.
LEMMA SafeControl ==
  ASSUME IInv, ControlStep
  PROVE  SafeInv'
<1> USE DEF IInv
<1>1. CASE Begin
  <2>1. \A f \in Fds : fdOwner[f] \notin Ours
    BY <1>1 DEF Begin, SafeInv, OpenIsPolled, Serving
  <2>2. fdOwner' = fdOwner /\ sock' = sock /\ connections' = connections
    BY <1>1 DEF Begin, kernel
  <2>3. begins' <= 1 => begins = 0
    BY <1>1, SizesAssumption DEF Begin, TypeOK
  <2>4. ListedOwns'
    BY <1>1, <2>2, <2>3 DEF Begin, SafeInv, ListedOwns, Serving
  <2> QED
    BY <1>1, <2>1, <2>2, <2>4
    DEF Begin, SafeInv, NeverExits, KernelInv, OpenIsPolled, PolledIsOpen,
        DropInv, ReadyBitsCurrent, Ours, Serving, Unlisting
<1>2. CASE Stop
  BY <1>2, SafeFrame DEF Stop, thread, table, objects
<1>3. CASE Join
  BY <1>3
  DEF Join, table, objects, kernel, SafeInv, NeverExits, KernelInv,
      OpenIsPolled, PolledIsOpen, DropInv, ReadyBitsCurrent, ListedOwns, Ours,
      Serving, Unlisting
<1>4. CASE Elapse
  BY <1>4, SafeFrame DEF Elapse, control, thread, objects
<1> QED
  BY <1>1, <1>2, <1>3, <1>4 DEF ControlStep

\* Workers do not touch what the invariant is about; clients only add to what
\* a set bit may mean; other code takes free descriptors and returns its own.
LEMMA SafeOthers ==
  ASSUME IInv, WorkerStep \/ ClientStep \/ ForeignStep
  PROVE  SafeInv'
<1> USE DEF IInv
<1>1. ASSUME NEW s \in Sessions, Check(s) \/ SendReply(s)
      PROVE  SafeInv'
  BY <1>1, SafeFrame DEF Check, SendReply, control, thread, table, objects
<1>2. ASSUME NEW s \in Sessions,
             Connect(s) \/ ClientSend(s) \/ ClientClose(s) \/ ClientAbort(s)
      PROVE  SafeInv'
  <2>1. UNCHANGED <<begins, pc, scan, listener, masterFds, readFds, maxFd,
                    dying, connections, connFd, fdOwner>>
    BY <1>2
    DEF Connect, ClientSend, ClientClose, ClientAbort, control, thread, table,
        objects
  <2>2. \A t \in Sessions : sock[t] = "accepted" => sock'[t] = "accepted"
    BY <1>2 DEF TypeOK, Connect, ClientSend, ClientClose, ClientAbort
  <2>3. \A t \in Sessions :
          sock[t] = "accepted" /\ (unread[t] > 0 \/ peer[t] = "closed") =>
            unread'[t] > 0 \/ peer'[t] = "closed"
    BY <1>2, SizesAssumption
    DEF TypeOK, Connect, ClientSend, ClientClose, ClientAbort
  <2>4. KernelInv'
    BY <2>1, <2>2 DEF SafeInv, KernelInv, Serving
  <2>5. ReadyBitsCurrent'
    BY <2>1, <2>3 DEF TypeOK, SafeInv, ReadyBitsCurrent, Ahead, KernelInv, Unlisting
  <2> QED
    BY <2>1, <2>4, <2>5
    DEF SafeInv, NeverExits, OpenIsPolled, PolledIsOpen, DropInv, ListedOwns,
        Ours, Serving, Unlisting
<1>3. ASSUME NEW f \in Fds, OpenForeign(f) \/ CloseForeign(f)
      PROVE  SafeInv'
  <2>1. UNCHANGED <<begins, pc, scan, listener, masterFds, readFds, maxFd,
                    dying, connections, connFd, sock, peer, unread>>
    BY <1>3 DEF OpenForeign, CloseForeign, control, thread, table, objects
  <2>2. /\ fdOwner[f] \notin Ours /\ fdOwner'[f] \notin Ours
        /\ \A g \in Fds : g # f => fdOwner'[g] = fdOwner[g]
    BY <1>3
    DEF TypeOK, OpenForeign, CloseForeign, LowestFree, Ours, Sessions, Free,
        Foreign, ListenerSocket
  <2>3. \A g \in Fds : fdOwner[g] \in Ours \/ fdOwner'[g] \in Ours =>
                       fdOwner'[g] = fdOwner[g]
    BY <2>2
  <2>4. KernelInv'
    BY <2>1, <2>3 DEF SafeInv, KernelInv, Serving, Ours
  <2>5. OpenIsPolled' /\ PolledIsOpen' /\ DropInv'
    BY <2>1, <2>3
    DEF TypeOK, SafeInv, OpenIsPolled, PolledIsOpen, DropInv, Serving, Ours,
        Unlisting
  <2>6. ReadyBitsCurrent' /\ ListedOwns'
    BY <2>1, <2>3
    DEF TypeOK, SafeInv, ReadyBitsCurrent, Ahead, ListedOwns, Serving, Ours,
        Unlisting
  <2> QED
    BY <2>1, <2>4, <2>5, <2>6 DEF SafeInv, NeverExits
<1> QED
  BY <1>1, <1>2, <1>3 DEF WorkerStep, ClientStep, ForeignStep

\* Closing a session's descriptor frees it and disturbs no other session.
LEMMA CloseFrees ==
  ASSUME IInv, NEW f \in Fds, fdOwner[f] \in Sessions, CloseDescriptor(f)
  PROVE  /\ fdOwner'[f] \notin Ours
         /\ \A g \in Fds : g # f => fdOwner'[g] = fdOwner[g]
         /\ \A g \in Fds : g # f /\ fdOwner[g] \in Sessions =>
              /\ sock'[fdOwner[g]] = sock[fdOwner[g]]
              /\ unread'[fdOwner[g]] = unread[fdOwner[g]]
         /\ peer' = peer
<1>1. fdOwner[f] # ListenerSocket
  BY DEF Sessions, ListenerSocket
<1>2. fdOwner' = [fdOwner EXCEPT ![f] = Free] /\ peer' = peer
  BY DEF CloseDescriptor
<1>3. \A g \in Fds : g # f /\ fdOwner[g] \in Sessions => ~Ends(f, fdOwner[g])
  BY <1>1 DEF IInv, SafeInv, KernelInv, Ends
<1>4. \A s \in Sessions : ~Ends(f, s) =>
        sock'[s] = sock[s] /\ unread'[s] = unread[s]
  BY DEF CloseDescriptor
<1> QED
  BY <1>2, <1>3, <1>4
  DEF IInv, TypeOK, Ours, Sessions, Free, ListenerSocket

\* The kernel's table stays consistent when a session's descriptor is closed.
LEMMA CloseKeepsKernel ==
  ASSUME IInv, NEW f \in Fds, fdOwner[f] \in Sessions, CloseDescriptor(f),
         listener' = listener, Serving, Serving'
  PROVE  KernelInv'
<1>1. /\ fdOwner'[f] \notin Ours
      /\ \A g \in Fds : g # f => fdOwner'[g] = fdOwner[g]
      /\ \A g \in Fds : g # f /\ fdOwner[g] \in Sessions =>
           sock'[fdOwner[g]] = sock[fdOwner[g]]
  BY CloseFrees
<1>2. KernelInv /\ f # listener
  BY DEF IInv, SafeInv, KernelInv, Sessions, ListenerSocket
<1>3. \A g \in Fds : fdOwner'[g] \in Sessions =>
        g # f /\ fdOwner'[g] = fdOwner[g] /\ sock'[fdOwner'[g]] = "accepted"
  BY <1>1, <1>2 DEF KernelInv, Ours
<1>4. \A g, h \in Fds :
        fdOwner'[g] \in Sessions /\ fdOwner'[g] = fdOwner'[h] => g = h
  BY <1>2, <1>3 DEF KernelInv
<1>5. \A g \in Fds : fdOwner'[g] = ListenerSocket => g = listener
  BY <1>1, <1>2 DEF KernelInv, Ours
<1>6. listener \in Fds /\ fdOwner'[listener] = ListenerSocket
  BY <1>1, <1>2 DEF KernelInv
<1> QED
  BY <1>3, <1>4, <1>5, <1>6 DEF KernelInv

\* The start of the thread, and the head and the end of a round.
LEMMA SafeRound ==
  ASSUME IInv, Listen \/ Select \/ ScanEnd \/ LeaveLoop \/ ShutdownEnd
  PROVE  SafeInv'
<1> USE DEF IInv
<1>1. CASE Listen
  <2>1. PICK f \in Fds :
          /\ LowestFree(f)
          /\ fdOwner' = [fdOwner EXCEPT ![f] = ListenerSocket]
          /\ listener' = f /\ masterFds' = {f} /\ maxFd' = f
    BY <1>1 DEF Listen
  <2>2. f \in Nat
    BY FdsAssumption
  <2>3. pc = "bind" /\ pc' = "head"
    BY <1>1 DEF Listen
  <2>4. \A g \in Fds : fdOwner[g] \notin Ours
    BY <2>3 DEF SafeInv, OpenIsPolled, Serving
  <2>5. /\ fdOwner'[f] = ListenerSocket
        /\ \A g \in Fds : g # f => fdOwner'[g] = fdOwner[g]
    BY <2>1 DEF TypeOK
  <2>6. KernelInv'
    BY <2>1, <2>4, <2>5 DEF KernelInv, Ours, Sessions, ListenerSocket
  <2>7. OpenIsPolled' /\ PolledIsOpen' /\ DropInv' /\ ReadyBitsCurrent'
    BY <2>1, <2>2, <2>3, <2>4, <2>5
    DEF OpenIsPolled, PolledIsOpen, DropInv, ReadyBitsCurrent, Ours, Serving,
        Unlisting
  <2>8. ListedOwns'
    BY <1>1, <2>3 DEF Listen, control, table, SafeInv, ListedOwns
  <2> QED
    BY <2>3, <2>6, <2>7, <2>8 DEF SafeInv, NeverExits
<1>2. CASE Select
  <2>1. /\ pc = "head"
        /\ readFds' = ReadSet /\ scan' = 0
        /\ UNCHANGED <<begins, listener, masterFds, maxFd, connections, connFd,
                       fdOwner, sock, peer, unread>>
    BY <1>2 DEF Select, control, table, objects, kernel
  <2>2. pc' = "scan"
    BY <1>2, <2>1
    DEF Select, TypeOK, SafeInv, PolledIsOpen, Serving, Ours, Sessions, Free,
        ListenerSocket
  <2>3. KernelInv' /\ OpenIsPolled' /\ PolledIsOpen' /\ DropInv' /\ ListedOwns'
    BY <2>1, <2>2
    DEF SafeInv, KernelInv, OpenIsPolled, PolledIsOpen, DropInv, ListedOwns,
        Serving, Unlisting
  <2>4. ReadyBitsCurrent'
    BY <2>1, <2>2
    DEF TypeOK, SafeInv, KernelInv, ReadyBitsCurrent, ReadSet, Readable
  <2> QED
    BY <2>2, <2>3, <2>4 DEF SafeInv, NeverExits
<1>3. CASE ScanEnd
  BY <1>3
  DEF ScanEnd, control, table, objects, kernel, SafeInv, NeverExits, KernelInv,
      OpenIsPolled, PolledIsOpen, DropInv, ReadyBitsCurrent, ListedOwns, Serving,
      Unlisting
<1>4. CASE LeaveLoop
  <2>1. \A f \in Fds : 0 <= f
    BY FdsAssumption
  <2> QED
    BY <1>4, <2>1
    DEF LeaveLoop, control, table, objects, kernel, TypeOK, SafeInv, NeverExits,
        KernelInv, OpenIsPolled, PolledIsOpen, DropInv, ReadyBitsCurrent,
        ListedOwns, Serving, Unlisting
<1>5. CASE ShutdownEnd
  <2>1. \A f \in Fds : fdOwner[f] \notin Ours
    BY <1>5, FdsAssumption DEF ShutdownEnd, TypeOK, SafeInv, OpenIsPolled
  <2> QED
    BY <1>5, <2>1
    DEF ShutdownEnd, control, table, objects, kernel, TypeOK, SafeInv,
        NeverExits, KernelInv, OpenIsPolled, PolledIsOpen, DropInv,
        ReadyBitsCurrent, ListedOwns, Serving, Unlisting
<1> QED
  BY <1>1, <1>2, <1>3, <1>4, <1>5

\* The steps that finish dropping a connection.
LEMMA SafeDrop ==
  ASSUME IInv, \/ HangupUnlist \/ HangupClose \/ HangupDelete
                      \/ DropUnlist \/ DropDelete \/ DropClose
  PROVE  SafeInv'
<1> USE DEF IInv
<1>1. CASE HangupClose
  <2>1. scan \in Fds /\ fdOwner[scan] \in Sessions
    BY <1>1 DEF HangupClose, SafeInv, DropInv
  <2>2. /\ pc = "hangup" /\ pc' = "hangup_delete" /\ CloseDescriptor(scan)
        /\ UNCHANGED <<begins, scan, listener, masterFds, readFds, maxFd,
                       connections, connFd>>
    BY <1>1 DEF HangupClose, control, table, objects
  <2>3. /\ fdOwner'[scan] \notin Ours
        /\ \A g \in Fds : g # scan => fdOwner'[g] = fdOwner[g]
        /\ \A g \in Fds : g # scan /\ fdOwner[g] \in Sessions =>
             /\ sock'[fdOwner[g]] = sock[fdOwner[g]]
             /\ unread'[fdOwner[g]] = unread[fdOwner[g]]
        /\ peer' = peer
    BY <2>1, <2>2, CloseFrees
  <2>4. scan # listener
    BY <2>1, <2>2
    DEF SafeInv, KernelInv, Serving, Sessions, ListenerSocket
  <2>5. KernelInv'
    BY <2>1, <2>2, CloseKeepsKernel DEF Serving
  <2>6. OpenIsPolled' /\ PolledIsOpen' /\ DropInv'
    BY <2>1, <2>2, <2>3, <2>4
    DEF TypeOK, SafeInv, OpenIsPolled, PolledIsOpen, DropInv, Serving,
        Unlisting
  <2>7. ReadyBitsCurrent'
    BY <2>1, <2>2, <2>3, FdsAssumption
    DEF TypeOK, SafeInv, ReadyBitsCurrent, Ahead, Unlisting
  <2>8. ListedOwns'
    BY <2>1, <2>2, <2>3 DEF SafeInv, DropInv, ListedOwns, Serving
  <2> QED
    BY <2>2, <2>5, <2>6, <2>7, <2>8 DEF SafeInv, NeverExits
<1>2. CASE HangupDelete
  BY <1>2, FdsAssumption
  DEF HangupDelete, DeleteDying, StopPolling, control, table, kernel, TypeOK,
      SafeInv, NeverExits, KernelInv, OpenIsPolled, PolledIsOpen, DropInv,
      ReadyBitsCurrent, Ahead, ListedOwns, Serving, Unlisting
<1>3. CASE DropDelete
  BY <1>3
  DEF DropDelete, DeleteDying, control, table, kernel, SafeInv, NeverExits,
      KernelInv, OpenIsPolled, PolledIsOpen, DropInv, ReadyBitsCurrent, Ahead,
      ListedOwns, Serving, Unlisting
<1>4. CASE DropClose
  <2>1. scan \in Fds /\ fdOwner[scan] \in Sessions
    BY <1>4 DEF DropClose, SafeInv, DropInv
  <2>2. /\ pc = "close" /\ pc' = "scan" /\ CloseDescriptor(scan)
        /\ masterFds' = masterFds \ {scan} /\ scan' = scan + 1
        /\ UNCHANGED <<begins, listener, readFds, maxFd, connections, connFd>>
    BY <1>4 DEF DropClose, StopPolling, control, table, objects
  <2>3. /\ fdOwner'[scan] \notin Ours
        /\ \A g \in Fds : g # scan => fdOwner'[g] = fdOwner[g]
        /\ \A g \in Fds : g # scan /\ fdOwner[g] \in Sessions =>
             /\ sock'[fdOwner[g]] = sock[fdOwner[g]]
             /\ unread'[fdOwner[g]] = unread[fdOwner[g]]
        /\ peer' = peer
    BY <2>1, <2>2, CloseFrees
  <2>4. scan # listener
    BY <2>1, <2>2
    DEF SafeInv, KernelInv, Serving, Sessions, ListenerSocket
  <2>5. KernelInv'
    BY <2>1, <2>2, CloseKeepsKernel DEF Serving
  <2>6. OpenIsPolled' /\ PolledIsOpen' /\ DropInv'
    BY <2>1, <2>2, <2>3, <2>4
    DEF TypeOK, SafeInv, OpenIsPolled, PolledIsOpen, DropInv, Serving,
        Unlisting
  <2>7. ReadyBitsCurrent'
    BY <2>1, <2>2, <2>3, FdsAssumption
    DEF TypeOK, SafeInv, ReadyBitsCurrent, Ahead, Unlisting
  <2>8. ListedOwns'
    BY <2>1, <2>2, <2>3 DEF SafeInv, DropInv, ListedOwns, Serving
  <2> QED
    BY <2>2, <2>5, <2>6, <2>7, <2>8 DEF SafeInv, NeverExits
<1>5. CASE HangupUnlist \/ DropUnlist
  <2>1. /\ Unlisting /\ pc' \in {"hangup", "delete"}
        /\ connections' = connections \ dying
        /\ UNCHANGED <<begins, scan, listener, masterFds, readFds, maxFd, dying,
                       connFd, fdOwner, sock, peer, unread>>
    BY <1>5
    DEF HangupUnlist, DropUnlist, Unlist, Unlisting, control, objects, kernel
  <2>2. DropInv'
    BY <2>1 DEF SafeInv, DropInv, Unlisting
  <2>3. KernelInv' /\ OpenIsPolled' /\ PolledIsOpen' /\ ListedOwns'
    BY <2>1
    DEF SafeInv, KernelInv, OpenIsPolled, PolledIsOpen, ListedOwns, Serving,
        Unlisting
  <2>4. ReadyBitsCurrent'
    BY <2>1 DEF SafeInv, ReadyBitsCurrent, Ahead, Unlisting
  <2> QED
    BY <2>1, <2>2, <2>3, <2>4 DEF SafeInv, NeverExits
<1> QED
  BY <1>1, <1>2, <1>3, <1>4, <1>5

\* accept(), in both outcomes.
LEMMA SafeAccept ==
  ASSUME IInv, NEW j \in Fds, Accept(j) \/ AcceptFails(j)
  PROVE  SafeInv'
<1> USE DEF IInv
<1>0. j \in Nat
  BY FdsAssumption
<1>1. CASE Accept(j)
  <2>1. PICK s \in Sessions, f \in Fds :
          /\ OldestQueued(s) /\ LowestFree(f)
          /\ fdOwner' = [fdOwner EXCEPT ![f] = s]
          /\ sock' = [sock EXCEPT ![s] = "accepted"]
          /\ masterFds' = masterFds \cup {f}
          /\ maxFd' = NewMaxFd(f)
          /\ connFd' = [connFd EXCEPT ![s] = f]
          /\ connections' = connections \cup {s}
    BY <1>1 DEF Accept
  <2>2. /\ pc = "scan" /\ pc' = "scan" /\ scan <= j /\ scan' = j + 1
        /\ UNCHANGED <<begins, listener, readFds, peer, unread>>
    BY <1>1 DEF Accept, NextReady, control
  <2>3. f \in Nat /\ f <= maxFd' /\ maxFd <= maxFd' /\ maxFd' \in Nat
    BY <2>1, FdsAssumption DEF NewMaxFd, TypeOK
  <2>4. /\ fdOwner[f] \notin Ours /\ fdOwner'[f] = s
        /\ \A g \in Fds : g # f => fdOwner'[g] = fdOwner[g]
    BY <2>1
    DEF TypeOK, LowestFree, Ours, Sessions, Free, ListenerSocket
  <2>5. \A g \in Fds : fdOwner[g] # s
    BY <2>1 DEF SafeInv, KernelInv, OldestQueued
  <2>6. /\ \A t \in Sessions : sock[t] = "accepted" => sock'[t] = "accepted"
        /\ sock'[s] = "accepted"
    BY <2>1 DEF TypeOK
  <2>7. s # ListenerSocket
    BY DEF Sessions, ListenerSocket
  <2>8. KernelInv'
    BY <2>1, <2>2, <2>4, <2>5, <2>6, <2>7
    DEF SafeInv, KernelInv, Serving, Ours
  <2>9. OpenIsPolled' /\ PolledIsOpen'
    BY <2>1, <2>2, <2>3, <2>4, FdsAssumption
    DEF TypeOK, SafeInv, OpenIsPolled, PolledIsOpen, Serving, Ours
  <2>10. DropInv'
    BY <2>2 DEF DropInv, Unlisting
  <2>11. ReadyBitsCurrent'
    BY <1>0, <2>2, <2>4, FdsAssumption
    DEF TypeOK, SafeInv, ReadyBitsCurrent, Ahead, Ours, Unlisting
  <2>12. begins = 0 => FALSE
    BY <2>2 DEF SafeInv, ListedOwns, TypeOK
  <2>13. ListedOwns'
    BY <2>1, <2>2, <2>4, <2>12
    DEF TypeOK, SafeInv, ListedOwns, Serving, Ours
  <2> QED
    BY <2>2, <2>8, <2>9, <2>10, <2>11, <2>13 DEF SafeInv, NeverExits
<1>2. CASE AcceptFails(j)
  BY <1>0, <1>2, FdsAssumption
  DEF AcceptFails, NextReady, control, table, objects, kernel, TypeOK, SafeInv,
      NeverExits, KernelInv, OpenIsPolled, PolledIsOpen, DropInv,
      ReadyBitsCurrent, Ahead, ListedOwns, Serving, Unlisting
<1> QED
  BY <1>1, <1>2

\* A set bit is true: recv() on a descriptor of the scan finds bytes, or a
\* client that is gone.
LEMMA BitIsTrue ==
  ASSUME IInv, NEW j \in Fds, NextReady(j), j # listener
  PROVE  \E s \in Sessions :
           fdOwner[j] = s /\ (unread[s] > 0 \/ peer[s] = "closed")
BY DEF IInv, SafeInv, NextReady, ReadyBitsCurrent, Ahead

\* Reading from one socket leaves the bits of the others true.
LEMMA ReceiveKeepsBits ==
  ASSUME IInv, NEW j \in Fds, Receive(j)
  PROVE  \A k \in readFds : j < k =>
           \/ k = listener
           \/ \E s \in Sessions :
                fdOwner'[k] = s /\ (unread'[s] > 0 \/ peer'[s] = "closed")
<1> SUFFICES ASSUME NEW k \in readFds, j < k, k # listener
             PROVE  \E s \in Sessions :
                fdOwner'[k] = s /\ (unread'[s] > 0 \/ peer'[s] = "closed")
  OBVIOUS
<1>1. /\ pc = "scan" /\ scan <= j /\ fdOwner' = fdOwner /\ peer' = peer
      /\ fdOwner[j] \in Sessions
    BY DEF Receive, NextReady, HasBytes
<1>2. k \in Fds /\ k # j /\ scan <= k
  BY <1>1, FdsAssumption DEF IInv, TypeOK
<1>3. PICK s \in Sessions :
        fdOwner[k] = s /\ (unread[s] > 0 \/ peer[s] = "closed")
  BY <1>1, <1>2 DEF IInv, SafeInv, ReadyBitsCurrent, Ahead
<1>4. fdOwner[j] # s
  BY <1>1, <1>2, <1>3 DEF IInv, SafeInv, KernelInv
<1>5. unread'[s] = unread[s]
  BY <1>4 DEF Receive
<1> QED
  BY <1>1, <1>3, <1>5

\* What is to leave the list is all of it that has the descriptor.
LEMMA DyingHaveIt ==
  ASSUME IInv, NEW j \in Fds, EraseId(j), Serving, UNCHANGED <<connFd, begins>>
  PROVE  /\ \A s \in dying' : connFd'[s] = j
         /\ begins' <= 1 =>
              \A s \in connections' : connFd'[s] = j => s \in dying'
<1>1. dying' = FindConnection(j) /\ connections' = connections
  BY DEF EraseId
<1>2. begins <= 1 =>
        \A s, t \in connections : connFd[s] = j /\ connFd[t] = j => s = t
  BY DEF IInv, SafeInv, ListedOwns
<1>3. begins <= 1 =>
        \A s \in connections : connFd[s] = j => s \in FindConnection(j)
  BY <1>2 DEF FindConnection, IInv, TypeOK, Sessions
<1> QED
  BY <1>1, <1>3 DEF FindConnection

\* recv() returned bytes and the connection goes on.
LEMMA SafeRecv ==
  ASSUME IInv, NEW j \in Fds,
         RecvBytes(j) \/ \E deferred \in BOOLEAN : RecvRequest(j, deferred)
  PROVE  SafeInv'
<1> USE DEF IInv
<1>1. /\ Receive(j) /\ scan' = j + 1
      /\ UNCHANGED <<begins, pc, listener, masterFds, readFds, maxFd,
                     connections, connFd>>
  BY DEF RecvBytes, RecvRequest, control, table, objects
<1>2. /\ pc = "scan" /\ fdOwner' = fdOwner /\ sock' = sock
  BY <1>1 DEF Receive, NextReady
<1>3. j \in Nat
  BY FdsAssumption
<1>4. \A k \in readFds : scan' <= k => j < k
  BY <1>1, <1>3, FdsAssumption DEF TypeOK
<1>5. \A k \in readFds : j < k =>
        \/ k = listener
        \/ \E s \in Sessions :
             fdOwner'[k] = s /\ (unread'[s] > 0 \/ peer'[s] = "closed")
  BY <1>1, ReceiveKeepsBits
<1>6. ReadyBitsCurrent'
  BY <1>1, <1>2, <1>4, <1>5 DEF ReadyBitsCurrent, Ahead, Unlisting
<1> QED
  BY <1>1, <1>2, <1>6
  DEF SafeInv, NeverExits, KernelInv, OpenIsPolled, PolledIsOpen, DropInv,
      ListedOwns, Ours, Serving, Unlisting

\* The steps that begin to drop a connection: recv() returned nothing, or the
\* terminal said "bye".
LEMMA SafeErase ==
  ASSUME IInv, NEW j \in Fds, RecvBye(j) \/ RecvNothing(j)
  PROVE  SafeInv'
<1> USE DEF IInv
<1>1. /\ NextReady(j) /\ j # listener /\ EraseId(j)
      /\ scan' = j /\ pc' \in {"hangup_unlist", "unlist"}
      /\ connections' = connections
      /\ UNCHANGED <<begins, listener, masterFds, readFds, maxFd, connFd,
                     fdOwner, sock, peer>>
  BY DEF RecvBye, RecvNothing, Receive, EraseId, control, objects, kernel
<1>2. pc = "scan" /\ scan <= j
  BY <1>1 DEF NextReady
<1>3. fdOwner[j] \in Sessions
  BY <1>1, BitIsTrue
<1>4. \A k \in readFds : j < k =>
        \/ k = listener
        \/ \E s \in Sessions :
             fdOwner'[k] = s /\ (unread'[s] > 0 \/ peer'[s] = "closed")
  <2>1. CASE RecvBye(j)
    BY <2>1, ReceiveKeepsBits DEF RecvBye
  <2>2. CASE RecvNothing(j)
    BY <1>1, <1>2, <2>2, FdsAssumption
    DEF RecvNothing, kernel, TypeOK, SafeInv, ReadyBitsCurrent, Ahead, Unlisting
  <2> QED
    BY <2>1, <2>2
<1>5. KernelInv' /\ OpenIsPolled' /\ PolledIsOpen'
  BY <1>1, <1>2 DEF SafeInv, KernelInv, OpenIsPolled, PolledIsOpen, Ours, Serving
<1>6. /\ \A s \in dying' : connFd'[s] = j
      /\ begins' <= 1 => \A s \in connections' : connFd'[s] = j => s \in dying'
  BY <1>1, <1>2, DyingHaveIt DEF Serving
<1>7. DropInv'
  BY <1>1, <1>3, <1>6 DEF DropInv, Unlisting
<1>8. ReadyBitsCurrent'
  BY <1>1, <1>4 DEF ReadyBitsCurrent, Ahead
<1>9. ListedOwns'
  BY <1>1, <1>2 DEF TypeOK, SafeInv, ListedOwns, Serving
<1> QED
  BY <1>1, <1>5, <1>7, <1>8, <1>9 DEF SafeInv, NeverExits

\* The final loop.
LEMMA SafeShutdown ==
  ASSUME IInv, NEW f \in Fds, ShutdownClose(f)
  PROVE  SafeInv'
<1> USE DEF IInv
<1>1. /\ pc = "shutdown" /\ pc' = "shutdown"
      /\ f \in masterFds /\ scan <= f
      /\ \A g \in masterFds : scan <= g => f <= g
      /\ CloseDescriptor(f) /\ scan' = f + 1
      /\ UNCHANGED <<begins, listener, masterFds, maxFd, connections>>
  BY DEF ShutdownClose, control, table
<1>2. fdOwner' = [fdOwner EXCEPT ![f] = Free]
  BY <1>1 DEF CloseDescriptor
<1>3. /\ fdOwner'[f] = Free /\ fdOwner'[f] \notin Ours
      /\ \A g \in Fds : g # f => fdOwner'[g] = fdOwner[g]
  BY <1>2 DEF TypeOK, Ours, Sessions, Free, ListenerSocket
<1>4. \A g \in Fds : g # f /\ fdOwner[g] \in Sessions =>
        sock'[fdOwner[g]] = "accepted"
  <2> SUFFICES ASSUME NEW g \in Fds, g # f, fdOwner[g] \in Sessions
               PROVE  sock'[fdOwner[g]] = "accepted"
    OBVIOUS
  <2>1. sock[fdOwner[g]] = "accepted" /\ ~Ends(f, fdOwner[g])
    BY DEF SafeInv, KernelInv, Ends
  <2> QED
    BY <1>1, <2>1 DEF CloseDescriptor
<1>5. KernelInv'
  BY <1>1, <1>3, <1>4 DEF SafeInv, KernelInv, Serving, Ours
<1>6. \A g \in Fds : fdOwner'[g] \in Ours =>
        g # f /\ fdOwner'[g] = fdOwner[g] /\ g \in masterFds /\ scan <= g
  BY <1>1, <1>3 DEF SafeInv, OpenIsPolled
<1>7. OpenIsPolled'
  BY <1>1, <1>6, FdsAssumption DEF SafeInv, OpenIsPolled
<1>8. PolledIsOpen'
  BY <1>1, <1>3, FdsAssumption DEF TypeOK, SafeInv, PolledIsOpen, Serving
<1> QED
  BY <1>1, <1>5, <1>7, <1>8
  DEF SafeInv, NeverExits, DropInv, ReadyBitsCurrent, ListedOwns, Serving, Unlisting

\* The invariant is inductive.
LEMMA SafeStep == IInv /\ [Next]_vars => SafeInv'
<1> SUFFICES ASSUME IInv, [Next]_vars PROVE SafeInv'
  OBVIOUS
<1>1. CASE UNCHANGED vars
  BY <1>1, SafeFrame DEF IInv, vars, control, thread, table, objects
<1>2. CASE Next
  BY <1>2, SafeControl, SafeOthers, SafeRound, SafeDrop, SafeAccept, SafeRecv,
     SafeErase, SafeShutdown
  DEF Next, ServerStep
<1> QED
  BY <1>1, <1>2

\* The invariant always holds.
THEOREM InvCorrect == Spec => []IInv
<1>1. Init => IInv
  BY TypeInit, SafeInit DEF IInv
<1>2. IInv /\ [Next]_vars => IInv'
  BY TypeStep, SafeStep DEF IInv
<1> QED
  BY <1>1, <1>2, PTL DEF Spec

-----------------------------------------------------------------------------
(* The properties that follow.                                             *)

\* select() never fails on a closed descriptor: run() does not exit the
\* process, over any number of begin() and stop() calls.
THEOREM NeverExitsCorrect == Spec => []NeverExits
<1>1. IInv => NeverExits
  BY DEF IInv, SafeInv
<1> QED
  BY <1>1, InvCorrect, PTL

\* When the thread has ended the server has no descriptor open.
THEOREM DescriptorsClosedCorrect == Spec => []AllDescriptorsClosed
<1>1. IInv => AllDescriptorsClosed
  BY DEF IInv, TypeOK, SafeInv, OpenIsPolled, AllDescriptorsClosed, Serving,
     Ours
<1> QED
  BY <1>1, InvCorrect, PTL

\* In the first life of a server every listed connection is polled, scanned,
\* and found by the descriptor of its own socket.
THEOREM ListedIsPolledCorrect == Spec => []ListedIsPolled
<1>1. IInv => ListedIsPolled
  BY DEF IInv, TypeOK, SafeInv, OpenIsPolled, ListedOwns, ListedIsPolled, Ours
<1> QED
  BY <1>1, InvCorrect, PTL

\* The server thread never closes a descriptor of another part of the process.
THEOREM ForeignUntouchedCorrect == Spec => ForeignUntouched
<1>1. IInv /\ [Next]_vars =>
        [ServerStep =>
           \A f \in Fds : fdOwner[f] = Foreign => fdOwner'[f] = Foreign]_vars
  <2> SUFFICES ASSUME IInv, ServerStep, NEW f \in Fds, fdOwner[f] = Foreign
               PROVE  fdOwner'[f] = Foreign
    OBVIOUS
  <2>1. f # scan \/ pc \notin {"hangup", "close"}
    BY DEF IInv, SafeInv, DropInv, Sessions, Foreign
  <2>2. \A j \in Fds : ShutdownClose(j) => j # f
    BY DEF IInv, SafeInv, PolledIsOpen, ShutdownClose, Ours, Sessions, Foreign,
       ListenerSocket
  <2>3. \A g : CloseDescriptor(g) /\ g # f => fdOwner'[f] = Foreign
    BY DEF CloseDescriptor, IInv, TypeOK
  <2>4. CASE HangupClose \/ DropClose \/ \E j \in Fds : ShutdownClose(j)
    BY <2>1, <2>2, <2>3, <2>4 DEF HangupClose, DropClose, ShutdownClose
  <2>5. CASE Listen
    BY <2>5 DEF Listen, LowestFree, IInv, TypeOK, Free, Foreign
  <2>6. CASE \E j \in Fds : Accept(j)
    BY <2>6 DEF Accept, LowestFree, IInv, TypeOK, Free, Foreign
  <2> QED
    BY <2>4, <2>5, <2>6
    DEF ServerStep, Select, ScanEnd, AcceptFails, RecvBytes, RecvRequest,
        RecvBye, RecvNothing, Receive, HangupUnlist, HangupDelete, DropUnlist,
        DropDelete, LeaveLoop, ShutdownEnd, kernel
<1> QED
  BY <1>1, InvCorrect, PTL DEF Spec, ForeignUntouched

-----------------------------------------------------------------------------
(* Ids: the id set holds ids of connections the server keeps and, unless   *)
(* two objects were given the same, all of them; so the test a completion  *)
(* makes of its id is a test of its connection.                            *)

Made == {s \in Sessions : obj[s] # "none"}

\* An object is made for a session that left the queue; what is listed is alive
\* and, but for the one that is about to leave the list, nobody is about to delete
\* it; a request belongs to an object.
ObjectInv ==
  /\ \A s \in Made : sock[s] \in {"accepted", "closed"}
  /\ \A s \in connections : obj[s] = "live"
  /\ ~Unlisting => \A s \in connections : s \notin dying
  /\ dying \subseteq Made
  /\ \A s \in Sessions : job[s] # "none" => s \in Made

\* The counter counts, so that each object got an id of its own.
IdsDiffer ==
  accepted <= IdMod =>
    /\ entryCnt = IF accepted = IdMod THEN 0 ELSE accepted
    /\ \A s \in Made : connId[s] < accepted
    /\ \A s, t \in Made : connId[s] = connId[t] => s = t

IdInv == ObjectInv /\ IdsDiffer /\ ActiveMirrorsList

\* No session has an object at the start.
LEMMA IdInit == Init => IdInv
BY SizesAssumption
DEF Init, IdInv, ObjectInv, IdsDiffer, ActiveMirrorsList, Kept, Made

\* The two sets are judged by what is kept, what was made and the ids given.
LEMMA MirrorFrame ==
  ASSUME ActiveMirrorsList, Kept' = Kept, active' = active, connId' = connId,
         \A t \in Sessions : obj'[t] = "none" => obj[t] = "none"
  PROVE  ActiveMirrorsList'
<1>1. \A s \in Kept' : Alone(s)' => Alone(s)
  BY DEF Alone
<1> QED
  BY <1>1 DEF ActiveMirrorsList

\* Steps that touch neither objects, nor ids, nor the list keep it, also when
\* sockets close.
LEMMA IdFrame ==
  ASSUME TypeOK, IdInv,
         UNCHANGED <<connections, active, entryCnt, accepted, dying, objects>>,
         Unlisting => Unlisting',
         \A s \in Sessions : job'[s] # "none" => job[s] # "none" \/ s \in connections,
         \A s \in Sessions :
           sock[s] \in {"accepted", "closed"} => sock'[s] \in {"accepted", "closed"}
  PROVE  IdInv'
<1>1. Made' = Made
  BY DEF Made, objects
<1>2. connections \subseteq Made
  BY DEF TypeOK, IdInv, ObjectInv, Made
<1>3. ObjectInv'
  BY <1>1, <1>2 DEF IdInv, ObjectInv, objects, Made
<1>4. ActiveMirrorsList'
  BY MirrorFrame DEF IdInv, objects, Kept
<1> QED
  BY <1>1, <1>3, <1>4 DEF IdInv, IdsDiffer, objects

\* Closing a descriptor closes sockets, and opens none.
LEMMA CloseKeepsLeft ==
  ASSUME NEW f, CloseDescriptor(f)
  PROVE  \A s \in Sessions :
           sock[s] \in {"accepted", "closed"} => sock'[s] \in {"accepted", "closed"}
BY DEF CloseDescriptor

\* An accept makes an object of a session that had none, and gives it an id
\* that no other has.
LEMMA IdAccept ==
  ASSUME TypeOK, IdInv, NEW j \in Fds, Accept(j)
  PROVE  IdInv'
<1>1. PICK s \in Sessions, f \in Fds :
        /\ OldestQueued(s) /\ LowestFree(f)
        /\ sock' = [sock EXCEPT ![s] = "accepted"]
        /\ obj' = [obj EXCEPT ![s] = "live"]
        /\ connId' = [connId EXCEPT ![s] = entryCnt]
        /\ connections' = connections \cup {s}
  BY DEF Accept
<1>2. /\ active' = active \cup {entryCnt}
      /\ entryCnt' = NextEntry
      /\ accepted' = accepted + 1
      /\ dying' = dying /\ job' = job /\ pc' = pc
  BY DEF Accept
<1>3. s \notin Made
  BY <1>1 DEF OldestQueued, IdInv, ObjectInv
<1>4. Made' = Made \cup {s}
  BY <1>1 DEF TypeOK, Made
<1>5. connections \subseteq Made /\ dying \subseteq Made
  BY DEF TypeOK, IdInv, ObjectInv, Made
<1>6. \A t \in Made : connId'[t] = connId[t] /\ obj'[t] = obj[t] /\ sock'[t] = sock[t]
  BY <1>1, <1>3 DEF TypeOK, Made
<1>7. connId'[s] = entryCnt /\ obj'[s] = "live" /\ sock'[s] = "accepted"
  BY <1>1 DEF TypeOK
<1>8. ObjectInv'
  BY <1>1, <1>2, <1>3, <1>4, <1>5, <1>6, <1>7 DEF IdInv, ObjectInv, Unlisting
<1>9. ASSUME accepted' <= IdMod
      PROVE  accepted <= IdMod /\ accepted < IdMod /\ entryCnt = accepted
  BY <1>2, <1>9, SizesAssumption DEF TypeOK, IdInv, IdsDiffer
<1>10. IdsDiffer'
  <2> SUFFICES ASSUME accepted' <= IdMod
               PROVE  /\ entryCnt' = IF accepted' = IdMod THEN 0 ELSE accepted'
                      /\ \A t \in Made' : connId'[t] < accepted'
                      /\ \A t, u \in Made' : connId'[t] = connId'[u] => t = u
    BY DEF IdsDiffer
  <2>1. \A t \in Made : connId[t] \in Nat /\ connId[t] < accepted
    BY <1>9, SizesAssumption DEF TypeOK, IdInv, IdsDiffer, Ids, Made
  <2>2. entryCnt' = IF accepted' = IdMod THEN 0 ELSE accepted'
    BY <1>2, <1>9, SizesAssumption DEF TypeOK, NextEntry
  <2>3. \A t \in Made' : connId'[t] < accepted'
    BY <1>2, <1>4, <1>6, <1>7, <1>9, <2>1 DEF TypeOK
  <2>4. \A t, u \in Made' : connId'[t] = connId'[u] => t = u
    <3>1. \A t \in Made : connId'[t] # connId'[s]
      BY <1>6, <1>7, <1>9, <2>1 DEF TypeOK
    <3> QED
      BY <1>4, <1>6, <1>9, <3>1 DEF IdInv, IdsDiffer
  <2> QED
    BY <2>2, <2>3, <2>4
<1>11. ActiveMirrorsList'
  <2>1. Kept' = Kept \cup {s}
    BY <1>1, <1>2, <1>3, <1>5 DEF Kept
  <2>2. Kept \subseteq Made /\ Made \subseteq Sessions
    BY <1>5 DEF Kept, Made
  <2>3. active' \subseteq {connId'[t] : t \in Kept'}
    <3> SUFFICES ASSUME NEW id \in active' PROVE \E t \in Kept' : id = connId'[t]
      OBVIOUS
    <3>1. CASE id = entryCnt
      BY <1>7, <2>1, <3>1
    <3>2. CASE id \in active
      BY <1>6, <2>1, <2>2, <3>2 DEF IdInv, ActiveMirrorsList
    <3> QED
      BY <1>2, <3>1, <3>2
  <2>4. ASSUME NEW t \in Kept, Alone(t)'
        PROVE  connId'[t] \in active'
    <3>1. \A u \in Sessions : obj[u] # "none" => connId'[u] = connId[u] /\ obj'[u] # "none"
      BY <1>6 DEF Made
    <3>2. t \in Sessions /\ connId'[t] = connId[t]
      BY <1>6, <2>2
    <3>3. Alone(t)
      BY <2>4, <3>1, <3>2 DEF Alone
    <3> QED
      BY <1>2, <3>2, <3>3 DEF IdInv, ActiveMirrorsList
  <2> QED
    BY <1>2, <1>7, <2>1, <2>3, <2>4 DEF ActiveMirrorsList
<1> QED
  BY <1>8, <1>10, <1>11 DEF IdInv

\* To begin to drop a connection erases its own id and no other's.
LEMMA IdErase ==
  ASSUME TypeOK, IdInv, NEW j, EraseId(j), ~Unlisting, Unlisting',
         UNCHANGED <<objects, job, sock>>
  PROVE  IdInv'
<1>1. Made' = Made
  BY DEF Made, objects
<1>2. connections \subseteq Made /\ FindConnection(j) \subseteq connections
  BY DEF TypeOK, IdInv, ObjectInv, Made, FindConnection
<1>3. /\ active' = active \ {connId[s] : s \in FindConnection(j)}
      /\ dying' = FindConnection(j)
      /\ UNCHANGED <<connections, entryCnt, accepted>>
  BY DEF EraseId
<1>4. ObjectInv'
  BY <1>1, <1>2, <1>3 DEF IdInv, ObjectInv, objects
<1>5. IdsDiffer'
  BY <1>1, <1>3 DEF IdInv, IdsDiffer, objects
<1>6. ActiveMirrorsList'
  <2>1. Kept = connections /\ Kept' = connections \ FindConnection(j)
    BY <1>3 DEF Kept, IdInv, ObjectInv
  <2>2. connId' = connId /\ obj' = obj
    BY DEF objects
  <2>3. active' \subseteq {connId'[s] : s \in Kept'}
    BY <1>3, <2>1, <2>2 DEF IdInv, ActiveMirrorsList
  <2>4. ASSUME NEW s \in Kept', Alone(s)'
        PROVE  connId'[s] \in active'
    <3>1. Alone(s) /\ s \in Kept
      BY <2>1, <2>2, <2>4 DEF Alone
    <3>2. \A t \in FindConnection(j) : connId[t] # connId[s]
      BY <1>2, <2>1, <2>4, <3>1 DEF Alone, Made
    <3> QED
      BY <1>3, <2>2, <3>1, <3>2 DEF IdInv, ActiveMirrorsList
  <2> QED
    BY <2>3, <2>4 DEF ActiveMirrorsList
<1> QED
  BY <1>4, <1>5, <1>6 DEF IdInv

\* The connection that leaves the list was given up before.
LEMMA IdUnlist ==
  ASSUME TypeOK, IdInv, Unlist, UNCHANGED <<dying, objects, job, sock>>
  PROVE  IdInv'
<1>1. Made' = Made /\ connId' = connId /\ obj' = obj
  BY DEF Made, objects
<1>2. Kept' = Kept /\ connections' = connections \ dying
      /\ UNCHANGED <<active, entryCnt, accepted>>
  BY DEF Unlist, Kept
<1>3. ObjectInv'
  BY <1>1, <1>2 DEF IdInv, ObjectInv
<1>4. ActiveMirrorsList'
  BY <1>1, <1>2, MirrorFrame DEF IdInv
<1> QED
  BY <1>1, <1>2, <1>3, <1>4 DEF IdInv, IdsDiffer

\* The object that is deleted is listed no more.
LEMMA IdDelete ==
  ASSUME TypeOK, IdInv, DeleteDying, ~Unlisting,
         UNCHANGED <<connections, active, entryCnt, accepted, job, sock>>
  PROVE  IdInv'
<1>1. /\ \A s \in Sessions : s \notin dying => obj'[s] = obj[s]
      /\ \A s \in dying : obj'[s] = "deleted"
      /\ dying' = {} /\ connId' = connId
  BY DEF DeleteDying, TypeOK
<1>2. Made' = Made
  BY <1>1 DEF Made, IdInv, ObjectInv
<1>3. ObjectInv'
  BY <1>1, <1>2 DEF IdInv, ObjectInv, TypeOK
<1>4. ActiveMirrorsList'
  <2>1. Kept' = Kept
    BY <1>1 DEF Kept, IdInv, ObjectInv
  <2>2. \A t \in Sessions : obj'[t] = "none" => obj[t] = "none"
    BY <1>1
  <2> QED
    BY <1>1, <2>1, <2>2, MirrorFrame DEF IdInv
<1> QED
  BY <1>1, <1>2, <1>3, <1>4 DEF IdInv, IdsDiffer

\* What the control thread, workers, clients and others do.
LEMMA IdOthers ==
  ASSUME TypeOK, IdInv, ControlStep \/ WorkerStep \/ ClientStep \/ ForeignStep
  PROVE  IdInv'
<1>1. CASE ControlStep
  BY <1>1, IdFrame
  DEF ControlStep, Begin, Stop, Join, Elapse, thread, table, kernel, TypeOK,
      Unlisting
<1>2. ASSUME NEW s \in Sessions, Check(s) \/ SendReply(s)
      PROVE  IdInv'
  BY <1>2, IdFrame DEF Check, SendReply, thread, table, kernel, TypeOK, Unlisting
<1>3. ASSUME NEW s \in Sessions,
             Connect(s) \/ ClientSend(s) \/ ClientClose(s) \/ ClientAbort(s)
      PROVE  IdInv'
  BY <1>3, IdFrame
  DEF Connect, ClientSend, ClientClose, ClientAbort, thread, table, TypeOK,
      Unlisting
<1>4. CASE ForeignStep
  BY <1>4, IdFrame
  DEF ForeignStep, OpenForeign, CloseForeign, thread, table, Unlisting
<1> QED
  BY <1>1, <1>2, <1>3, <1>4 DEF WorkerStep, ClientStep

\* What the server thread does.
LEMMA IdServer ==
  ASSUME TypeOK, IdInv, ServerStep
  PROVE  IdInv'
<1>1. CASE Listen \/ Select \/ ScanEnd \/ LeaveLoop \/ ShutdownEnd
  BY <1>1, IdFrame
  DEF Listen, Select, ScanEnd, LeaveLoop, ShutdownEnd, table, kernel, Unlisting
<1>2. CASE HangupClose \/ \E j \in Fds : ShutdownClose(j)
  BY <1>2, IdFrame, CloseKeepsLeft DEF HangupClose, ShutdownClose, table, Unlisting
<1>3. CASE DropClose
  BY <1>3, IdFrame, CloseKeepsLeft DEF DropClose, table, Unlisting
<1>4. CASE HangupDelete \/ DropDelete
  BY <1>4, IdDelete DEF HangupDelete, DropDelete, table, kernel, Unlisting
<1>5. ASSUME NEW j \in Fds, AcceptFails(j) \/ RecvBytes(j)
      PROVE  IdInv'
  BY <1>5, IdFrame DEF AcceptFails, RecvBytes, Receive, table, kernel, Unlisting
<1>6. ASSUME NEW j \in Fds, RecvBye(j) \/ RecvNothing(j)
      PROVE  IdInv'
  BY <1>6, IdErase DEF RecvBye, RecvNothing, Receive, NextReady, kernel, Unlisting
<1>7. ASSUME NEW j \in Fds, NEW deferred \in BOOLEAN, RecvRequest(j, deferred)
      PROVE  IdInv'
  BY <1>7, IdFrame DEF RecvRequest, Receive, FindConnection, table, TypeOK,
      Unlisting
<1>8. CASE HangupUnlist \/ DropUnlist
  BY <1>8, IdUnlist DEF HangupUnlist, DropUnlist, kernel
<1> QED
  BY <1>1, <1>2, <1>3, <1>4, <1>5, <1>6, <1>7, <1>8, IdAccept DEF ServerStep

\* The invariant is inductive, together with the first one.
THEOREM IdInvCorrect == Spec => [](IInv /\ IdInv)
<1>1. Init => IdInv
  BY IdInit
<1>2. IInv /\ IdInv /\ [Next]_vars => IdInv'
  <2> SUFFICES ASSUME TypeOK, IdInv, [Next]_vars PROVE IdInv'
    BY DEF IInv
  <2>1. CASE UNCHANGED vars
    BY <2>1, IdFrame DEF vars, thread, table, kernel, Unlisting
  <2> QED
    BY <2>1, IdOthers, IdServer DEF Next
<1> QED
  BY <1>1, <1>2, InvCorrect, PTL DEF Spec

-----------------------------------------------------------------------------
(* The properties that follow.                                             *)

\* The ids the server calls active are those of the connections it keeps, at
\* every step of an accept and of both ways to drop a connection.
THEOREM ActiveMirrorsListCorrect == Spec => []ActiveMirrorsList
<1>1. IdInv => ActiveMirrorsList
  BY DEF IdInv
<1> QED
  BY <1>1, IdInvCorrect, PTL

\* The test of an id is a test of the connection that had it, if only one had.
LEMMA ActiveIsKept ==
  ASSUME TypeOK, IdInv, NEW s \in Made, Alone(s)
  PROVE  IsConnectionActive(connId[s]) <=> s \in Kept
<1>1. \A t \in Kept : t \in Made
  BY DEF TypeOK, IdInv, ObjectInv, Kept, Made
<1>2. \A t \in Kept : connId[t] = connId[s] => t = s
  BY <1>1 DEF Alone, Made
<1> QED
  BY <1>2 DEF IsConnectionActive, IdInv, ActiveMirrorsList

\* Before the counter has wrapped around every object has an id of its own.
LEMMA AloneAtFirst ==
  ASSUME TypeOK, IdInv, FirstLife, NEW s \in Made
  PROVE  Alone(s)
BY DEF IdInv, IdsDiffer, FirstLife, Alone, Made

\* While the server keeps a connection in its first life a reply can be sent.
LEMMA KeptIsUsable ==
  ASSUME IInv, IdInv, Serving, begins <= 1, NEW s \in Kept
  PROVE  obj[s] = "live" /\ fdOwner[connFd[s]] = s
BY DEF Kept, IdInv, ObjectInv, IInv, SafeInv, ListedOwns

\* A deferred completion is told the truth about its connection, and can rely on
\* it until the server begins to drop the connection.
THEOREM VerdictHoldsCorrect == Spec => VerdictHolds
<1>1. IInv /\ IdInv /\ [Next]_vars =>
        [\A s \in Sessions :
           /\ Alone(s) /\ job[s] = "waiting" /\ job'[s] # "waiting" =>
                (job'[s] = "dropped" <=> s \notin Kept)
           /\ Serving /\ begins <= 1 /\ job[s] = "checked" /\ job'[s] = "stray" =>
                s \notin Kept]_vars
  <2> SUFFICES ASSUME IInv, IdInv, Next, NEW s \in Sessions,
                      job[s] \in {"waiting", "checked"}, job'[s] # job[s]
               PROVE  /\ Alone(s) /\ job[s] = "waiting" =>
                           (job'[s] = "dropped" <=> s \notin Kept)
                      /\ Serving /\ begins <= 1 /\ job[s] = "checked"
                         /\ job'[s] = "stray" => s \notin Kept
    OBVIOUS
  <2> USE DEF IInv, TypeOK
  <2>1. \A j \in Fds, deferred \in BOOLEAN : ~RecvRequest(j, deferred)
    BY DEF RecvRequest
  <2>2. Check(s) \/ SendReply(s)
    BY <2>1
    DEF Next, ControlStep, ServerStep, WorkerStep, ClientStep, ForeignStep,
        Begin, Stop, Join, Elapse, Listen, Select, ScanEnd, Accept, AcceptFails,
        RecvBytes, RecvBye, RecvNothing, HangupUnlist, HangupClose, HangupDelete,
        DropUnlist, DropDelete, DropClose, LeaveLoop, ShutdownClose, ShutdownEnd,
        Check, SendReply, Connect, ClientSend, ClientClose, ClientAbort,
        OpenForeign, CloseForeign
  <2>3. CASE Check(s)
    <3>1. s \in Made /\ job[s] = "waiting"
      BY <2>3 DEF IdInv, ObjectInv, Check
    <3>2. Alone(s) => (IsConnectionActive(connId[s]) <=> s \in Kept)
      BY <3>1, ActiveIsKept
    <3> QED
      BY <2>3, <3>1, <3>2 DEF Check
  <2>4. CASE SendReply(s)
    BY <2>4, KeptIsUsable DEF SendReply
  <2> QED
    BY <2>2, <2>3, <2>4
<1> QED
  BY <1>1, IdInvCorrect, PTL DEF Spec, VerdictHolds

\* A handler that completes at once answers the client that asked.
THEOREM PromptReplyIsSentCorrect == Spec => PromptReplyIsSent
<1>1. IInv /\ IdInv /\ [Next]_vars =>
        [\A s \in Sessions :
           FirstLife /\ job[s] \notin {"waiting", "checked"} =>
             job'[s] = job[s] \/ job'[s] \in {"waiting", "sent"}]_vars
  <2> SUFFICES ASSUME IInv, IdInv, Next, FirstLife, NEW s \in Sessions,
                      job[s] \notin {"waiting", "checked"}, job'[s] # job[s]
               PROVE  job'[s] \in {"waiting", "sent"}
    OBVIOUS
  <2> USE DEF IInv, TypeOK
  <2>1. \A t \in Sessions : ~((Check(t) \/ SendReply(t)) /\ t = s)
    BY DEF Check, SendReply
  <2>2. PICK j \in Fds, deferred \in BOOLEAN : RecvRequest(j, deferred)
    BY <2>1
    DEF Next, ControlStep, ServerStep, WorkerStep, ClientStep, ForeignStep,
        Begin, Stop, Join, Elapse, Listen, Select, ScanEnd, Accept, AcceptFails,
        RecvBytes, RecvBye, RecvNothing, HangupUnlist, HangupClose, HangupDelete,
        DropUnlist, DropDelete, DropClose, LeaveLoop, ShutdownClose, ShutdownEnd,
        Check, SendReply, Connect, ClientSend, ClientClose, ClientAbort,
        OpenForeign, CloseForeign
  <2>3. s \in FindConnection(j)
    BY <2>2 DEF RecvRequest
  <2>4. s \in connections /\ pc = "scan"
    BY <2>2, <2>3 DEF FindConnection, RecvRequest, Receive, NextReady
  <2>5. s \in Made /\ s \in Kept
    BY <2>4 DEF IdInv, ObjectInv, Made, Kept, Unlisting
  <2>6. obj[s] = "live" /\ fdOwner[connFd[s]] = s
    BY <2>4, <2>5, KeptIsUsable DEF Serving, FirstLife
  <2>7. Reply(s) = "sent"
    BY <2>5, <2>6, AloneAtFirst, ActiveIsKept DEF Reply
  <2> QED
    BY <2>2, <2>3, <2>7 DEF RecvRequest
<1> QED
  BY <1>1, IdInvCorrect, PTL DEF Spec, PromptReplyIsSent

-----------------------------------------------------------------------------
(* TCPServer implements SessionService: each step of the server, of its    *)
(* clients and of the rest of the process is a step of the service, or     *)
(* none.  The service knows no descriptors: what it says of sessions has   *)
(* to be found in the kernel's table, which is what the invariant is for.  *)


Listening == \E f \in Fds : fdOwner[f] = ListenerSocket
Left == {s \in Sessions : peer[s] = "closed"}

\* A session waits in a listener's queue or has a descriptor; only one that
\* arrived has a client; the server drops a session whose client is gone, and only
\* a terminal hangs up.
PromiseInv ==
  /\ \A s \in Sessions : sock[s] = "queued" => Listening
  /\ \A s \in Sessions : sock[s] = "accepted" => \E f \in Fds : fdOwner[f] = s
  /\ \A s \in Sessions : sock[s] = "none" => peer[s] = "absent"
  /\ pc \in {"unlist", "delete", "close"} => peer[fdOwner[scan]] = "closed"
  /\ pc \in {"hangup_unlist", "hangup"} => Service = "telnet"

\* Nobody has arrived at the start.
LEMMA PromiseInit == Init => PromiseInv /\ Promise!Init
BY DEF Init, PromiseInv, Promise!Init, Promise!Sessions, Sessions, Free, ListenerSocket

\* Steps that leave the kernel and the place of the thread alone keep it, and are
\* none of the service's.
LEMMA PromiseFrame ==
  ASSUME IInv, PromiseInv, UNCHANGED <<fdOwner, sock, peer>>,
         (pc' = "shutdown") = (pc = "shutdown"),
         \/ pc' \notin {"unlist", "delete", "close", "hangup_unlist", "hangup"}
         \/ UNCHANGED <<pc, scan>>
  PROVE  PromiseInv' /\ UNCHANGED Promise!vars
<1>1. Listening' = Listening
  BY DEF Listening
<1>2. PromiseInv'
  BY <1>1 DEF PromiseInv
<1> QED
  BY <1>2 DEF Promise!vars

\* Closing the descriptor of a session ends that session.
LEMMA CloseEnds ==
  ASSUME IInv, PromiseInv, NEW f \in Fds, NEW s \in Sessions, fdOwner[f] = s,
         CloseDescriptor(f), s \in Left \/ Service = "telnet" \/ pc = "shutdown",
         pc' \notin {"unlist", "delete", "close", "hangup_unlist", "hangup"},
         pc' = "shutdown" <=> pc = "shutdown"
  PROVE  PromiseInv' /\ Promise!End(s)
<1> USE DEF IInv, TypeOK
<1>1. s # ListenerSocket /\ s # Free
  BY DEF Sessions, ListenerSocket, Free
<1>2. /\ fdOwner' = [fdOwner EXCEPT ![f] = Free]
      /\ sock' = [sock EXCEPT ![s] = "closed"]
      /\ peer' = peer
  BY <1>1 DEF CloseDescriptor, Ends
<1>3. Listening' = Listening
  BY <1>1, <1>2 DEF Listening, Free, ListenerSocket
<1>4. \A t \in Sessions : sock'[t] = "accepted" => \E g \in Fds : fdOwner'[g] = t
  BY <1>2 DEF PromiseInv
<1>5. PromiseInv'
  BY <1>2, <1>3, <1>4 DEF PromiseInv
<1>6. sock[s] = "accepted"
  BY DEF SafeInv, KernelInv
<1>7. Promise!End(s)
  BY <1>2, <1>3, <1>6 DEF Promise!End, Listening, Left
<1> QED
  BY <1>5, <1>7

\* The control thread's calls are none of the service's steps.
LEMMA PromiseControl ==
  ASSUME IInv, PromiseInv, ControlStep
  PROVE  PromiseInv' /\ UNCHANGED Promise!vars
BY PromiseFrame DEF ControlStep, Begin, Stop, Join, Elapse, kernel, thread

\* Nor are those of the workers and of the rest of the process.
LEMMA PromiseRest ==
  ASSUME IInv, PromiseInv, WorkerStep \/ ForeignStep
  PROVE  PromiseInv' /\ UNCHANGED Promise!vars
<1> USE DEF IInv, TypeOK
<1>1. CASE WorkerStep
  BY <1>1, PromiseFrame DEF WorkerStep, Check, SendReply, kernel, thread
<1>2. ASSUME NEW f \in Fds, OpenForeign(f) \/ CloseForeign(f)
      PROVE  PromiseInv' /\ UNCHANGED Promise!vars
  <2>1. fdOwner[f] \in {Free, Foreign} /\ fdOwner'[f] \in {Free, Foreign}
    BY <1>2 DEF OpenForeign, CloseForeign, LowestFree
  <2>2. \A g \in Fds : g # f => fdOwner'[g] = fdOwner[g]
    BY <1>2 DEF OpenForeign, CloseForeign
  <2>3. UNCHANGED <<pc, scan, sock, peer>>
    BY <1>2 DEF OpenForeign, CloseForeign, thread
  <2>4. Listening' = Listening
    BY <2>1, <2>2 DEF Listening, Free, Foreign, ListenerSocket
  <2>5. \A s \in Sessions, g \in Fds : fdOwner[g] = s => fdOwner'[g] = s
    BY <2>1, <2>2 DEF Sessions, Free, Foreign
  <2>6. pc \in {"unlist", "delete", "close"} => fdOwner'[scan] = fdOwner[scan]
    BY <2>5 DEF SafeInv, DropInv, Unlisting
  <2>7. PromiseInv'
    BY <2>3, <2>4, <2>5, <2>6 DEF PromiseInv
  <2> QED
    BY <2>3, <2>4, <2>7 DEF Promise!vars, Listening
<1> QED
  BY <1>1, <1>2 DEF ForeignStep

\* Clients arrive and leave.
LEMMA PromiseClient ==
  ASSUME IInv, PromiseInv, NEW s \in Sessions,
         Connect(s) \/ ClientSend(s) \/ ClientClose(s) \/ ClientAbort(s)
  PROVE  PromiseInv' /\ (Promise!Arrive(s) \/ Promise!Leave(s) \/ UNCHANGED Promise!vars)
<1> USE DEF IInv, TypeOK
<1>1. UNCHANGED <<pc, scan, fdOwner>>
  BY DEF Connect, ClientSend, ClientClose, ClientAbort, thread
<1>2. Listening' = Listening
  BY <1>1 DEF Listening
<1>3. pc \in {"unlist", "delete", "close"} => fdOwner[scan] \in Sessions
  BY DEF SafeInv, DropInv, Unlisting
<1>4. CASE Connect(s)
  <2>1. Listening /\ sock[s] = "none"
    BY <1>4 DEF Connect, Listening
  <2>2. Left' = Left
    BY <1>4, <2>1 DEF Connect, Left, PromiseInv
  <2>3. pc \in {"unlist", "delete", "close"} => fdOwner[scan] # s
    BY <1>3, <2>1 DEF PromiseInv
  <2>4. PromiseInv'
    BY <1>1, <1>2, <1>3, <1>4, <2>1, <2>3 DEF PromiseInv, Connect
  <2> QED
    BY <1>1, <1>2, <1>4, <2>1, <2>2, <2>4
    DEF Connect, Promise!Arrive, Listening, Left
<1>5. CASE ClientSend(s)
  BY <1>5, PromiseFrame DEF ClientSend, thread
<1>6. CASE ClientClose(s)
  <2>1. Left' = Left \cup {s} /\ sock[s] # "none" /\ sock' = sock
    BY <1>6 DEF ClientClose, Left, PromiseInv
  <2>2. PromiseInv'
    BY <1>1, <1>2, <1>3, <1>6, <2>1 DEF PromiseInv, ClientClose
  <2> QED
    BY <1>1, <1>2, <2>1, <2>2 DEF Promise!Leave, Listening, Left
<1>7. CASE ClientAbort(s)
  <2>1. Left' = Left \cup {s} /\ sock[s] = "queued" /\ sock' = [sock EXCEPT ![s] = "closed"]
    BY <1>7 DEF ClientAbort, Left
  <2>2. PromiseInv'
    BY <1>1, <1>2, <1>3, <1>7, <2>1 DEF PromiseInv, ClientAbort
  <2> QED
    BY <1>1, <1>2, <2>1, <2>2 DEF Promise!Leave, Listening, Left
<1> QED
  BY <1>4, <1>5, <1>6, <1>7

\* The service opens with the listener, and begins to close when the loop ends.
LEMMA PromiseRound ==
  ASSUME IInv, PromiseInv,
         \/ Listen \/ Select \/ ScanEnd \/ HangupUnlist \/ HangupDelete
         \/ DropUnlist \/ DropDelete \/ LeaveLoop \/ ShutdownEnd
  PROVE  PromiseInv' /\ (\/ Promise!Open \/ Promise!CloseDown \/ Promise!Closed
                         \/ UNCHANGED Promise!vars)
<1> USE DEF IInv, TypeOK
<1>1. CASE Listen
  <2>1. PICK f \in Fds : LowestFree(f) /\ fdOwner' = [fdOwner EXCEPT ![f] = ListenerSocket]
    BY <1>1 DEF Listen
  <2>2. pc = "bind" /\ pc' = "head" /\ UNCHANGED <<sock, peer>>
    BY <1>1 DEF Listen
  <2>3. ~Listening
    BY <2>2 DEF Listening, SafeInv, OpenIsPolled, Serving, Ours
  <2>4. Listening'
    BY <2>1 DEF Listening
  <2>5. \A s \in Sessions, g \in Fds : fdOwner[g] = s => fdOwner'[g] = s
    BY <2>1 DEF LowestFree, Sessions, Free
  <2>6. PromiseInv'
    BY <2>2, <2>4, <2>5 DEF PromiseInv
  <2> QED
    BY <2>2, <2>3, <2>4, <2>6 DEF Promise!Open, Listening
<1>2. CASE Select \/ ScanEnd \/ HangupDelete
  BY <1>2, PromiseFrame DEF Select, ScanEnd, HangupDelete, kernel
<1>3. CASE DropUnlist \/ DropDelete \/ HangupUnlist
  <2>1. /\ \/ pc \in {"unlist", "delete"} /\ pc' \in {"delete", "close"}
           \/ pc = "hangup_unlist" /\ pc' = "hangup"
        /\ UNCHANGED <<scan, fdOwner, sock, peer>>
    BY <1>3 DEF DropUnlist, DropDelete, HangupUnlist, kernel
  <2>2. Listening' = Listening
    BY <2>1 DEF Listening
  <2>3. PromiseInv'
    BY <2>1, <2>2 DEF PromiseInv
  <2> QED
    BY <2>1, <2>3 DEF Promise!vars
<1>4. CASE LeaveLoop
  <2>1. pc = "head" /\ pc' = "shutdown" /\ UNCHANGED <<fdOwner, sock, peer>>
    BY <1>4 DEF LeaveLoop, kernel
  <2>2. Listening' = Listening
    BY <2>1 DEF Listening
  <2>3. PromiseInv'
    BY <2>1, <2>2 DEF PromiseInv
  <2> QED
    BY <2>1, <2>3 DEF Promise!CloseDown
<1>5. CASE ShutdownEnd
  <2>1. pc = "shutdown" /\ pc' = "ended" /\ UNCHANGED <<fdOwner, sock, peer>>
    BY <1>5 DEF ShutdownEnd, kernel
  <2>2. \A f \in Fds : fdOwner[f] \notin Ours
    <3>1. \A f \in masterFds : f < scan \/ f > maxFd
      BY <1>5 DEF ShutdownEnd
    <3> QED
      BY <2>1, <3>1, FdsAssumption DEF SafeInv, OpenIsPolled
  <2>3. ~Listening /\ \A s \in Sessions : sock[s] \notin {"queued", "accepted"}
    BY <2>2 DEF Listening, PromiseInv, Ours
  <2>4. Listening' = Listening
    BY <2>1 DEF Listening
  <2>5. PromiseInv'
    BY <2>1, <2>4 DEF PromiseInv
  <2> QED
    BY <2>1, <2>3, <2>5 DEF Promise!Closed, Promise!Sessions, Sessions, Listening
<1> QED
  BY <1>1, <1>2, <1>3, <1>4, <1>5

\* accept() serves the session that has waited longest.
LEMMA PromiseAccept ==
  ASSUME IInv, PromiseInv, NEW j \in Fds, Accept(j)
  PROVE  PromiseInv' /\ \E s \in Sessions : Promise!Serve(s)
<1> USE DEF IInv, TypeOK
<1>1. PICK s \in Sessions, f \in Fds :
        /\ OldestQueued(s) /\ LowestFree(f)
        /\ fdOwner' = [fdOwner EXCEPT ![f] = s]
        /\ sock' = [sock EXCEPT ![s] = "accepted"]
  BY DEF Accept
<1>2. UNCHANGED <<pc, peer>> /\ pc = "scan"
  BY DEF Accept, NextReady
<1>3. sock[s] = "queued" /\ \A t \in Sessions : t < s => sock[t] # "queued"
  BY <1>1 DEF OldestQueued, Sessions
<1>4. Listening
  BY <1>3 DEF PromiseInv
<1>5. fdOwner[f] = Free /\ Free # ListenerSocket /\ Free \notin Sessions
      /\ ListenerSocket \notin Sessions
  BY <1>1 DEF LowestFree, Free, ListenerSocket, Sessions
<1>6. Listening'
  BY <1>1, <1>4, <1>5 DEF Listening
<1>7. \A t \in Sessions : sock'[t] = "accepted" => \E g \in Fds : fdOwner'[g] = t
  BY <1>1, <1>5 DEF PromiseInv
<1>8. PromiseInv'
  BY <1>1, <1>2, <1>3, <1>6, <1>7 DEF PromiseInv
<1>9. Promise!Serve(s)
  BY <1>1, <1>2, <1>3, <1>4, <1>6
  DEF Promise!Serve, Promise!Sessions, Sessions, Listening
<1> QED
  BY <1>8, <1>9

\* recv() reads, or finds out that a client is gone: nothing has ended yet.
LEMMA PromiseRecv ==
  ASSUME IInv, PromiseInv, NEW j \in Fds,
         \/ AcceptFails(j) \/ RecvBytes(j) \/ RecvBye(j) \/ RecvNothing(j)
         \/ \E deferred \in BOOLEAN : RecvRequest(j, deferred)
  PROVE  PromiseInv' /\ UNCHANGED Promise!vars
<1> USE DEF IInv, TypeOK
<1>1. CASE AcceptFails(j) \/ RecvBytes(j) \/ \E deferred \in BOOLEAN : RecvRequest(j, deferred)
  BY <1>1, PromiseFrame DEF AcceptFails, RecvBytes, RecvRequest, Receive, NextReady, kernel
<1>2. CASE RecvBye(j)
  <2>1. /\ pc = "scan" /\ pc' = "hangup_unlist" /\ Service = "telnet"
        /\ UNCHANGED <<fdOwner, sock, peer>>
    BY <1>2 DEF RecvBye, Receive, NextReady
  <2>2. Listening' = Listening
    BY <2>1 DEF Listening
  <2>3. PromiseInv'
    BY <2>1, <2>2 DEF PromiseInv
  <2> QED
    BY <2>1, <2>3 DEF Promise!vars
<1>3. CASE RecvNothing(j)
  <2>1. /\ pc = "scan" /\ pc' = "unlist" /\ scan' = j
        /\ UNCHANGED <<fdOwner, sock, peer>>
    BY <1>3 DEF RecvNothing, NextReady, kernel
  <2>2. Listening' = Listening
    BY <2>1 DEF Listening
  <2>3. \E s \in Sessions : fdOwner[j] = s /\ (unread[s] > 0 \/ peer[s] = "closed")
    BY <1>3, BitIsTrue DEF RecvNothing
  <2>4. peer[fdOwner[j]] = "closed"
    BY <1>3, <2>3 DEF RecvNothing, HasBytes
  <2>5. PromiseInv'
    BY <2>1, <2>2, <2>4 DEF PromiseInv
  <2> QED
    BY <2>1, <2>5 DEF Promise!vars
<1> QED
  BY <1>1, <1>2, <1>3

\* A teardown ends its session; the final loop ends all, and turns away those
\* that wait when it comes to the listener.
LEMMA PromiseClose ==
  ASSUME IInv, PromiseInv,
         \/ HangupClose \/ DropClose \/ \E f \in Fds : ShutdownClose(f)
  PROVE  PromiseInv' /\ (Promise!Shut \/ \E s \in Sessions : Promise!End(s))
<1> USE DEF IInv, TypeOK
<1>1. CASE HangupClose \/ DropClose
  <2>1. /\ pc \in {"hangup", "close"} /\ CloseDescriptor(scan)
        /\ pc' \in {"hangup_delete", "scan"}
    BY <1>1 DEF HangupClose, DropClose
  <2>2. scan \in Fds /\ fdOwner[scan] \in Sessions
    BY <2>1 DEF SafeInv, DropInv
  <2>3. fdOwner[scan] \in Left \/ Service = "telnet"
    BY <2>1, <2>2 DEF PromiseInv, Left
  <2> QED
    BY <2>1, <2>2, <2>3, CloseEnds
<1>2. ASSUME NEW f \in Fds, ShutdownClose(f)
      PROVE  PromiseInv' /\ (Promise!Shut \/ \E s \in Sessions : Promise!End(s))
  <2>1. pc = "shutdown" /\ pc' = pc /\ CloseDescriptor(f)
    BY <1>2 DEF ShutdownClose
  <2>2. fdOwner[f] \in Ours
    BY <1>2, <2>1 DEF ShutdownClose, SafeInv, PolledIsOpen
  <2>3. CASE fdOwner[f] \in Sessions
    BY <2>1, <2>3, CloseEnds
  <2>4. CASE fdOwner[f] = ListenerSocket
    <3>1. \A g \in Fds : fdOwner[g] = ListenerSocket => g = f
      BY <2>4 DEF SafeInv, KernelInv
    <3>2. ListenerSocket \notin Sessions /\ Free # ListenerSocket
      BY DEF Sessions, Free, ListenerSocket
    <3>3. /\ fdOwner' = [fdOwner EXCEPT ![f] = Free]
          /\ sock' = [s \in Sessions |-> IF sock[s] = "queued" THEN "closed" ELSE sock[s]]
          /\ peer' = peer
      BY <2>1, <2>4, <3>2 DEF CloseDescriptor, Ends
    <3>4. Listening /\ ~Listening'
      BY <2>4, <3>1, <3>2, <3>3 DEF Listening
    <3>5. \A s \in Sessions : sock'[s] = "accepted" => \E g \in Fds : fdOwner'[g] = s
      BY <2>4, <3>2, <3>3 DEF PromiseInv
    <3>6. \A s \in Sessions : sock'[s] # "queued" /\ (sock'[s] = "none" => peer'[s] = "absent")
      BY <3>3 DEF PromiseInv
    <3>7. PromiseInv'
      BY <2>1, <3>5, <3>6 DEF PromiseInv
    <3>8. Promise!Shut
      BY <2>1, <3>3, <3>4 DEF Promise!Shut, Promise!Sessions, Sessions, Listening
    <3> QED
      BY <3>7, <3>8
  <2> QED
    BY <2>2, <2>3, <2>4 DEF Ours
<1> QED
  BY <1>1, <1>2

\* Each step of the model is a step of the service, or none.
LEMMA PromiseStep ==
  ASSUME IInv, PromiseInv, [Next]_vars
  PROVE  PromiseInv' /\ [Promise!Next]_(Promise!vars)
<1>1. CASE UNCHANGED vars
  BY <1>1, PromiseFrame DEF vars, thread, kernel
<1>2. CASE ControlStep \/ WorkerStep \/ ForeignStep
  BY <1>2, PromiseControl, PromiseRest
<1>3. CASE ClientStep
  BY <1>3, PromiseClient DEF ClientStep, Promise!Next, Promise!Sessions, Sessions
<1>4. CASE ServerStep
  BY <1>4, PromiseRound, PromiseAccept, PromiseRecv, PromiseClose
  DEF ServerStep, Promise!Next, Promise!Sessions, Sessions
<1> QED
  BY <1>1, <1>2, <1>3, <1>4 DEF Next

\* The invariant of the promise always holds.
THEOREM PromiseInvCorrect == Spec => [](IInv /\ PromiseInv)
<1>1. Init => PromiseInv
  BY PromiseInit
<1>2. IInv /\ PromiseInv /\ [Next]_vars => PromiseInv'
  BY PromiseStep
<1> QED
  BY <1>1, <1>2, InvCorrect, PTL DEF Spec

\* The server keeps the promise of SessionService: sessions are served in the
\* order they come, and end only as it says (TCPServer::run, close_socket).
THEOREM PromiseKept == Spec => KeepsPromise
<1>1. Init => PromiseInv /\ Promise!Init
  BY PromiseInit
<1>2. IInv /\ PromiseInv /\ [Next]_vars => PromiseInv' /\ [Promise!Next]_(Promise!vars)
  BY PromiseStep
<1> QED
  BY <1>1, <1>2, InvCorrect, PTL DEF Spec, KeepsPromise, Promise!Spec

\* A connection leaves the list only when its client is gone or it hung up.
THEOREM NoHealthyReapCorrect == Spec => NoHealthyReap
<1>1. IInv /\ PromiseInv /\ [Next]_vars =>
        [\A s \in connections \ connections' :
           begins <= 1 => peer[s] = "closed" \/ pc' = "hangup"]_vars
  <2> SUFFICES ASSUME IInv, PromiseInv, Next, begins <= 1,
                      NEW s \in connections, s \notin connections',
                      pc' # "hangup"
               PROVE  peer[s] = "closed"
    OBVIOUS
  <2>1. DropUnlist
    BY DEF Next, ControlStep, ServerStep, WorkerStep, ClientStep, ForeignStep,
       Begin, Stop, Join, Elapse, Listen, Select, ScanEnd, Accept, AcceptFails,
       RecvBytes, RecvRequest, RecvBye, RecvNothing, EraseId, HangupUnlist,
       HangupClose, HangupDelete, DropDelete, DropClose, LeaveLoop,
       ShutdownClose, ShutdownEnd, Check, SendReply, Connect, ClientSend,
       ClientClose, ClientAbort, OpenForeign, CloseForeign, table
  <2>2. pc = "unlist" /\ s \in dying
    BY <2>1 DEF DropUnlist, Unlist
  <2>3. connFd[s] = scan
    BY <2>2 DEF IInv, SafeInv, DropInv, Unlisting
  <2>4. fdOwner[scan] = s
    BY <2>2, <2>3 DEF IInv, SafeInv, ListedOwns, Serving
  <2> QED
    BY <2>2, <2>4 DEF PromiseInv
<1> QED
  BY <1>1, PromiseInvCorrect, PTL DEF Spec, NoHealthyReap

=============================================================================
