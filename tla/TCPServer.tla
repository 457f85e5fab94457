------------------------------ MODULE TCPServer ------------------------------
(***************************************************************************)
(* One TCPServer (src/TCPServer.cpp): the thread that begin() starts and   *)
(* stop() joins, its select() loop, the table of connections it keeps, the *)
(* process's descriptor table, and what runs beside it: the clients, other *)
(* code of the process that opens and closes descriptors, and the workers  *)
(* that complete REST requests after their handler returned.               *)
(*                                                                         *)
(* A session is one TCP connection of one client, from its arrival in the  *)
(* listener's queue to its end.  Sessions are numbered in the order they   *)
(* arrive.  accept() takes the oldest and the object made for it is pushed *)
(* at the back of _connections, so the number of a session also names its  *)
(* TCPServerConnection and gives the order of the list.                    *)
(***************************************************************************)
EXTENDS Integers, FiniteSets

CONSTANTS
  MaxSessions,  \* bound: sessions that ever arrive
  Fds,          \* descriptors the process may have open (below FD_SETSIZE)
  IdMod,        \* number of values of _entryCnt, a uint8_t: 256 in the code
  Backlog,      \* length of the listener's queue: BACKLOG
  MaxUnread,    \* bound: received chunks waiting in a socket's buffer
  MaxForeign,   \* bound: descriptors the rest of the process has open
  MaxBegins,    \* bound: calls of begin()
  Service       \* what the factory makes: "REST" or "telnet" connections

ASSUME SizesAssumption ==
  /\ MaxSessions \in Nat
  /\ IdMod \in Nat \ {0}
  /\ Backlog \in Nat
  /\ MaxUnread \in Nat \ {0}
  /\ MaxForeign \in Nat
  /\ MaxBegins \in Nat

ASSUME FdsAssumption == Fds \subseteq Nat /\ IsFiniteSet(Fds)

ASSUME ServiceAssumption == Service \in {"REST", "telnet"}

Sessions == 1..MaxSessions
Ids == 0..(IdMod - 1)

\* What a descriptor refers to, besides a session: nothing, the listening
\* socket, or something of another part of the process.
Free == 0
ListenerSocket == -1
Foreign == -2

NoFd == -1

VARIABLES
  running, registered, ctl, begins,                         \* control
  pc, scan, listener, masterFds, readFds, maxFd, dying,     \* server thread
  connections, active, entryCnt, recent, accepted,          \* server object
  obj, connFd, connId, job,                                 \* connections
  fdOwner, sock, peer, unread                               \* kernel

control == <<running, registered, ctl, begins>>
thread  == <<pc, scan, listener, masterFds, readFds, maxFd, dying>>
table   == <<connections, active, entryCnt, recent, accepted>>
objects == <<obj, connFd, connId>>
kernel  == <<fdOwner, sock, peer, unread>>

vars == <<control, thread, table, objects, job, kernel>>

PcStates == {"off", "bind", "head", "scan", "unlist", "delete", "close",
             "hangup_unlist", "hangup", "hangup_delete", "shutdown", "ended",
             "exited"}

\* A REST request of a connection: "waiting" for its handler, "checked" when
\* the completion found the connection's id active and is about to send, then
\* "sent", "dropped" (the check failed) or "stray": sendString was called on a
\* deleted object, or on a descriptor that no longer is the client's.
JobStates == {"none", "waiting", "checked", "sent", "dropped", "stray"}

TypeOK ==
  /\ running \in BOOLEAN
  /\ registered \in BOOLEAN
  /\ ctl \in {"idle", "joining"}
  /\ begins \in 0..MaxBegins
  /\ pc \in PcStates
  /\ scan \in Nat
  /\ listener \in Fds \cup {NoFd}
  /\ masterFds \subseteq Fds
  /\ readFds \subseteq Fds
  /\ maxFd \in Nat
  /\ dying \subseteq Sessions
  /\ connections \subseteq Sessions
  /\ active \subseteq Ids
  /\ entryCnt \in Ids
  /\ recent \in BOOLEAN
  /\ accepted \in Nat
  /\ obj \in [Sessions -> {"none", "live", "deleted"}]
  /\ connFd \in [Sessions -> Fds \cup {NoFd}]
  /\ connId \in [Sessions -> Ids]
  /\ job \in [Sessions -> JobStates]
  /\ fdOwner \in [Fds -> Sessions \cup {Free, ListenerSocket, Foreign}]
  /\ sock \in [Sessions -> {"none", "queued", "accepted", "closed"}]
  /\ peer \in [Sessions -> {"absent", "open", "closed"}]
  /\ unread \in [Sessions -> 0..MaxUnread]

Init ==
  /\ running = FALSE /\ registered = FALSE
  /\ ctl = "idle" /\ begins = 0
  /\ pc = "off" /\ scan = 0 /\ maxFd = 0 /\ dying = {}
  /\ listener = NoFd /\ masterFds = {} /\ readFds = {}
  /\ connections = {} /\ active = {} /\ entryCnt = 0
  /\ recent = FALSE /\ accepted = 0
  /\ obj = [s \in Sessions |-> "none"]
  /\ connFd = [s \in Sessions |-> NoFd]
  /\ connId = [s \in Sessions |-> 0]
  /\ job = [s \in Sessions |-> "none"]
  /\ fdOwner = [f \in Fds |-> Free]
  /\ sock = [s \in Sessions |-> "none"]
  /\ peer = [s \in Sessions |-> "absent"]
  /\ unread = [s \in Sessions |-> 0]

-----------------------------------------------------------------------------
(* Descriptors and sockets (external: the kernel).                         *)

\* A new descriptor is the lowest one that is free.
LowestFree(f) ==
  /\ f \in Fds
  /\ fdOwner[f] = Free
  /\ \A g \in Fds : fdOwner[g] = Free => f <= g

\* The session accept() would return.
OldestQueued(s) ==
  /\ s \in Sessions
  /\ sock[s] = "queued"
  /\ \A t \in Sessions : sock[t] = "queued" => s <= t

\* select() reports a descriptor readable: accept() or recv() would not block.
Readable(f) ==
  \/ fdOwner[f] = ListenerSocket /\ \E s \in Sessions : sock[s] = "queued"
  \/ \E s \in Sessions :
       fdOwner[f] = s /\ (unread[s] > 0 \/ peer[s] = "closed")

\* close(f): the session behind f is over; closing the listening socket resets
\* the sessions that wait in its queue.
Ends(f, s) ==
  \/ fdOwner[f] = s
  \/ fdOwner[f] = ListenerSocket /\ sock[s] = "queued"

CloseDescriptor(f) ==
  /\ fdOwner' = [fdOwner EXCEPT ![f] = Free]
  /\ sock' = [s \in Sessions |-> IF Ends(f, s) THEN "closed" ELSE sock[s]]
  /\ unread' = [s \in Sessions |-> IF Ends(f, s) THEN 0 ELSE unread[s]]
  /\ UNCHANGED peer

-----------------------------------------------------------------------------
(* The table of connections.                                               *)

\* findConnection: the first listed object with this descriptor, as a set of
\* one element, or the empty set for NULL.
FindConnection(f) ==
  {s \in connections :
     connFd[s] = f /\ \A t \in connections : connFd[t] = f => s <= t}

IsConnectionActive(id) == id \in active

HasActiveConnections == active # {} \/ recent

\* Variants with a fault: the counter does not wrap, or is not advanced.
NextEntryTooWide == entryCnt + 1
NextEntryStuck == entryCnt

\* _entryCnt++ on a uint8_t
NextEntry == IF entryCnt = IdMod - 1 THEN 0 ELSE entryCnt + 1

\* Variants with a fault: the id stays active, or every id is erased.
EraseNoId(f) ==
  /\ dying' = FindConnection(f)
  /\ UNCHANGED <<active, connections, entryCnt, recent, accepted>>

EraseAllIds(f) ==
  /\ active' = {}
  /\ dying' = FindConnection(f)
  /\ UNCHANGED <<connections, entryCnt, recent, accepted>>

\* Both ways to drop a connection start by erasing its id.  It is on the list
\* for one step more.
EraseId(f) ==
  /\ active' = active \ {connId[s] : s \in FindConnection(f)}
  /\ dying' = FindConnection(f)
  /\ UNCHANGED <<connections, entryCnt, recent, accepted>>

\* _connections.remove_if
Unlist ==
  /\ connections' = connections \ dying
  /\ UNCHANGED <<active, entryCnt, recent, accepted>>

\* delete conn
DeleteDying ==
  /\ obj' = [s \in Sessions |-> IF s \in dying THEN "deleted" ELSE obj[s]]
  /\ dying' = {}
  /\ UNCHANGED <<connFd, connId>>

\* Variant with a fault: the bit stays set.
KeepPolling(f) == UNCHANGED masterFds

\* FD_CLR(f, &_master_fds)
StopPolling(f) == masterFds' = masterFds \ {f}

\* Variant with a fault: a new descriptor does not raise max_fd.
SameMaxFd(f) == maxFd

\* if (client_fd > max_fd) max_fd = client_fd
NewMaxFd(f) == IF f > maxFd THEN f ELSE maxFd

\* Variant with a fault: the copy is used as if all of it were ready.
WholeReadSet == masterFds

\* What select() leaves in the copy of the master set.
ReadSet == {f \in masterFds : Readable(f)}

\* What becomes of a completion that runs to its end in one go.
Reply(s) ==
  IF ~IsConnectionActive(connId[s]) THEN "dropped"
  ELSE IF obj[s] = "live" /\ fdOwner[connFd[s]] = s THEN "sent" ELSE "stray"

-----------------------------------------------------------------------------
(* The controlling thread.                                                 *)

Begin ==
  /\ ctl = "idle" /\ pc = "off" /\ begins < MaxBegins
  /\ begins' = begins + 1
  /\ running' = TRUE
  /\ registered' = TRUE
  /\ masterFds' = {} /\ readFds' = {}
  /\ recent' = FALSE
  /\ pc' = "bind"
  /\ UNCHANGED <<ctl, scan, listener, maxFd, dying, connections, active,
                 entryCnt, accepted, objects, job, kernel>>

\* Variant with a fault: the loop is not told to end.
StopUntold ==
  /\ ctl = "idle" /\ pc # "off"
  /\ registered' = FALSE
  /\ ctl' = "joining"
  /\ UNCHANGED <<running, begins, thread, table, objects, job, kernel>>

Stop ==
  /\ ctl = "idle" /\ pc # "off"
  /\ running' = FALSE
  /\ registered' = FALSE
  /\ ctl' = "joining"
  /\ UNCHANGED <<begins, thread, table, objects, job, kernel>>

\* The end of stop(): the thread has returned from run().
Join ==
  /\ ctl = "joining" /\ pc = "ended"
  /\ ctl' = "idle"
  /\ pc' = "off"
  /\ UNCHANGED <<running, registered, begins, scan, listener, masterFds,
                 readFds, maxFd, dying, table, objects, job, kernel>>

\* The clock passes _lastConnectTime + _timeoutDelay.
Elapse ==
  /\ recent
  /\ recent' = FALSE
  /\ UNCHANGED <<control, thread, connections, active, entryCnt, accepted,
                 objects, job, kernel>>

-----------------------------------------------------------------------------
(* The server thread: run().                                               *)

\* Variant with a fault: the listener is not in the master set.
ListenUnpolled ==
  /\ pc = "bind"
  /\ \E f \in Fds :
       /\ LowestFree(f)
       /\ fdOwner' = [fdOwner EXCEPT ![f] = ListenerSocket]
       /\ listener' = f
       /\ maxFd' = f
  /\ masterFds' = {} /\ readFds' = {}
  /\ pc' = "head"
  /\ UNCHANGED <<control, scan, dying, table, objects, job, sock, peer, unread>>

\* socket_bind() and listen().  A failure exits the process: no step.
Listen ==
  /\ pc = "bind"
  /\ \E f \in Fds :
       /\ LowestFree(f)
       /\ fdOwner' = [fdOwner EXCEPT ![f] = ListenerSocket]
       /\ listener' = f
       /\ masterFds' = {f}
       /\ maxFd' = f
  /\ readFds' = {}
  /\ pc' = "head"
  /\ UNCHANGED <<control, scan, dying, table, objects, job, sock, peer, unread>>

\* while(_running): copy the set and wait, at most three seconds.  select()
\* fails on a closed descriptor and the process exits.
Select ==
  /\ pc = "head" /\ running
  /\ readFds' = ReadSet
  /\ scan' = 0
  /\ pc' = IF \E f \in masterFds : fdOwner[f] = Free THEN "exited" ELSE "scan"
  /\ UNCHANGED <<control, listener, masterFds, maxFd, dying, table, objects,
                 job, kernel>>

\* The loop over the descriptors: j is the next one, from scan to maxFd, that
\* is set in the read set.  The others are passed over.
NextReady(j) ==
  /\ pc = "scan"
  /\ j \in readFds /\ scan <= j /\ j <= maxFd
  /\ \A k \in readFds : scan <= k => j <= k

ScanEnd ==
  /\ pc = "scan"
  /\ \A k \in readFds : k < scan \/ k > maxFd
  /\ scan' = 0
  /\ pc' = "head"
  /\ UNCHANGED <<control, listener, masterFds, readFds, maxFd, dying,
                 table, objects, job, kernel>>

\* check_new_connection, accept() succeeds.  No other thread knows the object or
\* its id before didOpen, so that its making is one step.
Accept(j) ==
  /\ NextReady(j) /\ j = listener
  /\ \E s \in Sessions, f \in Fds :
       /\ OldestQueued(s) /\ LowestFree(f)
       /\ fdOwner' = [fdOwner EXCEPT ![f] = s]
       /\ sock' = [sock EXCEPT ![s] = "accepted"]
       /\ masterFds' = masterFds \cup {f}
       /\ maxFd' = NewMaxFd(f)
       /\ obj' = [obj EXCEPT ![s] = "live"]
       /\ connFd' = [connFd EXCEPT ![s] = f]
       /\ connId' = [connId EXCEPT ![s] = entryCnt]
       /\ connections' = connections \cup {s}
  /\ active' = active \cup {entryCnt}
  /\ entryCnt' = NextEntry
  /\ recent' = TRUE
  /\ accepted' = accepted + 1
  /\ scan' = j + 1
  /\ UNCHANGED <<control, pc, listener, readFds, dying, job, peer, unread>>

\* check_new_connection, accept() returns -1: the client went away, or the
\* process has no descriptor left
AcceptFails(j) ==
  /\ NextReady(j) /\ j = listener
  /\ \/ \A s \in Sessions : sock[s] # "queued"
     \/ \A f \in Fds : fdOwner[f] # Free
  /\ scan' = j + 1
  /\ UNCHANGED <<control, pc, listener, masterFds, readFds, maxFd, dying,
                 table, objects, job, kernel>>

\* recv() returns bytes
HasBytes(j) == \E s \in Sessions : fdOwner[j] = s /\ unread[s] > 0

Receive(j) ==
  /\ NextReady(j) /\ j # listener /\ HasBytes(j)
  /\ unread' = [s \in Sessions |->
                  IF fdOwner[j] = s THEN unread[s] - 1 ELSE unread[s]]
  /\ UNCHANGED <<fdOwner, sock, peer>>

\* didRecvData: part of a request, or input of a terminal
RecvBytes(j) ==
  /\ Receive(j)
  /\ scan' = j + 1
  /\ UNCHANGED <<control, pc, listener, masterFds, readFds, maxFd, dying,
                 table, objects, job>>

\* didRecvData: the end of a REST request.  Its handler calls the completion
\* before it returns, or keeps it for later.
RecvRequest(j, deferred) ==
  /\ Service = "REST"
  /\ Receive(j)
  /\ \A s \in FindConnection(j) : job[s] \notin {"waiting", "checked"}
  /\ job' = [s \in Sessions |->
               IF s \notin FindConnection(j) THEN job[s]
               ELSE IF deferred THEN "waiting" ELSE Reply(s)]
  /\ scan' = j + 1
  /\ UNCHANGED <<control, pc, listener, masterFds, readFds, maxFd, dying,
                 table, objects>>

\* didRecvData: the terminal said "bye" and the event handler calls close()
RecvBye(j) ==
  /\ Service = "telnet"
  /\ Receive(j)
  /\ FindConnection(j) # {}
  /\ EraseId(j)
  /\ scan' = j
  /\ pc' = "hangup_unlist"
  /\ UNCHANGED <<control, listener, masterFds, readFds, maxFd, objects, job>>

\* close_socket unlists, closes, then deletes and stops polling
HangupUnlist ==
  /\ pc = "hangup_unlist"
  /\ Unlist
  /\ pc' = "hangup"
  /\ UNCHANGED <<control, scan, listener, masterFds, readFds, maxFd, dying,
                 objects, job, kernel>>

HangupClose ==
  /\ pc = "hangup"
  /\ CloseDescriptor(scan)
  /\ pc' = "hangup_delete"
  /\ UNCHANGED <<control, scan, listener, masterFds, readFds, maxFd, dying,
                 table, objects, job>>

HangupDelete ==
  /\ pc = "hangup_delete"
  /\ DeleteDying
  /\ StopPolling(scan)
  /\ scan' = scan + 1
  /\ pc' = "scan"
  /\ UNCHANGED <<control, listener, readFds, maxFd, table, job, kernel>>

\* recv() returns 0 or -1: the run loop erases the id, unlists, deletes, then
\* closes
RecvNothing(j) ==
  /\ NextReady(j) /\ j # listener /\ ~HasBytes(j)
  /\ EraseId(j)
  /\ scan' = j
  /\ pc' = "unlist"
  /\ UNCHANGED <<control, listener, masterFds, readFds, maxFd, objects, job,
                 kernel>>

DropUnlist ==
  /\ pc = "unlist"
  /\ Unlist
  /\ pc' = "delete"
  /\ UNCHANGED <<control, scan, listener, masterFds, readFds, maxFd, dying,
                 objects, job, kernel>>

DropDelete ==
  /\ pc = "delete"
  /\ DeleteDying
  /\ pc' = "close"
  /\ UNCHANGED <<control, scan, listener, masterFds, readFds, maxFd, table,
                 job, kernel>>

DropClose ==
  /\ pc = "close"
  /\ CloseDescriptor(scan)
  /\ StopPolling(scan)
  /\ scan' = scan + 1
  /\ pc' = "scan"
  /\ UNCHANGED <<control, listener, readFds, maxFd, dying, table, objects, job>>

\* _running was cleared: close what the master set holds, from 0 to maxFd
LeaveLoop ==
  /\ pc = "head" /\ ~running
  /\ scan' = 0
  /\ pc' = "shutdown"
  /\ UNCHANGED <<control, listener, masterFds, readFds, maxFd, dying, table,
                 objects, job, kernel>>

ShutdownClose(f) ==
  /\ pc = "shutdown"
  /\ f \in masterFds /\ scan <= f /\ f <= maxFd
  /\ \A g \in masterFds : scan <= g => f <= g
  /\ CloseDescriptor(f)
  /\ scan' = f + 1
  /\ UNCHANGED <<control, pc, listener, masterFds, readFds, maxFd, dying,
                 table, objects, job>>

ShutdownEnd ==
  /\ pc = "shutdown"
  /\ \A f \in masterFds : f < scan \/ f > maxFd
  /\ pc' = "ended"
  /\ UNCHANGED <<control, scan, listener, masterFds, readFds, maxFd, dying,
                 table, objects, job, kernel>>

ServerStep ==
  \/ Listen \/ Select \/ ScanEnd
  \/ \E j \in Fds :
       \/ Accept(j) \/ AcceptFails(j)
       \/ RecvBytes(j) \/ RecvBye(j) \/ RecvNothing(j)
       \/ \E deferred \in BOOLEAN : RecvRequest(j, deferred)
       \/ ShutdownClose(j)
  \/ HangupUnlist \/ HangupClose \/ HangupDelete
  \/ DropUnlist \/ DropDelete \/ DropClose
  \/ LeaveLoop \/ ShutdownEnd

-----------------------------------------------------------------------------
(* A worker that completes a REST request: isConnectionActive on the saved *)
(* id, and then sendString on the object.  The server thread may run       *)
(* between the two.                                                        *)

Check(s) ==
  /\ job[s] = "waiting"
  /\ job' = [job EXCEPT ![s] =
               IF IsConnectionActive(connId[s]) THEN "checked" ELSE "dropped"]
  /\ UNCHANGED <<control, thread, table, objects, kernel>>

SendReply(s) ==
  /\ job[s] = "checked"
  /\ job' = [job EXCEPT ![s] =
               IF obj[s] = "live" /\ fdOwner[connFd[s]] = s
               THEN "sent" ELSE "stray"]
  /\ UNCHANGED <<control, thread, table, objects, kernel>>

-----------------------------------------------------------------------------
(* External: clients, and the other descriptors of the process.            *)

Connect(s) ==
  /\ sock[s] = "none"
  /\ \A t \in Sessions : t < s => sock[t] # "none"
  /\ \E f \in Fds : fdOwner[f] = ListenerSocket
  /\ Cardinality({t \in Sessions : sock[t] = "queued"}) < Backlog
  /\ sock' = [sock EXCEPT ![s] = "queued"]
  /\ peer' = [peer EXCEPT ![s] = "open"]
  /\ UNCHANGED <<control, thread, table, objects, job, fdOwner, unread>>

ClientSend(s) ==
  /\ peer[s] = "open" /\ sock[s] \in {"queued", "accepted"}
  /\ unread[s] < MaxUnread
  /\ unread' = [unread EXCEPT ![s] = @ + 1]
  /\ UNCHANGED <<control, thread, table, objects, job, fdOwner, sock, peer>>

\* The client ends the connection in order, or resets it: what the server has
\* not read by then is lost.
ClientClose(s) ==
  /\ peer[s] = "open"
  /\ peer' = [peer EXCEPT ![s] = "closed"]
  /\ \/ UNCHANGED unread
     \/ unread' = [unread EXCEPT ![s] = 0]
  /\ UNCHANGED <<control, thread, table, objects, job, fdOwner, sock>>

\* A reset takes a session out of the listener's queue.
ClientAbort(s) ==
  /\ sock[s] = "queued"
  /\ sock' = [sock EXCEPT ![s] = "closed"]
  /\ peer' = [peer EXCEPT ![s] = "closed"]
  /\ unread' = [unread EXCEPT ![s] = 0]
  /\ UNCHANGED <<control, thread, table, objects, job, fdOwner>>

OpenForeign(f) ==
  /\ LowestFree(f)
  /\ Cardinality({g \in Fds : fdOwner[g] = Foreign}) < MaxForeign
  /\ fdOwner' = [fdOwner EXCEPT ![f] = Foreign]
  /\ UNCHANGED <<control, thread, table, objects, job, sock, peer, unread>>

CloseForeign(f) ==
  /\ fdOwner[f] = Foreign
  /\ fdOwner' = [fdOwner EXCEPT ![f] = Free]
  /\ UNCHANGED <<control, thread, table, objects, job, sock, peer, unread>>

ControlStep == Begin \/ Stop \/ Join \/ Elapse

WorkerStep == \E s \in Sessions : Check(s) \/ SendReply(s)

ClientStep ==
  \E s \in Sessions :
    Connect(s) \/ ClientSend(s) \/ ClientClose(s) \/ ClientAbort(s)

ForeignStep == \E f \in Fds : OpenForeign(f) \/ CloseForeign(f)

Next == ControlStep \/ ServerStep \/ WorkerStep \/ ClientStep \/ ForeignStep

Spec == Init /\ [][Next]_vars

\* The scheduler runs the server thread, stop() returns from join(), and time
\* passes.
Fairness == WF_vars(ServerStep) /\ WF_vars(Join) /\ WF_vars(Elapse)

LiveSpec == Spec /\ Fairness

-----------------------------------------------------------------------------
(* Properties.                                                             *)

\* Until _entryCnt has wrapped around and while the server has been begun only
\* once, every object has an id of its own and every listed one is current.
FirstLife == begins <= 1 /\ accepted <= IdMod

Serving == pc \in {"head", "scan", "unlist", "delete", "close",
                   "hangup_unlist", "hangup", "hangup_delete"}

\* No other object was ever given the id of s.
Alone(s) == \A t \in Sessions \ {s} : obj[t] # "none" => connId[t] # connId[s]

\* The server still has the connection, and has not begun to drop it.
Kept == connections \ dying

\* While the loop runs, a listed connection is polled and scanned, and its
\* descriptor is the socket it was accepted on: the first match of
\* findConnection is the right one (TCPServer.cpp:355-416).
ListedIsPolled ==
  Serving /\ begins <= 1 =>
    \A s \in connections :
      /\ connFd[s] \in masterFds
      /\ connFd[s] <= maxFd
      /\ fdOwner[connFd[s]] = s

\* select() is never given a descriptor that was closed, so the process never
\* exits at TCPServer.cpp:216-219, over any number of begin and stop.
NeverExits == pc # "exited"

\* When the thread has ended no descriptor of the server is left open, whatever
\* was accepted or dropped in its last round (TCPServer.cpp:270-276).
AllDescriptorsClosed ==
  pc \in {"ended", "off"} =>
    \A f \in Fds : fdOwner[f] \in {Free, Foreign}

\* The ids the server calls active are those of the connections it keeps, at
\* every step of the three pieces of code that maintain the two sets and over any
\* number of lives.  When the counter has wrapped around an id may be missing that
\* two connections shared, but none is left over (TCPServer.cpp:244, :391, :424).
ActiveMirrorsList ==
  /\ active \subseteq {connId[s] : s \in Kept}
  /\ \A s \in Kept : Alone(s) => connId[s] \in active

\* A connection leaves the list only when its client is gone or when it hung
\* up itself: the recv() path takes -1 for the end of a connection, so a read
\* set with a stale bit would cut a healthy client off (TCPServer.cpp:236-256).
NoHealthyReap ==
  [][\A s \in connections \ connections' :
       begins <= 1 => peer[s] = "closed" \/ pc' = "hangup"]_vars

\* The server thread never closes a descriptor that another part of the
\* process owns, although a closed number may be reused at once.
ForeignUntouched ==
  [][ServerStep =>
       \A f \in Fds : fdOwner[f] = Foreign => fdOwner'[f] = Foreign]_vars

\* A deferred completion asks whether its connection is there, and then uses it,
\* on another thread than the one that drops connections.  The answer is right
\* when it is given, if the id is the connection's alone, and stays right until
\* the server begins to drop the connection: only then, in the server's first
\* life, can the reply meet a deleted object or the descriptor of another
\* (RESTServerConnection.cpp:64-79, TCPServer.cpp:243-255, :424-436).
VerdictHolds ==
  [][\A s \in Sessions :
       /\ Alone(s) /\ job[s] = "waiting" /\ job'[s] # "waiting" =>
            (job'[s] = "dropped" <=> s \notin Kept)
       /\ Serving /\ begins <= 1 /\ job[s] = "checked" /\ job'[s] = "stray" =>
            s \notin Kept]_vars

\* A handler that completes at once always answers the client that asked.
PromptReplyIsSent ==
  [][\A s \in Sessions :
       FirstLife /\ job[s] \notin {"waiting", "checked"} =>
         job'[s] = job[s] \/ job'[s] \in {"waiting", "sent"}]_vars

\* Seen from outside, the server is a SessionService: sockets are its sessions,
\* clients whose end is closed are the ones that left.
Promise == INSTANCE SessionService WITH
  open    <- \E f \in Fds : fdOwner[f] = ListenerSocket,
  closing <- pc = "shutdown",
  mayHangUp <- Service = "telnet",
  stage   <- sock,
  left    <- {s \in Sessions : peer[s] = "closed"}

\* The server serves clients in the order they came, each at most once, and
\* ends none of them while its client stays, short of a stop or a "bye".
KeepsPromise == Promise!Spec

\* stop() returns: the thread sees _running fall and ends.
StopReturns == (ctl = "joining") ~> (ctl = "idle")

\* A client that went away is noticed and its descriptor closed, whatever it
\* had sent before.
DropIsNoticed ==
  \A s \in Sessions :
    (sock[s] = "accepted" /\ peer[s] = "closed") ~> (sock[s] = "closed")

\* A running server that its clients have left says so in the end: of those that
\* were hung up, were found to be gone or never got past the queue no id stays in
\* the set, and the last accept passes out of the time that counts
\* (hasActiveConnections, TCPServer.cpp:154-168).
IdleInTheEnd ==
  Serving /\ (\A s \in Sessions : peer[s] # "open") ~>
    ~HasActiveConnections \/ ~running \/ \E s \in Sessions : peer[s] = "open"

\* No client waits in the listener's queue for ever.
QueuedIsServed == \A s \in Sessions : (sock[s] = "queued") ~> (sock[s] # "queued")

-----------------------------------------------------------------------------
(* Statements of the source that the code does not keep.                   *)

\* TCPServer.cpp:390, "every entry id unique": two listed connections never
\* have the same id.
EntryIdsUnique ==
  \A s, t \in connections : s # t => connId[s] # connId[t]

=============================================================================
