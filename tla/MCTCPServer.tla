------------------------------ MODULE MCTCPServer ------------------------------
(* Instances of TCPServer with terminals only.                             *)
EXTENDS TCPServer

\* Ids and the time of the last accept are read by hasActiveConnections and by
\* the completion of a REST request alone: without requests, states that
\* differ only in them go on alike.
TerminalView == <<control, thread, connections, accepted, obj, connFd, job, kernel>>

=============================================================================
