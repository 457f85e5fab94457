\* Terminal connections, which hang up through close_socket: begin, stop, begin,
\* stop on the same object, with another part of the process taking and freeing
\* descriptors.
SPECIFICATION Spec
VIEW TerminalView
CONSTANTS
  MaxSessions = 3
  Fds = {3, 4, 5}
  IdMod = 3
  Backlog = 2
  MaxUnread = 1
  MaxForeign = 1
  MaxBegins = 2
  Service = "telnet"
INVARIANTS
  NeverExits
  ListedIsPolled
  AllDescriptorsClosed
PROPERTIES
  NoHealthyReap
  ForeignUntouched
