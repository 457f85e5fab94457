\* What must happen in the end, with enough descriptors for every client.
SPECIFICATION LiveSpec
CONSTANTS
  MaxSessions = 2
  Fds = {3, 4, 5, 6}
  IdMod = 2
  Backlog = 1
  MaxUnread = 1
  MaxForeign = 1
  MaxBegins = 1
  Service = "telnet"
PROPERTIES
  StopReturns
  DropIsNoticed
  QueuedIsServed
  IdleInTheEnd
