\* Three connections on a counter of two values: the third takes an id in use.
SPECIFICATION Spec
CONSTANTS
  MaxSessions = 3
  Fds = {3, 4, 5, 6}
  IdMod = 2
  Backlog = 2
  MaxUnread = 1
  MaxForeign = 0
  MaxBegins = 1
  Service = "REST"
INVARIANTS
  EntryIdsUnique
CHECK_DEADLOCK FALSE
