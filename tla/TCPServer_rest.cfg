\* REST connections, prompt and deferred handlers, three clients on two
\* descriptors; _entryCnt wraps around while its first ids are in use.
SPECIFICATION Spec
CONSTANTS
  MaxSessions = 3
  Fds = {3, 4, 5}
  IdMod = 2
  Backlog = 2
  MaxUnread = 1
  MaxForeign = 0
  MaxBegins = 1
  Service = "REST"
INVARIANTS
  TypeOK
  ActiveMirrorsList
PROPERTIES
  VerdictHolds
  PromptReplyIsSent
  KeepsPromise
\* After the only stop() and the last client nothing is left to do.
CHECK_DEADLOCK FALSE
