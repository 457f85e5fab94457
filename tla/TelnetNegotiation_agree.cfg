\* One option for each of the four cases: asked for at the start or not,
\* supported by the server or not.
SPECIFICATION LiveSpec
CONSTANTS
  Options = {"ECHO", "NAWS"}
  MaxAsks = 3
INVARIANTS
  Agreement
  LastWordCounts
  OnlyOffered
  FewInFlight
PROPERTIES
  Settles
CHECK_DEADLOCK FALSE
