\* Two requests on one connection, with and without a body, with an absolute url,
\* chunks, Connection: close, octets that are not allowed, and a signature made today,
\* on another day or for another request, cut into chunks in every way.
CONSTANTS
  Requests <- MCRequests
  Nouns <- MCNouns
  Json <- MCJson
  AuthName <- MCAuthName
  DateName <- MCDateName
  KeyName <- MCKeyName
  Secrets <- MCSecrets
  SignedAs <- MCSignedAs
  Signings <- MCSignings
  Times <- MCTimes
  Window = 1
  MustAuthenticate = TRUE
  MaxRequests = 2
SPECIFICATION Spec
VIEW RequestView
INVARIANTS TypeOK RequestAsSent Framed DiesOfItsBody OnlySignedRun
\* The client may stop sending.
CHECK_DEADLOCK FALSE
