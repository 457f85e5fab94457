\* What http_parser.h says of data callbacks: a header comes in several pieces.
CONSTANTS
  Requests <- MCUnsigned
  Nouns <- MCNouns
  Json <- MCJson
  AuthName <- MCAuthName
  DateName <- MCDateName
  KeyName <- MCKeyName
  Secrets <- MCSecrets
  SignedAs <- MCSignedAs
  Signings <- MCSignings
  Times <- MCToday
  Window = 1
  MustAuthenticate = FALSE
  MaxRequests = 2
SPECIFICATION Spec
INVARIANT HeadersAsSent
\* The client may stop sending.
CHECK_DEADLOCK FALSE
