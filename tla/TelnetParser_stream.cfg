\* Ordinary data, a command, a negotiation and subnegotiations that fit and do
\* not fit, cut into chunks of up to four octets.
CONSTANTS
  Octets = {"x", "IAC", "SB", "SE", "WILL", "NOP"}
  BufferLimit = 2
  MaxChunk = 4
SPECIFICATION Spec
INVARIANT TypeOK
PROPERTY KeepsStream
