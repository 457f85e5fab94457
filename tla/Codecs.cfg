\* The codecs on all inputs up to some octets, characters or lines.
CONSTANTS
  Format <- MCFormat
  MaxParts = 2
  MaxQueries = 2
  BlockSize = 4
  LengthBytes = 2
  HashBytes = 3
  Behind = {0, 1, 2, 9}
  MaxOctets = 7
  MaxUrl = 6
  MaxLines = 6
  MaxDecode = 4
SPECIFICATION Spec
INVARIANTS EnvironExact StringsExact SendReadable UrlKept HelpExact HashExact DecodeInverts
\* The longest inputs have no successor.
CHECK_DEADLOCK FALSE
