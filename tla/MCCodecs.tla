------------------------------ MODULE MCCodecs ------------------------------
\* The codecs on every input up to a bound.
EXTENDS Codecs

CONSTANTS
  MaxOctets,             \* bound: octets of a subnegotiation or of text, and
                         \* calls of a hash
  MaxUrl,                \* bound: characters of an URL after its prefix
  MaxLines,              \* bound: lines of a help file
  MaxDecode              \* bound: characters of a decoded word

MCLines == {[kind |-> "start", name |-> "a"], [kind |-> "start", name |-> "b"],
          [kind |-> "label", name |-> "b"], [kind |-> "end", name |-> ""],
          [kind |-> "text", name |-> ""]}

MCFormat ==
  [environ  |-> [prefix |-> <<>>, alphabet |-> {0, 1, 2, 3, 9}, max |-> MaxOctets],
   mssp     |-> [prefix |-> <<>>, alphabet |-> {0, 1, 2, 9}, max |-> MaxOctets],
   send     |-> [prefix |-> <<>>, alphabet |-> {0, 9, 10, 13, 255}, max |-> MaxOctets],
   url      |-> [prefix |-> <<>>, alphabet |-> {"/", "?", "#", ":", "@", "a"}, max |-> MaxUrl],
   absolute |-> [prefix |-> <<"a", ":", "/", "/">>,
                 alphabet |-> {"/", ":", "@", "a"}, max |-> MaxUrl + 2],
   query    |-> [prefix |-> <<"/", "?">>, alphabet |-> {"&", "=", "a", "b"}, max |-> MaxUrl],
   help     |-> [prefix |-> <<>>, alphabet |-> MCLines, max |-> MaxLines],
   hash     |-> [prefix |-> <<>>, alphabet |-> {0, 1, 2, BlockSize, BlockSize + 1, Ask},
                 max |-> MaxOctets - 1],
   hmac     |-> [prefix |-> <<>>, alphabet |-> 0..(2 * BlockSize + 1), max |-> 2],
   decode   |-> [prefix |-> <<>>, alphabet |-> {32, 37, 38, 43, 52, 61, 97, 255}, max |-> MaxDecode]]

=============================================================================
