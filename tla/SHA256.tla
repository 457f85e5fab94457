------------------------------- MODULE SHA256 -------------------------------
(***************************************************************************)
(* How SHA256 (src/hash-library/sha256.cpp) cuts what it is given into     *)
(* blocks and pads the last one.  What processBlock computes is left out:  *)
(* the hash is the sequence of the blocks that went into it.  And how      *)
(* hash-library/hmac.h makes a signature of it.                            *)
(***************************************************************************)
EXTENDS Naturals, Sequences

CONSTANTS
  BlockSize,      \* octets of a block: 64
  LengthBytes,    \* octets at the end of the last block for the length: 8
  HashBytes,      \* octets of a hash: 32
  HashOctet(_, _) \* octet i of the hash of some blocks

\* reset
Reset == [hash |-> <<>>, buffer |-> [i \in 1..BlockSize |-> 0],
          bufferSize |-> 0, numBytes |-> 0]

\* buffer with data from position at on
Fill(buffer, at, data) ==
  [i \in 1..BlockSize |-> IF i \in at..(at + Len(data) - 1) THEN data[i - at + 1]
                          ELSE buffer[i]]

\* add: complete the buffer, if something is in it, then whole blocks of data,
\* and keep what remains.
Add(s, data) ==
  LET room == BlockSize - s.bufferSize
      fill == IF s.bufferSize = 0 THEN 0
              ELSE IF Len(data) < room THEN Len(data) ELSE room
      buffer == Fill(s.buffer, s.bufferSize + 1, SubSeq(data, 1, fill))
      full == s.bufferSize + fill = BlockSize
      blocks == (Len(data) - fill) \div BlockSize
      kept == SubSeq(data, fill + blocks * BlockSize + 1, Len(data))
      size == IF full THEN 0 ELSE s.bufferSize + fill
  IN  [hash |-> s.hash \o (IF full THEN <<buffer>> ELSE <<>>)
                       \o [n \in 1..blocks |->
                             SubSeq(data, fill + (n - 1) * BlockSize + 1, fill + n * BlockSize)],
       buffer |-> Fill(buffer, size + 1, kept),
       bufferSize |-> size + Len(kept),
       numBytes |-> s.numBytes + (blocks + (IF full THEN 1 ELSE 0)) * BlockSize]

\* Octets up to the length, which goes to the next block when it does not fit.
PaddedLength(s) ==
  LET bits == s.bufferSize * 8 + 1
      target == (BlockSize - LengthBytes) * 8
      lower == bits % (BlockSize * 8)
  IN  (IF lower <= target THEN bits + target - lower
       ELSE bits + BlockSize * 8 + target - lower) \div 8

\* Octet k of the length in bits, the highest first.
LengthOctet(s, k) ==
  ((8 * (s.numBytes + s.bufferSize)) \div 256 ^ (LengthBytes - k)) % 256

\* processBuffer: octet i of the padded buffer, which may be a block longer
Padding(s, i) ==
  CASE i <= s.bufferSize -> s.buffer[i]
    [] i = s.bufferSize + 1 -> 128
    [] i > s.bufferSize + 1 /\ i <= PaddedLength(s) -> 0
    [] OTHER -> LengthOctet(s, i - PaddedLength(s))

\* Variant with a fault: the padding counts as part of the message.
GetHashKeeps(s) ==
  LET first == [i \in 1..BlockSize |-> Padding(s, i)]
      extra == [i \in 1..BlockSize |-> Padding(s, BlockSize + i)]
      digest == s.hash \o <<first>> \o (IF PaddedLength(s) > BlockSize THEN <<extra>> ELSE <<>>)
  IN  [digest |-> digest, state |-> [s EXCEPT !.buffer = first, !.hash = digest]]

\* getHash: the padding stays in the buffer, the hash is put back
GetHash(s) ==
  LET first == [i \in 1..BlockSize |-> Padding(s, i)]
      extra == [i \in 1..BlockSize |-> Padding(s, BlockSize + i)]
  IN  [digest |-> s.hash \o <<first>>
                         \o (IF PaddedLength(s) > BlockSize THEN <<extra>> ELSE <<>>),
       state |-> [s EXCEPT !.buffer = first]]

-----------------------------------------------------------------------------
Digest(s) == [i \in 1..HashBytes |-> HashOctet(GetHash(s).digest, i)]

\* a ^ b, for octets
Xor(a, b) ==
  LET bit(n) == n * ((a \div n + b \div n) % 2)
  IN  bit(1) + bit(2) + bit(4) + bit(8) + bit(16) + bit(32) + bit(64) + bit(128)

Masked(key, mask) == [i \in DOMAIN key |-> Xor(key[i], mask)]

\* Variant with a fault: a key of a whole block is hashed too.
UsedKeyStrict(key) ==
  Fill([i \in 1..BlockSize |-> 0], 1,
       IF Len(key) < BlockSize THEN key ELSE Digest(Add(Reset, key)))

\* The key with zeros up to a block, or the hash of a longer one
UsedKey(key) ==
  Fill([i \in 1..BlockSize |-> 0], 1,
       IF Len(key) <= BlockSize THEN key ELSE Digest(Add(Reset, key)))

\* hmac: the last hash, as the blocks that went into it.  The key is masked with
\* 0x36, and turned into the one masked with 0x5C later.
Hmac(data, key) ==
  LET inner == Masked(UsedKey(key), 54)
      inside == Digest(Add(Add(Reset, inner), data))
  IN  GetHash(Add(Add(Reset, Masked(inner, Xor(92, 54))), inside)).digest

=============================================================================
