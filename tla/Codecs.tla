------------------------------- MODULE Codecs -------------------------------
(***************************************************************************)
(* The program's codecs on inputs of any length, against what the formats  *)
(* mean.  A state is an input of one of them; a step makes it longer.      *)
(***************************************************************************)
EXTENDS Integers, Sequences, FiniteSets

CONSTANTS
  MaxParts, MaxQueries,               \* of Yuarel
  BlockSize, LengthBytes, HashBytes,  \* of SHA256
  Behind,                             \* of TelnetCodec
  Format                 \* for each codec: how inputs start (prefix), what they
                         \* go on with (alphabet), and how far (max)

Octets == 0..255

\* The length of a message fits into a block, with room left for an octet of it.
ASSUME SizesAssumption ==
  /\ MaxParts \in Nat /\ MaxQueries \in Nat \ {0}
  /\ Behind \subseteq Octets /\ Behind # {}
  /\ BlockSize \in Octets \ {0} /\ LengthBytes \in 0..(BlockSize - 1) /\ HashBytes \in Nat

\* An input of the hash: add so many octets, or ask for the digest.
Ask == -1

Lines == [kind : {"start", "label", "end", "text"}, name : STRING]

ASSUME FormatAssumption ==
  /\ DOMAIN Format = {"environ", "mssp", "send", "url", "absolute", "query", "help",
                      "hash", "hmac", "decode"}
  /\ \A c \in DOMAIN Format : Format[c].max \in Nat
  /\ \A c \in {"environ", "mssp", "send", "decode"} :
       Format[c].prefix = <<>> /\ Format[c].alphabet \subseteq Octets
  /\ \A c \in {"url", "absolute"} : Format[c].prefix \in Seq(Format[c].alphabet)
  /\ Format["query"].prefix = <<"/", "?">> /\ "#" \notin Format["query"].alphabet
  /\ Format["help"].prefix = <<>> /\ Format["help"].alphabet \subseteq Lines
  /\ Format["hash"].prefix = <<>> /\ Format["hash"].alphabet \subseteq Nat \cup {Ask}
  /\ Format["hmac"].prefix = <<>> /\ Format["hmac"].alphabet \subseteq Nat

T == INSTANCE TelnetCodec
Y == INSTANCE Yuarel
H == INSTANCE HelpFile
R == INSTANCE RESTutils

\* A hash of few octets.
HashOctet(blocks, i) ==
  LET sum[n \in 0..Len(blocks) * BlockSize] ==
        IF n = 0 THEN i
        ELSE (sum[n - 1] * 31 + blocks[(n - 1) \div BlockSize + 1][((n - 1) % BlockSize) + 1]) % 251
  IN  sum[Len(blocks) * BlockSize]

D == INSTANCE SHA256

VARIABLES codec, input
vars == <<codec, input>>

Init == codec \in DOMAIN Format /\ input = Format[codec].prefix

Extend(x) ==
  /\ Len(input) < Len(Format[codec].prefix) + Format[codec].max
  /\ input' = Append(input, x)
  /\ UNCHANGED codec

Next == \E x \in Format[codec].alphabet : Extend(x)

Spec == Init /\ [][Next]_vars

-----------------------------------------------------------------------------
(* Telnet.                                                                 *)

Flat(seqs) ==
  LET upto[n \in 0..Len(seqs)] == IF n = 0 THEN <<>> ELSE upto[n - 1] \o seqs[n]
  IN  upto[Len(seqs)]

UpToNul(s) ==
  LET n == CHOOSE n \in 0..Len(s) :
             (\A i \in 1..n : s[i] # T!NUL) /\ (n = Len(s) \/ s[n + 1] = T!NUL)
  IN  SubSeq(s, 1, n)

\* The n-th position of a set of them, in their order.
Nth(S, n) == CHOOSE i \in S : Cardinality({j \in S : j <= i}) = n

\* The octets of input at the positions in S, as a C string.
TextOf(S) == UpToNul([n \in 1..Cardinality(S) |-> input[Nth(S, n)]])

\* An octet is meant literally if an ESC announces it.
Literal == LET lit[i \in 1..Len(input)] ==
                 i > 2 /\ input[i - 1] = T!EnvironEsc /\ ~lit[i - 1]
           IN  {i \in DOMAIN input : lit[i]}
Code(i, codes) == i \notin Literal /\ input[i] \in codes

\* The strings of the entry from start to end, without the ESC.
EntryMeaning(start, end) ==
  LET octets == {i \in (start + 1)..end : ~Code(i, {T!EnvironEsc})}
      signs == {i \in octets : Code(i, {T!EnvironValue})}
  IN  IF signs = {} THEN [type |-> input[start], var |-> TextOf(octets), value |-> {}]
      ELSE LET v == Nth(signs, 1)
           IN  [type |-> input[start], var |-> TextOf({i \in octets : i < v}),
                value |-> {TextOf({i \in octets : i > v})}]

EnvironMeaning ==
  LET starts == {i \in 2..Len(input) : Code(i, T!EnvironVar)}
  IN  [n \in 1..Cardinality(starts) |->
         EntryMeaning(Nth(starts, n),
           IF n = Cardinality(starts) THEN Len(input) ELSE Nth(starts, n + 1) - 1)]

\* Unpacking the variables of ENVIRON in the buffer they came in stays in it, and
\* destroys none of them before it is read (_environ_telnet).
EnvironExact ==
  codec = "environ" =>
    \A e \in T!Environ(input) :
      /\ DOMAIN e.buffer = DOMAIN input
      /\ [n \in DOMAIN e.values |->
            [type |-> e.values[n].type,
             var |-> T!StringAt(e.buffer, e.values[n].var),
             value |-> {T!StringAt(e.buffer, p) : p \in e.values[n].value}]]
           = EnvironMeaning

\* The same of MSSP, whatever lies behind the payload: each value comes with the last
\* name before it.  An entry that the event announces is filled, unless the payload ends
\* right after its VAL.
MsspExact ==
  codec = "mssp" =>
    \A e \in T!Mssp(input) :
      LET vals == {i \in DOMAIN input : input[i] = T!MsspVal}
          Sign(i) == input[i] \in {T!MsspVar, T!MsspVal}
          Run(i) == TextOf({j \in (i + 1)..Len(input) : \A k \in (i + 1)..j : ~Sign(k)})
          Name(i) == CHOOSE j \in 1..i : /\ input[j] = T!MsspVar
                                         /\ \A k \in (j + 1)..i : input[k] # T!MsspVar
      IN  /\ DOMAIN e.buffer \subseteq DOMAIN input
          /\ e.size = Cardinality(vals)
          /\ Len(e.values) = Cardinality(vals \ {Len(input)})
          /\ \A n \in DOMAIN e.values :
               /\ T!StringAt(e.buffer, e.values[n].var) = Run(Name(Nth(vals, n)))
               /\ T!StringAt(e.buffer, e.values[n].value) = Run(Nth(vals, n))

\* The arguments of ZMP and the name of a terminal are the strings sent.
ZmpExact ==
  codec = "mssp" =>
    /\ \A args \in T!Zmp(input) : Flat([n \in DOMAIN args |-> Append(args[n], T!NUL)]) = input
    /\ T!Zmp(input) = {} <=> input = <<>> \/ input[Len(input)] # T!NUL
    /\ \A e \in T!Ttype(input) :
         e.name = IF input[1] = T!TtypeIs THEN UpToNul(Tail(input)) ELSE <<>>

\* No string that a client sends in MSSP, ZMP or TERMINAL-TYPE gets lost in the
\* buffer it came in, and none is read past its end (_mssp_telnet, _zmp_telnet,
\* _ttype_telnet).
StringsExact == MsspExact /\ ZmpExact

\* What a receiver makes of an octet: -1 stands for a command.  In a text it reads
\* CR NUL and CR LF as one character.
Take(p, octet, text) ==
  CASE p.after = "IAC" -> [after |-> "none",
                           read |-> Append(p.read, IF octet = T!IAC THEN T!IAC ELSE -1)]
    [] p.after = "CR" -> [after |-> "none",
                          read |-> Append(p.read, CASE octet = T!NUL -> T!CR
                                                    [] octet = T!LF -> T!LF
                                                    [] OTHER -> -1)]
    [] p.after = "none" /\ octet = T!IAC -> [p EXCEPT !.after = "IAC"]
    [] p.after = "none" /\ octet = T!CR /\ text -> [p EXCEPT !.after = "CR"]
    [] OTHER -> [p EXCEPT !.read = Append(@, octet)]

Reading(octets, text) ==
  LET upto[n \in 0..Len(octets)] ==
        IF n = 0 THEN [after |-> "none", read |-> <<>>]
        ELSE Take(upto[n - 1], octets[n], text)
  IN  upto[Len(octets)]

\* What it makes of all of them; they may not end within a pair.
Read(octets, text) ==
  LET end == Reading(octets, text)
  IN  IF end.after = "none" THEN end.read ELSE Append(end.read, -1)

\* What is sent is read as it was meant: no octet of a text or of a
\* subnegotiation, wherever it stands between the pieces, becomes a command or a
\* part of one, and in a text a line end stays one (telnet_send, telnet_send_text,
\* telnet_vprintf, telnet_subnegotiation).
SendReadable ==
  codec = "send" =>
    LET sub == Flat(T!TelnetSubnegotiation(9, input)) IN
      /\ Read(Flat(T!TelnetSend(input)), FALSE) = input
      /\ Read(Flat(T!TelnetSendText(input, TRUE)), FALSE) = input
      /\ Read(Flat(T!TelnetSendText(input, FALSE)), TRUE) = input
      /\ Read(Flat(T!TelnetPrintf(input)), TRUE) = input
      /\ SubSeq(sub, 1, 3) = <<T!IAC, T!SB, 9>>
      /\ Read(SubSeq(sub, 4, Len(sub)), FALSE) = input \o <<-1>>

-----------------------------------------------------------------------------
(* URLs.                                                                   *)

\* part with what stands before and after it, if it is there
Around(before, part, after) ==
  IF part = {} THEN <<>> ELSE before \o (CHOOSE p \in part : TRUE) \o after

\* The parts put together again.
Whole(url) ==
  Around(<<>>, url.scheme, <<":", "/", "/">>)
  \o Around(<<>>, url.username, <<":">>) \o Around(<<>>, url.password, <<"@">>)
  \o Around(<<>>, url.host, <<>>) \o Around(<<":">>, url.port, <<>>)
  \o Around(<<"/">>, url.path, <<>>) \o Around(<<"?">>, url.query, <<>>)
  \o Around(<<"#">>, url.fragment, <<>>)

\* Where the words of a path start, and the word from there.
Starts(path) == {i \in DOMAIN path : path[i] # "/" /\ (i = 1 \/ path[i - 1] = "/")}
Word(path, i) ==
  LET end == CHOOSE e \in i..Len(path) :
               /\ \A j \in i..e : path[j] # "/"
               /\ e = Len(path) \/ path[e + 1] = "/"
  IN  SubSeq(path, i, end)

\* Cutting an URL in place loses no part of it, and the path REST_URL keeps is
\* the first parts of it that are not empty (yuarel_parse, yuarel_split_path).
UrlParts ==
  codec \in {"url", "absolute"} =>
    LET r == Y!Parse(input)
        path == Around(<<>>, r.url.path, <<>>)
        count == Cardinality(Starts(path))
    IN  /\ r.ok => Whole(r.url) = input
        /\ Y!Path(input) = [n \in 1..(IF count < MaxParts THEN count ELSE MaxParts) |->
                              Word(path, Nth(Starts(path), n))]

\* Where the pieces of s between separators end, and where the n-th starts.
PieceEnds(s, separator) == {i \in DOMAIN s : s[i] = separator} \cup {Len(s) + 1}
PieceStart(s, separator, n) == IF n = 1 THEN 1 ELSE Nth(PieceEnds(s, separator), n - 1) + 1
Piece(s, separator, n) ==
  SubSeq(s, PieceStart(s, separator, n), Nth(PieceEnds(s, separator), n) - 1)

\* Of the parameters of a query none gets lost in the ones before: those up to
\* the limit are split at their first =, the last takes what is left, and of two
\* with the same key REST_URL keeps the first (yuarel_parse_query,
\* on_message_complete).
QueryParts ==
  codec = "query" =>
    LET query == SubSeq(input, 3, Len(input))
        pieces == Cardinality(PieceEnds(query, "&"))
        count == IF pieces < MaxQueries THEN pieces ELSE MaxQueries
        text(n) == IF n < count THEN Piece(query, "&", n)
                   ELSE SubSeq(query, PieceStart(query, "&", n), Len(query))
        key(n) == Piece(text(n), "=", 1)
        val(n) == SubSeq(text(n), Len(key(n)) + 2, Len(text(n)))
        kept == {n \in 1..count : \A m \in 1..(n - 1) : key(m) # key(n)}
    IN  Y!Queries(input) =
          IF query = <<>> THEN <<>>
          ELSE [k \in {key(n) : n \in kept} |->
                  val(CHOOSE n \in kept : key(n) = k)]

\* Taking an URL apart in place loses nothing of it: not its parts, not the words
\* of its path, not the parameters of its query, up to the limits.
UrlKept == UrlParts /\ QueryParts

-----------------------------------------------------------------------------
(* The help file, digests, and the words of a query.                       *)

Kind(i) == input[i].kind
Ends == {i \in DOMAIN input : Kind(i) = "end"}

\* The start of the topic that is open after line n, if one is.
Open(n) == {s \in 1..n : Kind(s) = "start" /\ \A i \in (s + 1)..n : Kind(i) \notin {"start", "end"}}

\* The last name that stands in that topic.
Names(n) == {i \in 1..n : Kind(i) \in {"start", "label"} /\ \E s \in Open(n) : s <= i}
Name(n) == IF Names(n) = {} THEN ""
           ELSE input[CHOOSE i \in Names(n) : \A j \in Names(n) : j <= i].name

\* Its lines, or all of them if there is none.
Text(n) == IF Open(n) = {} THEN SubSeq(input, 1, n)
           ELSE SubSeq(input, 1 + CHOOSE s \in Open(n) : TRUE, n)

\* A topic is found under the last name that stands in it, from its start to its
\* end, with the lines between them; an end without a start gives what is before
\* it to the topic without a name (loadHelpFile, helpForTopic).
HelpExact ==
  codec = "help" =>
    LET topics == H!LoadHelpFile(input) IN
      /\ DOMAIN topics = {Name(e - 1) : e \in Ends}
      /\ \A e \in Ends :
           (\A f \in Ends : f > e => Name(f - 1) # Name(e - 1)) =>
             H!HelpForTopic(topics, input, Name(e - 1)) = Text(e - 1)

\* Octet i of the message, none of the padding's.
Octet(i) == 1000 + i

\* What the calls up to the n-th leave.
Hashed == LET after[n \in 0..Len(input)] ==
                IF n = 0 THEN [state |-> D!Reset, size |-> 0]
                ELSE LET p == after[n - 1] IN
                  IF input[n] = Ask THEN [p EXCEPT !.state = D!GetHash(@).state]
                  ELSE [state |-> D!Add(p.state, [i \in 1..input[n] |-> Octet(p.size + i)]),
                        size |-> p.size + input[n]]
          IN  after[Len(input)]

\* A message padded to whole blocks.
Padded(message) ==
  LET size == Len(message)
      total == CHOOSE t \in (size + 1 + LengthBytes)..(size + LengthBytes + BlockSize) :
                 t % BlockSize = 0
      octet(i) == IF i <= size THEN message[i] ELSE IF i = size + 1 THEN 128
                  ELSE IF i <= total - LengthBytes THEN 0
                  ELSE ((8 * size) \div 256 ^ (total - i)) % 256
  IN  [n \in 1..(total \div BlockSize) |->
         [i \in 1..BlockSize |-> octet((n - 1) * BlockSize + i)]]

DigestExact ==
  codec = "hash" =>
    D!GetHash(Hashed.state).digest = Padded([i \in 1..Hashed.size |-> Octet(i)])

\* The signature of RFC 2104.
HmacExact ==
  codec = "hmac" /\ Len(input) = 2 =>
    LET key == [i \in 1..input[1] |-> i]
        data == [i \in 1..input[2] |-> Octet(i)]
        hash(message) == [i \in 1..HashBytes |-> HashOctet(Padded(message), i)]
        short == IF Len(key) <= BlockSize THEN key ELSE hash(key)
        masked(mask) == [i \in 1..BlockSize |->
                           D!Xor(IF i <= Len(short) THEN short[i] ELSE 0, mask)]
    IN  D!Hmac(data, key) = Padded(masked(92) \o hash(masked(54) \o data))

\* A digest is that of the whole message, padded to whole blocks, however it was
\* given to add and whenever a digest was asked for in between, and a signature is
\* made of such digests, for keys shorter and longer than a block (add, getHash,
\* hmac).
HashExact == DigestExact /\ HmacExact

Hex(d) == IF d < 10 THEN 48 + d ELSE 87 + d
\* A percent sign and two digits for each octet.
Encode(s) ==
  [j \in 1..(3 * Len(s)) |->
     LET octet == s[(j - 1) \div 3 + 1] IN
     CASE j % 3 = 1 -> 37 [] j % 3 = 2 -> Hex(octet \div 16) [] j % 3 = 0 -> Hex(octet % 16)]

\* What a client escapes comes back as it was, wherever the escapes stand, and a
\* query of escaped words has them as its keys and values (urldecode, parse_query).
DecodeInverts ==
  codec = "decode" /\ input # <<>> =>
    LET key == Encode(input)
        value == Encode(Tail(input))
    IN  /\ R!Urldecode(key) = input
        /\ R!ParseQuery(key \o <<61>> \o value \o <<38, 97, 38>> \o (value \o <<61>>))
             = [k \in {input, Tail(input)} |-> IF k = input THEN Tail(input) ELSE <<>>]

=============================================================================
