----------------------------- MODULE TelnetCodec -----------------------------
(***************************************************************************)
(* What libtelnet (src/Telnet/libtelnet.c) makes of the payload of a       *)
(* subnegotiation, and how it sends text.                                  *)
(*                                                                         *)
(* The variables of ENVIRON and MSSP are unpacked in place: the octets of  *)
(* a name or value are copied towards the front of the buffer, each string *)
(* ends in NUL there, and what the event hands over are positions in that  *)
(* buffer.  c is where the code reads, out where it writes.  Octets are    *)
(* numbers, as the codes of the protocol coincide: an ENVIRON VAR is a NUL.*)
(***************************************************************************)
EXTENDS Naturals, Sequences, FiniteSets

CONSTANT Behind   \* the octets that may lie behind a payload in memory

NUL == 0
LF == 10
CR == 13
SE == 240
SB == 250
IAC == 255

\* TELNET_ENVIRON_* and TELNET_MSSP_*
EnvironVar == {0, 3}
EnvironValue == 1
EnvironEsc == 2
EnvironCommand == {0, 1, 2}
MsspVar == 1
MsspVal == 2

\* TELNET_TTYPE_*
TtypeIs == 0
TtypeSend == 1

\* buffer[i] = octet; a write past the end shows as a new position.
Put(b, i, octet) == [j \in DOMAIN b \cup {i} |-> IF j = i THEN octet ELSE b[j]]

\* The C string at position p.
StringAt(b, p) ==
  LET end == CHOOSE e \in p..Len(b) :
               b[e] = NUL /\ \A j \in p..(e - 1) : b[j] # NUL
  IN  SubSeq(b, p, end - 1)

-----------------------------------------------------------------------------
\* Variant with a fault: the octet after an escape may end the string.
CopyBare(p, stops, esc) ==
  IF p.c > Len(p.b) \/ p.b[p.c] \in stops THEN p
  ELSE IF p.b[p.c] \in esc THEN [p EXCEPT !.c = @ + 1]
  ELSE [b |-> Put(p.b, p.out, p.b[p.c]), c |-> p.c + 1, out |-> p.out + 1]

\* A turn of the loop that copies an octet from c to out: it ends at one of stops,
\* and takes the octet after one of esc as it is.
Copy(p, stops, esc) ==
  LET s == IF p.b[p.c] \in esc THEN p.c + 1 ELSE p.c
  IN  IF p.c > Len(p.b) \/ p.b[p.c] \in stops THEN p
      ELSE [b |-> Put(p.b, p.out, p.b[s]), c |-> s + 1, out |-> p.out + 1]

\* All turns of that loop, and the end of the string.
Unpack(b, c, out, stops, esc) ==
  LET turn[n \in 0..Len(b)] ==
        IF n = 0 THEN [b |-> b, c |-> c, out |-> out] ELSE Copy(turn[n - 1], stops, esc)
      end == turn[Len(b)]
  IN  [b |-> Put(end.b, end.out, NUL), c |-> end.c, out |-> end.out + 1]

\* A turn of the loop that counts the entries: each starts with VAR or USERVAR.
Count(b, p) ==
  IF p.c > Len(b) THEN p
  ELSE [c |-> IF b[p.c] = EnvironEsc THEN p.c + 2 ELSE p.c + 1,
        count |-> IF b[p.c] \in EnvironVar THEN p.count + 1 ELSE p.count]

Entries(b) ==
  LET turn[n \in 0..Len(b)] ==
        IF n = 0 THEN [c |-> 2, count |-> 0] ELSE Count(b, turn[n - 1])
  IN  turn[Len(b)].count

\* Unpack an entry, with its type, its name and its value, if any.
EnvironEntry(p) ==
  LET name == Unpack(p.b, p.c + 1, p.out, EnvironVar \cup {EnvironValue}, {EnvironEsc})
      valued == name.c <= Len(name.b) /\ name.b[name.c] = EnvironValue
      end == IF valued
             THEN Unpack(name.b, name.c + 1, name.out, EnvironVar, {EnvironEsc})
             ELSE name
  IN  [b |-> end.b, c |-> end.c, out |-> end.out,
       values |-> Append(p.values, [type |-> p.b[p.c], var |-> p.out,
                                    value |-> IF valued THEN {name.out} ELSE {}])]

\* The entries one after another, each before the octets that are still to be read.
Environs(b) ==
  LET turn[n \in 0..Entries(b)] ==
        IF n = 0 THEN [b |-> b, c |-> 2, out |-> 1, values |-> <<>>]
        ELSE EnvironEntry(turn[n - 1])
  IN  turn[Entries(b)]

\* _environ_telnet: the event, if there is one
Environ(b) ==
  IF b = <<>> \/ b[1] \notin EnvironCommand THEN {}
  ELSE IF Len(b) = 1 THEN {[buffer |-> b, values |-> <<>>]}
  ELSE IF b[2] \notin EnvironVar \/ b[Len(b)] = EnvironEsc THEN {}
  ELSE {[buffer |-> Environs(b).b, values |-> Environs(b).values]}

-----------------------------------------------------------------------------
\* Unpack a string up to the next sign; a name is kept for the values that follow.
\* At the end of the payload the sign is read from behind it.
MsspEntry(p, behind) ==
  LET s == Unpack(p.b, p.c, p.out, {MsspVar, MsspVal}, {})
      r == [b |-> s.b, c |-> s.c + 1, out |-> s.out,
            type |-> IF s.c <= Len(s.b) THEN s.b[s.c] ELSE behind,
            var |-> p.var, values |-> p.values]
  IN  IF p.c > Len(p.b) THEN p
      ELSE IF p.type = MsspVar THEN [r EXCEPT !.var = p.out]
      ELSE [r EXCEPT !.values = Append(@, [var |-> p.var, value |-> p.out])]

\* Strings up to the end, the first of which is a name.  The event announces an entry
\* for each VAL.
Mssps(b, out, behind) ==
  LET turn[n \in 0..Len(b)] ==
        IF n = 0
        THEN [b |-> b, c |-> 2, out |-> out, type |-> MsspVar, var |-> 0, values |-> <<>>]
        ELSE MsspEntry(turn[n - 1], behind)
  IN  [buffer |-> turn[Len(b)].b, values |-> turn[Len(b)].values,
       size |-> Cardinality({i \in DOMAIN b : b[i] = MsspVal})]

\* Variant with a fault: the strings are written where they are read.
MsspAhead(b) ==
  IF b = <<>> \/ b[1] # MsspVar THEN {} ELSE {Mssps(b, 2, x) : x \in Behind}

\* _mssp_telnet: the event, if there is one, with the entries that are filled
Mssp(b) == IF b = <<>> \/ b[1] # MsspVar THEN {} ELSE {Mssps(b, 1, x) : x \in Behind}

-----------------------------------------------------------------------------
\* The string at c and those before it.
Arg(b, p) ==
  LET arg == StringAt(b, p.c)
  IN  IF p.c > Len(b) THEN p ELSE [c |-> p.c + Len(arg) + 1, args |-> Append(p.args, arg)]

Args(b) ==
  LET turn[n \in 0..Len(b)] ==
        IF n = 0 THEN [c |-> 1, args |-> <<>>] ELSE Arg(b, turn[n - 1])
  IN  turn[Len(b)].args

\* _zmp_telnet: the arguments, if the last of them ends
Zmp(b) == IF b = <<>> \/ b[Len(b)] # NUL THEN {} ELSE {Args(b)}

\* _ttype_telnet: the name that the client sends is copied and ended.
Ttype(b) ==
  IF b = <<>> \/ b[1] \notin {TtypeIs, TtypeSend} THEN {}
  ELSE IF b[1] = TtypeSend THEN {[cmd |-> TtypeSend, name |-> <<>>]}
  ELSE {[cmd |-> TtypeIs, name |-> StringAt(Append(Tail(b), NUL), 1)]}

-----------------------------------------------------------------------------
\* What is sent for an octet that is not sent as it is.
RawEscapes == [o \in {IAC} |-> <<IAC, IAC>>]
TextEscapes == [o \in {IAC, CR, LF} |->
                  CASE o = IAC -> <<IAC, IAC>> [] o = CR -> <<CR, NUL>>
                    [] o = LF -> <<CR, LF>>]

\* The text from l up to i, which is no call of _send if there is none.
Prior(b, l, i) == IF i = l THEN <<>> ELSE <<SubSeq(b, l, i - 1)>>

\* Variant with a fault: the text after an escape starts with the octet.
SendTwice(b, p, i, escapes) ==
  IF b[i] \notin DOMAIN escapes THEN p
  ELSE [l |-> i, sent |-> p.sent \o Prior(b, p.l, i) \o <<escapes[b[i]]>>]

\* A turn of the loop at octet i: the text that is not sent yet starts at l.
Send(b, p, i, escapes) ==
  IF b[i] \notin DOMAIN escapes THEN p
  ELSE [l |-> i + 1, sent |-> p.sent \o Prior(b, p.l, i) \o <<escapes[b[i]]>>]

\* The calls of _send for a text.
Pieces(b, escapes) ==
  LET turn[i \in 0..Len(b)] ==
        IF i = 0 THEN [l |-> 1, sent |-> <<>>] ELSE Send(b, turn[i - 1], i, escapes)
      end == turn[Len(b)]
  IN  end.sent \o Prior(b, end.l, Len(b) + 1)

TelnetSend(b) == Pieces(b, RawEscapes)

\* binary is TELNET_FLAG_TRANSMIT_BINARY.
TelnetSendText(b, binary) == Pieces(b, IF binary THEN RawEscapes ELSE TextEscapes)

\* telnet_vprintf, for what was formatted
TelnetPrintf(b) == Pieces(b, TextEscapes)

TelnetSubnegotiation(telopt, b) ==
  <<<<IAC, SB, telopt>>>> \o TelnetSend(b) \o <<<<IAC, SE>>>>

=============================================================================
