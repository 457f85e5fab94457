------------------------------ MODULE RESTutils ------------------------------
\* urldecode and parse_query of src/RESTutils.cpp.  Characters are their codes.
EXTENDS Naturals, Sequences, FiniteSets

Plus == 43
Percent == 37
Ampersand == 38
Equals == 61

\* isspace, for the C locale
Blank == 32
Blanks == 9..13 \cup {Blank}

\* from_hex: what is no digit counts as 0
FromHex(ch) ==
  IF ch \in 48..57 THEN ch - 48
  ELSE IF ch \in 97..102 THEN ch - 87
  ELSE IF ch \in 65..70 THEN ch - 55
  ELSE 0

\* Variant with a fault: an escape at the very end is not decoded.
DecodeShort(s, p) ==
  IF p.i > Len(s) THEN p
  ELSE IF s[p.i] = Percent /\ Len(s) > p.i + 2
  THEN [i |-> p.i + 3,
        result |-> Append(p.result, FromHex(s[p.i + 1]) * 16 + FromHex(s[p.i + 2]))]
  ELSE [i |-> p.i + 1, result |-> Append(p.result, IF s[p.i] = Plus THEN Blank ELSE s[p.i])]

\* A turn of the loop that decodes s: where it reads, and what it has read.
Decode(s, p) ==
  IF p.i > Len(s) THEN p
  ELSE IF s[p.i] = Percent /\ Len(s) >= p.i + 2
  THEN [i |-> p.i + 3,
        result |-> Append(p.result, FromHex(s[p.i + 1]) * 16 + FromHex(s[p.i + 2]))]
  ELSE [i |-> p.i + 1, result |-> Append(p.result, IF s[p.i] = Plus THEN Blank ELSE s[p.i])]

\* urldecode
Urldecode(s) ==
  LET turn[n \in 0..Len(s)] ==
        IF n = 0 THEN [i |-> 1, result |-> <<>>] ELSE Decode(s, turn[n - 1])
  IN  turn[Len(s)].result

\* The words that operator>> reads: an & was made a blank.
Words(s) ==
  LET Break(i) == s[i] \in Blanks \cup {Ampersand}
      Starts == {i \in DOMAIN s : ~Break(i) /\ (i = 1 \/ Break(i - 1))}
      Word(i) == LET end == CHOOSE e \in i..Len(s) :
                              /\ \A j \in i..e : ~Break(j)
                              /\ e = Len(s) \/ Break(e + 1)
                 IN  SubSeq(s, i, end)
  IN  [n \in 1..Cardinality(Starts) |->
         Word(CHOOSE i \in Starts : Cardinality({j \in Starts : j <= i}) = n)]

\* The place of the first = in a word.
Sign(w) == {i \in DOMAIN w : w[i] = Equals /\ \A j \in 1..(i - 1) : w[j] # Equals}

\* parse_query: the last one of a key counts, and one without = is left out
ParseQuery(s) ==
  LET words == Words(s)
      Key(n) == {Urldecode(SubSeq(words[n], 1, i - 1)) : i \in Sign(words[n])}
      Value(n) == LET i == CHOOSE i \in Sign(words[n]) : TRUE
                  IN  Urldecode(SubSeq(words[n], i + 1, Len(words[n])))
  IN  [k \in UNION {Key(n) : n \in DOMAIN words} |->
         Value(CHOOSE n \in DOMAIN words :
                 k \in Key(n) /\ \A m \in (n + 1)..Len(words) : k \notin Key(m))]

=============================================================================
