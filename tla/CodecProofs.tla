---------------------------- MODULE CodecProofs ----------------------------
(***************************************************************************)
(* The codecs of Codecs do what their formats mean for inputs of any       *)
(* length.  A loop of the program is a function of its turns: first, that  *)
(* function has the value of the body at each turn (..Turns); then what    *)
(* holds after n turns follows by induction (UpTo).                        *)
(***************************************************************************)
EXTENDS Codecs, TLAPS, NaturalsInduction, SequenceTheorems, FiniteSetTheorems,
        WellFoundedInduction
-----------------------------------------------------------------------------
(* Induction, and the positions of a set in their order.                   *)

\* A set of numbers has a least.
LEMMA LeastOf ==
  ASSUME NEW S \in SUBSET Nat, S # {}
  PROVE  \E m \in S : \A n \in S : m <= n
<1>1. IsWellFoundedOn(OpToRel(<, Nat), Nat)
  BY NatLessThanWellFounded
<1>2. PICK x \in S : \A y \in S : ~(<<y, x>> \in OpToRel(<, Nat))
  BY <1>1, WFMin
<1>3. ASSUME NEW y \in S
      PROVE  x <= y
  <2>1. x \in Nat /\ y \in Nat
    OBVIOUS
  <2>2. ~(<<y, x>> \in OpToRel(<, Nat))
    BY <1>2
  <2>3. <<y, x>> \in Nat \X Nat
    BY <2>1
  <2>4. ~(y < x)
    BY <2>2, <2>3, Zenon DEF OpToRel
  <2> QED
    BY <2>1, <2>4
<1> QED
  BY <1>3

\* Induction up to a number, over the set of those for which something holds.
LEMMA UpTo ==
  ASSUME NEW N \in Nat, NEW C, 0 \in C,
         \A n \in 1..N : n - 1 \in C => n \in C
  PROVE  \A n \in 0..N : n \in C
<1> DEFINE S == {n \in 0..N : n \notin C}
<1>1. SUFFICES ASSUME S # {}
               PROVE  FALSE
  OBVIOUS
<1>2. PICK m \in S : \A k \in S : m <= k
  <2>1. S \in SUBSET Nat
    OBVIOUS
  <2> HIDE DEF S
  <2> QED
    BY <1>1, <2>1, LeastOf
<1>3. m \in 1..N /\ m - 1 \in 0..N /\ ~(m <= m - 1)
  OBVIOUS
<1>4. m - 1 \in C
  BY <1>2, <1>3
<1> QED
  BY <1>3, <1>4

\* A subsequence of one element.
LEMMA SubSeqOne ==
  ASSUME NEW X, NEW s \in Seq(X), NEW l \in 1..Len(s)
  PROVE  SubSeq(s, l, l) = <<s[l]>>
<1>1. l \in Int /\ l + 1 \in Int /\ l < l + 1 /\ l \in l..Len(s)
  OBVIOUS
<1>2. SubSeq(s, l, l) = <<s[l]>> \o SubSeq(s, l + 1, l)
  BY <1>1, SubSeqRecursiveFirst
<1>3. SubSeq(s, l + 1, l) = <<>>
  BY <1>1, SubSeqEmpty
<1>4. <<s[l]>> \in Seq(X)
  BY ElementOfSeq
<1> QED
  BY <1>2, <1>3, <1>4, ConcatEmptySeq
\* The characters at which an URL is cut.
Marks == {":", "@", "/", "?", "#"}

\* The inputs of a codec, in every state.
CodecInputs ==
  /\ codec \in DOMAIN Format
  /\ codec \in {"environ", "mssp", "send", "decode"} => input \in Seq(Octets)
  /\ codec = "help" => input \in Seq(Lines)
  /\ codec \in {"hash", "hmac"} => input \in Seq(Nat \cup {Ask})
  /\ codec = "hmac" => input \in Seq(Nat)
  /\ codec \in {"url", "absolute", "query"} => input \in Seq(Format[codec].alphabet \cup Marks)
  /\ codec = "query" => /\ Len(input) >= 2 /\ input[1] = "/" /\ input[2] = "?"
                        /\ \A i \in 1..Len(input) : input[i] # "#"

LEMMA InMore ==
  ASSUME NEW S, NEW s \in Seq(S), NEW U
  PROVE  s \in Seq(S \cup U)
OBVIOUS

LEMMA CodecInputsHold == Spec => []CodecInputs
<1>1. Init => CodecInputs
  <2>1. \A c \in {"environ", "mssp", "send", "decode"} : Format[c].prefix \in Seq(Octets)
    <3>1. <<>> \in Seq(Octets)
      OBVIOUS
    <3> QED
      BY <3>1, FormatAssumption, Zenon
  <2>2. Format["help"].prefix \in Seq(Lines)
    <3>1. <<>> \in Seq(Lines)
      OBVIOUS
    <3> QED
      BY <3>1, FormatAssumption, Zenon
  <2>3. \A c \in {"hash", "hmac"} : Format[c].prefix \in Seq(Nat)
    <3>1. <<>> \in Seq(Nat)
      OBVIOUS
    <3> QED
      BY <3>1, FormatAssumption, Zenon
  <2>4. \A c \in {"url", "absolute"} : Format[c].prefix \in Seq(Format[c].alphabet \cup Marks)
    <3> SUFFICES ASSUME NEW c \in {"url", "absolute"}
                 PROVE  Format[c].prefix \in Seq(Format[c].alphabet \cup Marks)
      OBVIOUS
    <3>1. Format[c].prefix \in Seq(Format[c].alphabet)
      BY FormatAssumption
    <3> QED
      BY <3>1, InMore
  <2>5. /\ Format["query"].prefix \in Seq(Format["query"].alphabet \cup Marks)
        /\ Len(Format["query"].prefix) = 2
        /\ Format["query"].prefix[1] = "/" /\ Format["query"].prefix[2] = "?"
        /\ \A i \in 1..Len(Format["query"].prefix) : Format["query"].prefix[i] # "#"
    <3>1. /\ <<"/", "?">> \in Seq(Format["query"].alphabet \cup Marks) /\ Len(<<"/", "?">>) = 2
          /\ \A i \in 1..2 : <<"/", "?">>[i] # "#"
      BY DEF Marks
    <3>2. <<"/", "?">>[1] = "/" /\ <<"/", "?">>[2] = "?"
      OBVIOUS
    <3> QED
      BY <3>1, <3>2, FormatAssumption
  <2> SUFFICES ASSUME Init
               PROVE  CodecInputs
    OBVIOUS
  <2>6. codec \in DOMAIN Format /\ input = Format[codec].prefix
    BY DEF Init
  <2>7. codec \in {"hash", "hmac"} => input \in Seq(Nat)
    BY <2>3, <2>6
  <2>8. codec \in {"hash", "hmac"} => input \in Seq(Nat \cup {Ask})
    <3> HIDE DEF Ask
    <3> QED
      BY <2>7, InMore
  <2>9. codec = "query" => CodecInputs
    <3>1. \A c \in {"environ", "mssp", "send", "decode", "help", "hash", "hmac"} : c # "query"
      OBVIOUS
    <3> QED
      BY <2>5, <2>6, <3>1 DEF CodecInputs
  <2>10. codec # "query" => CodecInputs
    <3>1. codec \in {"environ", "mssp", "send", "decode"} => input \in Seq(Octets)
      BY <2>1, <2>6
    <3>2. codec = "help" => input \in Seq(Lines)
      BY <2>2, <2>6
    <3>3. codec \in {"url", "absolute"} => input \in Seq(Format[codec].alphabet \cup Marks)
      BY <2>4, <2>6
    <3> QED
      BY <2>6, <2>7, <2>8, <3>1, <3>2, <3>3 DEF CodecInputs
  <2> QED
    BY <2>9, <2>10
<1>2. CodecInputs /\ [Next]_vars => CodecInputs'
  <2> SUFFICES ASSUME CodecInputs, [Next]_vars
               PROVE  CodecInputs'
    OBVIOUS
  <2>1. CASE Next
    <3>1. PICK x \in Format[codec].alphabet : Extend(x)
      BY <2>1 DEF Next
    <3>2. codec' = codec /\ input' = Append(input, x)
      BY <3>1 DEF Extend
    <3>3. codec \in {"environ", "mssp", "send", "decode"} => x \in Octets
      BY FormatAssumption
    <3>4. codec = "help" => x \in Lines
      BY FormatAssumption
    <3>5. codec \in {"hash", "hmac"} => x \in Nat \cup {Ask}
      BY FormatAssumption
    <3>6. codec = "hmac" => x \in Nat
      BY FormatAssumption
    <3>7. codec = "query" => x # "#"
      BY FormatAssumption
    <3>8. codec = "query" => CodecInputs'
      <4> SUFFICES ASSUME codec = "query"
                   PROVE  CodecInputs'
        OBVIOUS
      <4>1. PICK X : X = Format["query"].alphabet \cup Marks
        OBVIOUS
      <4>2. input \in Seq(X) /\ x \in X
        BY <4>1 DEF CodecInputs
      <4>3. PICK n \in Nat : n = Len(input)
        BY <4>2, LenProperties
      <4>4. /\ input' \in Seq(X) /\ Len(input') = n + 1
            /\ \A i \in 1..n : input'[i] = input[i]
            /\ input'[n + 1] = x
        BY <3>2, <4>2, <4>3
      <4>5. n >= 2 /\ 1 \in 1..n /\ 2 \in 1..n
        BY <4>3 DEF CodecInputs
      <4>6. \A i \in 1..(n + 1) : i \in 1..n \/ i = n + 1
        BY <4>3
      <4> QED
        BY <3>2, <3>7, <4>1, <4>3, <4>4, <4>5, <4>6 DEF CodecInputs
    <3>9. codec # "query" => CodecInputs'
      BY <3>2, <3>3, <3>4, <3>5, <3>6 DEF CodecInputs
    <3> QED
      BY <3>8, <3>9
  <2>2. CASE UNCHANGED vars
    BY <2>2 DEF CodecInputs, vars
  <2> QED
    BY <2>1, <2>2
<1> QED
  BY <1>1, <1>2, PTL DEF Spec

-----------------------------------------------------------------------------
(* The words of a query.                                                   *)

\* The turns of the loop of urldecode give its result.
LEMMA UrldecodeIs ==
  ASSUME NEW s \in Seq(Octets), NEW u,
         u[0] = [i |-> 1, result |-> <<>>],
         \A n \in 1..Len(s) : u[n] = R!Decode(s, u[n - 1])
  PROVE  R!Urldecode(s) = u[Len(s)].result
<1> DEFINE F(g) == [n \in 0..Len(s) |->
              IF n = 0 THEN [i |-> 1, result |-> <<>>] ELSE R!Decode(s, g[n - 1])]
           G == CHOOSE g : g = F(g)
           h == [n \in 0..Len(s) |-> u[n]]
           Same == {n \in 0..Len(s) : G[n] = u[n]}
<1>1. Len(s) \in Nat
  OBVIOUS
<1>2. h = F(h)
  OBVIOUS
<1>3. G = F(G)
  <2> HIDE DEF F, h
  <2> QED
    BY <1>2
<1>4. \A n \in 0..Len(s) : n \in Same
  <2> HIDE DEF G
  <2>1. 0 \in Same /\ \A n \in 1..Len(s) : n - 1 \in Same => n \in Same
    BY <1>3, SMTT(60)
  <2> HIDE DEF Same
  <2> QED
    BY <1>1, <2>1, UpTo
<1> QED
  BY <1>4 DEF R!Urldecode

\* The characters of an escaped word: neither blanks nor separators.
Escapes == {37} \cup 48..57 \cup 97..102

\* from_hex reads the digits of an octet.
LEMMA HexRead ==
  \A d \in 0..15 : Hex(d) \in Octets /\ R!FromHex(Hex(d)) = d
BY DEF Hex, R!FromHex, Octets

\* Three characters for each octet.
LEMMA EncodeProperties ==
  ASSUME NEW s \in Seq(Octets)
  PROVE  /\ Encode(s) \in Seq(Octets)
         /\ Len(Encode(s)) = 3 * Len(s)
         /\ \A n \in 1..Len(s) :
              /\ Encode(s)[3 * n - 2] = 37
              /\ R!FromHex(Encode(s)[3 * n - 1]) = s[n] \div 16
              /\ R!FromHex(Encode(s)[3 * n]) = s[n] % 16
         /\ \A j \in 1..(3 * Len(s)) : Encode(s)[j] \in Escapes
<1> DEFINE L == Len(s)
<1>1. L \in Nat /\ \A n \in 1..L : s[n] \in 0..255
  BY ElementOfSeq, LenProperties, SMTT(60) DEF Octets
<1>2. ASSUME NEW j \in 1..(3 * L)
      PROVE  Encode(s)[j] \in Escapes
  <2>1. (j - 1) \div 3 + 1 \in 1..L
    BY <1>1
  <2>2. PICK o \in 0..255 : o = s[(j - 1) \div 3 + 1]
    BY <1>1, <2>1
  <2>3. o \div 16 \in 0..15 /\ o % 16 \in 0..15
    OBVIOUS
  <2>4. Encode(s)[j] \in {37, Hex(o \div 16), Hex(o % 16)}
    <3>1. j % 3 = 0 \/ j % 3 = 1 \/ j % 3 = 2
      BY <1>1
    <3> QED
      BY <2>2, <3>1 DEF Encode
  <2>5. \A d \in 0..15 : Hex(d) \in Escapes
    BY DEF Hex, Escapes
  <2>6. 37 \in Escapes
    BY DEF Escapes
  <2> QED
    BY <2>3, <2>4, <2>5, <2>6
<1>3. Encode(s) \in Seq(Octets) /\ Len(Encode(s)) = 3 * L
  <2>1. DOMAIN Encode(s) = 1..(3 * L) /\ 3 * L \in Nat
    BY <1>1 DEF Encode
  <2>2. Encode(s) = [j \in 1..(3 * L) |-> Encode(s)[j]]
    BY DEF Encode
  <2>3. \A j \in 1..(3 * L) : Encode(s)[j] \in Octets
    BY <1>2 DEF Octets, Escapes
  <2> QED
    BY <2>1, <2>2, <2>3
<1>4. ASSUME NEW n \in 1..L
      PROVE  /\ Encode(s)[3 * n - 2] = 37
             /\ R!FromHex(Encode(s)[3 * n - 1]) = s[n] \div 16
             /\ R!FromHex(Encode(s)[3 * n]) = s[n] % 16
  <2>1. /\ (3 * n - 2) % 3 = 1 /\ (3 * n - 1) % 3 = 2 /\ (3 * n) % 3 = 0
        /\ (3 * n - 2) \div 3 + 1 = n /\ (3 * n - 1) \div 3 + 1 = n
    BY <1>1
  <2>2. 3 * n \in 1..(3 * L) /\ 3 * n - 1 \in 1..(3 * L) /\ 3 * n - 2 \in 1..(3 * L)
    BY <1>1
  <2>3. Encode(s)[3 * n - 2] = 37
    <3> DEFINE j == 3 * n - 2
    <3>1. j \in 1..(3 * L) /\ j % 3 = 1
      BY <2>1, <2>2
    <3> HIDE DEF j
    <3>2. Encode(s)[j] = 37
      BY <3>1 DEF Encode
    <3> QED
      BY <3>2 DEF j
  <2>4. (3 * n - 1) - 1 = 3 * n - 2
    BY <1>1
  <2>5. Encode(s)[3 * n - 1] = Hex(s[n] \div 16)
    <3> DEFINE j == 3 * n - 1
    <3>1. j \in 1..(3 * L) /\ j % 3 = 2 /\ (j - 1) \div 3 + 1 = n
      BY <2>1, <2>2, <2>4
    <3> HIDE DEF j
    <3>2. Encode(s)[j] = Hex(s[n] \div 16)
      BY <3>1 DEF Encode
    <3> QED
      BY <3>2 DEF j
  <2>6. Encode(s)[3 * n] = Hex(s[n] % 16)
    BY <2>1, <2>2 DEF Encode
  <2>7. s[n] \div 16 \in 0..15 /\ s[n] % 16 \in 0..15
    <3>1. \A o \in 0..255 : o \div 16 \in 0..15 /\ o % 16 \in 0..15
      OBVIOUS
    <3> QED
      BY <1>1, <3>1
  <2> QED
    BY <2>3, <2>5, <2>6, <2>7, HexRead
<1> QED
  BY <1>2, <1>3, <1>4

\* What is escaped octet by octet is decoded to what it was.
LEMMA EncodedDecodes ==
  ASSUME NEW s \in Seq(Octets)
  PROVE  R!Urldecode(Encode(s)) = s
<1> DEFINE L == Len(s)
           E == Encode(s)
           Done(n) == IF n <= L THEN n ELSE L
           u == [n \in 0..(3 * L) |-> [i |-> 3 * Done(n) + 1, result |-> SubSeq(s, 1, Done(n))]]
<1>1. /\ L \in Nat /\ E \in Seq(Octets) /\ Len(E) = 3 * L
      /\ \A n \in 1..L : s[n] \in 0..255
  <2>1. \A n \in 1..L : s[n] \in 0..255
    BY ElementOfSeq DEF Octets
  <2> QED
    BY <2>1, LenProperties, EncodeProperties
<1>2. u[0] = [i |-> 1, result |-> <<>>]
  BY <1>1
<1>3. ASSUME NEW n \in 1..Len(E)
      PROVE  u[n] = R!Decode(E, u[n - 1])
  <2>1. n - 1 \in 0..(3 * L) /\ n \in 0..(3 * L)
    BY <1>1
  <2>2. CASE n <= L
    <3>1. u[n - 1] = [i |-> 3 * n - 2, result |-> SubSeq(s, 1, n - 1)]
      BY <1>1, <2>1, <2>2
    <3>2. R!Decode(E, u[n - 1])
            = [i |-> 3 * n + 1,
               result |-> Append(SubSeq(s, 1, n - 1),
                                 R!FromHex(E[3 * n - 1]) * 16 + R!FromHex(E[3 * n]))]
      <4>1. 3 * n - 2 \in Nat /\ 3 * n - 2 <= Len(E) /\ Len(E) >= (3 * n - 2) + 2
        BY <1>1, <2>2
      <4>2. E[3 * n - 2] = 37
        BY <2>2, <1>1, EncodeProperties
      <4>3. (3 * n - 2) + 1 = 3 * n - 1 /\ (3 * n - 2) + 2 = 3 * n /\ (3 * n - 2) + 3 = 3 * n + 1
        BY <1>1
      <4> HIDE DEF E, u
      <4> QED
        BY <3>1, <4>1, <4>2, <4>3 DEF R!Decode, R!Percent
    <3>3. R!FromHex(E[3 * n - 1]) * 16 + R!FromHex(E[3 * n]) = s[n]
      <4>1. R!FromHex(E[3 * n - 1]) = s[n] \div 16 /\ R!FromHex(E[3 * n]) = s[n] % 16
        <5>1. n \in 1..Len(s)
          BY <1>1, <2>1, <2>2
        <5> QED
          BY <5>1, EncodeProperties
      <4>2. \A o \in 0..255 : (o \div 16) * 16 + (o % 16) = o
        OBVIOUS
      <4>3. s[n] \in 0..255
        BY <1>1, <2>1, <2>2
      <4> QED
        BY <4>1, <4>2, <4>3
    <3>4. Append(SubSeq(s, 1, n - 1), s[n]) = SubSeq(s, 1, n)
      BY <1>1, <2>2
    <3> HIDE DEF E
    <3> QED
      BY <2>1, <2>2, <3>2, <3>3, <3>4
  <2>3. CASE n > L
    <3>1. u[n - 1] = [i |-> 3 * L + 1, result |-> SubSeq(s, 1, L)] /\ u[n] = u[n - 1]
      <4>1. L < n /\ n \in Nat /\ Done(n) = L /\ Done(n - 1) = L
        BY <1>1, <2>1, <2>3
      <4> QED
        BY <2>1, <4>1
    <3> HIDE DEF E, u
    <3> QED
      BY <1>1, <3>1 DEF R!Decode
  <2> QED
    BY <1>1, <2>2, <2>3
<1>4. R!Urldecode(E) = u[Len(E)].result
  <2> HIDE DEF E, u
  <2> QED
    BY <1>1, <1>2, <1>3, UrldecodeIs
<1>5. u[3 * L].result = SubSeq(s, 1, L)
  BY <1>1
<1> QED
  BY <1>1, <1>4, <1>5, SMTT(60)

\* Three positions, counted.
LEMMA ThreeInOrder ==
  ASSUME NEW a \in Nat, NEW b \in Nat, NEW c \in Nat, a < b, b < c,
         NEW S, S = {a, b, c}
  PROVE  Cardinality(S) = 3 /\ Nth(S, 1) = a /\ Nth(S, 2) = b /\ Nth(S, 3) = c
<1> DEFINE Rank(i) == Cardinality({j \in S : j <= i})
<1>1. /\ {j \in S : j <= a} = {a}
      /\ {j \in S : j <= b} = {a} \cup {b}
      /\ {j \in S : j <= c} = ({a} \cup {b}) \cup {c}
      /\ S = ({a} \cup {b}) \cup {c}
  OBVIOUS
<1>2. IsFiniteSet({a}) /\ Cardinality({a}) = 1
  BY FS_Singleton
<1>3. b \notin {a} /\ c \notin {a} \cup {b}
  OBVIOUS
<1>4. IsFiniteSet({a} \cup {b}) /\ Cardinality({a} \cup {b}) = 2
  BY <1>2, <1>3, FS_AddElement
<1>5. Cardinality(({a} \cup {b}) \cup {c}) = 3
  BY <1>3, <1>4, FS_AddElement
<1>6. Rank(a) = 1 /\ Rank(b) = 2 /\ Rank(c) = 3 /\ Cardinality(S) = 3
  BY <1>1, <1>2, <1>4, <1>5
<1> HIDE DEF Rank
<1>8. a \in S /\ b \in S /\ c \in S /\ \A i \in S : i = a \/ i = b \/ i = c
  BY <1>1
<1>7. /\ (CHOOSE i \in S : Rank(i) = 1) = a
      /\ (CHOOSE i \in S : Rank(i) = 2) = b
      /\ (CHOOSE i \in S : Rank(i) = 3) = c
  BY <1>6, <1>8
<1> QED
  BY <1>6, <1>7 DEF Rank, Nth
\* The words of a query of which the second is a letter: they are what operator>>
\* reads of it.
LEMMA QueryWords ==
  ASSUME NEW U \in Seq(Escapes \cup {61}), NEW W \in Seq(Escapes \cup {61}),
         U # <<>>, W # <<>>,
         NEW Q, Q = (U \o <<38, 97, 38>>) \o W
  PROVE  R!Words(Q) = <<U, <<97>>, W>>
<1> DEFINE Break(i) == Q[i] \in R!Blanks \cup {R!Ampersand}
           S == {i \in DOMAIN Q : ~Break(i) /\ (i = 1 \/ Break(i - 1))}
           Scan(i) == LET end == CHOOSE e \in i..Len(Q) :
                              /\ \A j \in i..e : ~Break(j)
                              /\ e = Len(Q) \/ Break(e + 1)
                      IN  SubSeq(Q, i, end)
<1>1. PICK m \in Nat : m = Len(U) /\ m > 0
  BY LenProperties, EmptySeq
<1>2. PICK n \in Nat : n = Len(W) /\ n > 0
  BY LenProperties, EmptySeq
<1>3. Escapes \cup {61} \subseteq Octets /\ <<38, 97, 38>> \in Seq(Octets)
  BY DEF Escapes, Octets
<1>4. /\ U \o <<38, 97, 38>> \in Seq(Octets)
      /\ Len(U \o <<38, 97, 38>>) = m + 3
      /\ \A i \in 1..(m + 3) :
           (U \o <<38, 97, 38>>)[i] = IF i <= m THEN U[i] ELSE <<38, 97, 38>>[i - m]
  <2>1. U \in Seq(Octets) /\ Len(<<38, 97, 38>>) = 3
    BY <1>3
  <2> QED
    BY <1>1, <1>3, <2>1, ConcatProperties
<1>5. /\ Q \in Seq(Octets)
      /\ Len(Q) = m + 3 + n
      /\ \A i \in 1..(m + 3 + n) :
           Q[i] = IF i <= m + 3 THEN (U \o <<38, 97, 38>>)[i] ELSE W[i - (m + 3)]
  <2>1. W \in Seq(Octets)
    BY <1>3
  <2>2. PICK A \in Seq(Octets) : A = U \o <<38, 97, 38>>
    BY <1>4
  <2>3. Len(A) = m + 3 /\ Q = A \o W
    BY <1>4, <2>2
  <2>4. /\ Q \in Seq(Octets)
        /\ Len(Q) = m + 3 + n
        /\ \A i \in 1..(m + 3 + n) : Q[i] = IF i <= m + 3 THEN A[i] ELSE W[i - (m + 3)]
    <3>1. /\ A \o W \in Seq(Octets)
          /\ Len(A \o W) = Len(A) + Len(W)
          /\ \A i \in 1..Len(A) + Len(W) :
               (A \o W)[i] = IF i <= Len(A) THEN A[i] ELSE W[i - Len(A)]
      BY <2>1, <2>2, ConcatProperties, SMTT(60)
    <3> QED
      BY <1>1, <1>2, <2>3, <3>1
  <2> QED
    BY <2>2, <2>4
<1>6. /\ \A i \in 1..m : Q[i] = U[i]
      /\ Q[m + 1] = 38 /\ Q[m + 2] = 97 /\ Q[m + 3] = 38
      /\ \A i \in (m + 4)..(m + 3 + n) : Q[i] = W[i - (m + 3)]
  BY <1>1, <1>2, <1>4, <1>5, SMTT(60)
<1>7. \A i \in 1..Len(Q) : Break(i) <=> i = m + 1 \/ i = m + 3
  <2> TAKE i \in 1..Len(Q)
  <2>1. \A e \in Escapes \cup {61, 97} : e \notin R!Blanks \cup {R!Ampersand}
    BY DEF Escapes, R!Blanks, R!Blank, R!Ampersand
  <2>2. 38 \in R!Blanks \cup {R!Ampersand} /\ 97 \in Escapes
    BY DEF R!Ampersand, Escapes
  <2>3. CASE i <= m
    <3>1. U[i] \in Escapes \cup {61} /\ Q[i] = U[i]
      BY <1>1, <1>6, <2>3, ElementOfSeq
    <3> QED
      BY <1>1, <2>1, <2>3, <3>1
  <2>4. CASE i >= m + 4
    <3>1. W[i - (m + 3)] \in Escapes \cup {61} /\ Q[i] = W[i - (m + 3)]
      BY <1>1, <1>2, <1>5, <1>6, <2>4, ElementOfSeq, SMTT(60)
    <3> QED
      BY <1>1, <2>1, <2>4, <3>1, SMTT(60)
  <2>5. CASE i = m + 1 \/ i = m + 3
    BY <1>6, <2>2, <2>5, ZenonT(60)
  <2>6. CASE i = m + 2
    <3>1. ~Break(i)
      BY <1>6, <2>1, <2>6
    <3> HIDE DEF Break
    <3> QED
      BY <1>1, <2>6, <3>1
  <2>7. i \in Nat
    BY <1>5
  <2> HIDE DEF Break
  <2> QED
    BY <1>1, <2>3, <2>4, <2>5, <2>6, <2>7, SMTT(60)
<1>8. R!Words(Q) = [l \in 1..Cardinality(S) |-> Scan(Nth(S, l))]
  BY Zenon DEF R!Words, Nth, R!Cardinality, Cardinality, R!IsFiniteSet, IsFiniteSet
<1>9. DOMAIN Q = 1..Len(Q)
  BY <1>5
<1> HIDE DEF Break
<1>10. S = {1, m + 2, m + 4}
  <2>1. ASSUME NEW i \in 1..(m + 3 + n)
        PROVE  i \in S <=> i \in {1, m + 2, m + 4}
    <3>1. i \in S <=> ~Break(i) /\ (i = 1 \/ Break(i - 1))
      BY <1>5, <1>9
    <3>2. Break(i) <=> i = m + 1 \/ i = m + 3
      BY <1>5, <1>7
    <3>3. CASE i = 1
      BY <1>1, <3>1, <3>2, <3>3
    <3>4. CASE i # 1
      <4>1. Break(i - 1) <=> i - 1 = m + 1 \/ i - 1 = m + 3
        <5>1. i - 1 \in 1..Len(Q)
          BY <1>1, <1>5, <3>4
        <5> HIDE DEF S
        <5> QED
          BY <1>7, <5>1
      <4> HIDE DEF S
      <4> QED
        BY <1>1, <3>1, <3>2, <3>4, <4>1, SMTT(60)
    <3> QED
      BY <3>3, <3>4
  <2>2. S \subseteq 1..(m + 3 + n) /\ {1, m + 2, m + 4} \subseteq 1..(m + 3 + n)
    BY <1>1, <1>2, <1>5, <1>9
  <2> HIDE DEF S
  <2> QED
    BY <2>1, <2>2
<1>11. /\ Cardinality(S) = 3
       /\ Nth(S, 1) = 1 /\ Nth(S, 2) = m + 2 /\ Nth(S, 3) = m + 4
  <2>1. PICK b \in Nat : b = m + 2
    BY <1>1
  <2>2. PICK c \in Nat : c = m + 4
    BY <1>1
  <2>3. PICK X : X = S
    OBVIOUS
  <2>4. 1 < b /\ b < c /\ X = {1, b, c}
    BY <1>1, <1>10, <2>1, <2>2, <2>3
  <2> HIDE DEF S
  <2>5. Cardinality(X) = 3 /\ Nth(X, 1) = 1 /\ Nth(X, 2) = b /\ Nth(X, 3) = c
    <3>1. Cardinality(X) = 3
      BY <2>4, ThreeInOrder
    <3>2. Nth(X, 1) = 1
      BY <2>4, ThreeInOrder
    <3>3. Nth(X, 2) = b
      BY <2>4, ThreeInOrder, SMTT(60)
    <3>4. Nth(X, 3) = c
      BY <2>4, ThreeInOrder, SMTT(60)
    <3> QED
      BY <3>1, <3>2, <3>3, <3>4
  <2> QED
    BY <2>1, <2>2, <2>3, <2>5
<1>12. /\ Scan(1) = SubSeq(Q, 1, m)
       /\ Scan(m + 2) = SubSeq(Q, m + 2, m + 2)
       /\ Scan(m + 4) = SubSeq(Q, m + 4, m + 3 + n)
  <2> DEFINE Is(i, e) == (\A j \in i..e : ~Break(j)) /\ (e = Len(Q) \/ Break(e + 1))
  <2>1. ASSUME NEW i \in {1, m + 2, m + 4},
               NEW e \in i..Len(Q), Is(i, e),
               NEW f \in i..Len(Q), Is(i, f)
        PROVE  e = f
    <3>1. e \in Nat /\ f \in Nat /\ Len(Q) \in Nat /\ i \in Nat
      BY <1>1, <1>5
    <3>2. CASE e < f
      BY <2>1, <3>1, <3>2
    <3>3. CASE f < e
      BY <2>1, <3>1, <3>3
    <3> QED
      BY <3>1, <3>2, <3>3
  <2>2. /\ m \in 1..Len(Q) /\ Is(1, m)
        /\ m + 2 \in (m + 2)..Len(Q) /\ Is(m + 2, m + 2)
        /\ m + 3 + n \in (m + 4)..Len(Q) /\ Is(m + 4, m + 3 + n)
    <3>1. \A i \in 1..(m + 3 + n) : Break(i) <=> i = m + 1 \/ i = m + 3
      BY <1>5, <1>7
    <3>2. m \in 1..Len(Q) /\ Is(1, m)
      <4>1. m \in 1..Len(Q) /\ m + 1 \in 1..Len(Q) /\ 1..m \subseteq 1..(m + 3 + n)
        BY <1>1, <1>2, <1>5
      <4>2. \A j \in 1..m : j # m + 1 /\ j # m + 3
        BY <1>1
      <4> QED
        BY <1>5, <3>1, <4>1, <4>2
    <3>3. m + 2 \in (m + 2)..Len(Q) /\ Is(m + 2, m + 2)
      <4>1. m + 2 \in (m + 2)..Len(Q) /\ (m + 2)..(m + 2) = {m + 2}
        BY <1>1, <1>2, <1>5
      <4>2. m + 2 \in 1..(m + 3 + n) /\ m + 3 \in 1..(m + 3 + n) /\ (m + 2) + 1 = m + 3
            /\ m + 2 # m + 1 /\ m + 2 # m + 3
        BY <1>1, <1>2
      <4>3. Break(m + 3) /\ ~Break(m + 2)
        BY <3>1, <4>2
      <4> QED
        BY <4>1, <4>2, <4>3
    <3>4. m + 3 + n \in (m + 4)..Len(Q) /\ Is(m + 4, m + 3 + n)
      <4>1. m + 3 + n \in (m + 4)..Len(Q) /\ m + 3 + n = Len(Q)
        BY <1>1, <1>2, <1>5
      <4>2. \A j \in (m + 4)..(m + 3 + n) : j \in 1..(m + 3 + n) /\ j # m + 1 /\ j # m + 3
        BY <1>1, <1>2
      <4> QED
        BY <3>1, <4>1, <4>2
    <3> QED
      BY <3>2, <3>3, <3>4
  <2> HIDE DEF Is
  <2>3. /\ (CHOOSE e \in 1..Len(Q) : Is(1, e)) = m
        /\ (CHOOSE e \in (m + 2)..Len(Q) : Is(m + 2, e)) = m + 2
        /\ (CHOOSE e \in (m + 4)..Len(Q) : Is(m + 4, e)) = m + 3 + n
    BY <2>1, <2>2
  <2> QED
    BY <2>3 DEF Is
<1>13. /\ SubSeq(Q, 1, m) = U
       /\ SubSeq(Q, m + 2, m + 2) = <<97>>
       /\ SubSeq(Q, m + 4, m + 3 + n) = W
  <2>1. SubSeq(Q, 1, m) = U
    BY <1>1, <1>2, <1>5, <1>6
  <2>2. SubSeq(Q, m + 2, m + 2) = <<97>>
    <3>1. SubSeq(Q, m + 2, m + 2) = <<Q[m + 2]>>
      <4> DEFINE l == m + 2
      <4>1. l \in 1..Len(Q)
        BY <1>1, <1>2, <1>5
      <4> HIDE DEF l
      <4>2. SubSeq(Q, l, l) = <<Q[l]>>
        BY <1>5, <4>1, SubSeqOne
      <4> QED
        BY <4>2 DEF l
    <3> QED
      BY <1>6, <3>1
  <2>3. SubSeq(Q, m + 4, m + 3 + n) = W
    BY <1>1, <1>2, <1>5, <1>6, SMTT(60)
  <2> QED
    BY <2>1, <2>2, <2>3
<1>14. R!Words(Q) = [l \in 1..3 |-> IF l = 1 THEN U ELSE IF l = 2 THEN <<97>> ELSE W]
  <2>1. R!Words(Q) = [l \in 1..3 |-> Scan(Nth(S, l))]
    BY <1>8, <1>11
  <2>2. Nth(S, 1) = 1 /\ Nth(S, 2) = m + 2 /\ Nth(S, 3) = m + 4
    BY <1>11
  <2> HIDE DEF S, Scan
  <2>3. Scan(Nth(S, 1)) = U /\ Scan(Nth(S, 2)) = <<97>> /\ Scan(Nth(S, 3)) = W
    BY <1>12, <1>13, <2>2
  <2>4. \A l \in 1..3 : Scan(Nth(S, l)) = IF l = 1 THEN U ELSE IF l = 2 THEN <<97>> ELSE W
    BY <2>3
  <2> QED
    BY <2>1, <2>4
<1> QED
  BY <1>14

\* The first = of a word, what stands before it and what stands after it.
LEMMA FirstSign ==
  ASSUME NEW A \in Seq(Escapes), NEW B \in Seq(Escapes)
  PROVE  LET w == (A \o <<61>>) \o B IN
         /\ w \in Seq(Escapes \cup {61}) /\ w # <<>>
         /\ R!Sign(w) = {Len(A) + 1}
         /\ SubSeq(w, 1, (Len(A) + 1) - 1) = A
         /\ SubSeq(w, (Len(A) + 1) + 1, Len(w)) = B
<1>0. PICK w : w = (A \o <<61>>) \o B
  OBVIOUS
<1> DEFINE Some == Escapes \cup {61}
<1>1. PICK m \in Nat : m = Len(A)
  BY LenProperties
<1>2. PICK n \in Nat : n = Len(B)
  BY LenProperties
<1>3. 61 \notin Escapes
  BY DEF Escapes
<1>4. A \in Seq(Some) /\ B \in Seq(Some) /\ <<61>> \in Seq(Some) /\ Len(<<61>>) = 1
  OBVIOUS
<1>5. PICK C \in Seq(Some) :
        C = A \o <<61>> /\ Len(C) = m + 1 /\ C[m + 1] = 61 /\ \A i \in 1..m : C[i] = A[i]
  <2> HIDE DEF Some
  <2>1. /\ A \o <<61>> \in Seq(Some)
        /\ Len(A \o <<61>>) = Len(A) + Len(<<61>>)
        /\ \A i \in 1..Len(A) + Len(<<61>>) :
             (A \o <<61>>)[i] = IF i <= Len(A) THEN A[i] ELSE <<61>>[i - Len(A)]
    BY <1>4, ConcatProperties
  <2>2. PICK E \in Seq(Some) : E = A \o <<61>>
    BY <2>1
  <2>3. Len(E) = m + 1 /\ \A i \in 1..(m + 1) : E[i] = IF i <= m THEN A[i] ELSE <<61>>[i - m]
    BY <1>1, <1>4, <2>1, <2>2
  <2>4. E[m + 1] = 61 /\ \A i \in 1..m : E[i] = A[i]
    <3>1. ~(m + 1 <= m) /\ (m + 1) - m = 1 /\ m + 1 \in 1..(m + 1)
      BY <1>1
    <3>2. <<61>>[1] = 61
      OBVIOUS
    <3> QED
      BY <1>1, <2>3, <3>1, <3>2
  <2> QED
    BY <2>2, <2>3, <2>4
<1>6. /\ w \in Seq(Some) /\ Len(w) = m + 1 + n
      /\ w[m + 1] = 61 /\ \A i \in 1..m : w[i] = A[i]
      /\ \A i \in (m + 2)..(m + 1 + n) : w[i] = B[i - (m + 1)]
  <2> HIDE DEF Some
  <2>1. /\ C \o B \in Seq(Some)
        /\ Len(C \o B) = Len(C) + Len(B)
        /\ \A i \in 1..Len(C) + Len(B) :
             (C \o B)[i] = IF i <= Len(C) THEN C[i] ELSE B[i - Len(C)]
    BY <1>4, ConcatProperties
  <2> QED
    BY <1>0, <1>1, <1>2, <1>5, <2>1
<1>7. w # <<>>
  BY <1>1, <1>2, <1>6
<1>8. {i \in DOMAIN w : w[i] = 61 /\ \A j \in 1..(i - 1) : w[j] # 61} = {m + 1}
  <2>1. \A i \in 1..m : w[i] # 61
    <3>1. \A i \in 1..m : A[i] \in Escapes
      BY <1>1, ElementOfSeq
    <3> QED
      BY <1>3, <1>6, <3>1
  <2>2. DOMAIN w = 1..(m + 1 + n)
    BY <1>6
  <2>3. ASSUME NEW i \in 1..(m + 1 + n)
        PROVE  w[i] = 61 /\ (\A j \in 1..(i - 1) : w[j] # 61) <=> i = m + 1
    <3>1. CASE i <= m
      BY <1>1, <2>1, <2>3, <3>1
    <3>2. CASE i = m + 1
      BY <1>1, <1>6, <2>1, <3>2
    <3>3. CASE i > m + 1
      BY <1>1, <1>6, <3>3
    <3> QED
      BY <1>1, <1>2, <3>1, <3>2, <3>3
  <2>4. m + 1 \in 1..(m + 1 + n)
    BY <1>1, <1>2
  <2> DEFINE Z == {i \in DOMAIN w : w[i] = 61 /\ \A j \in 1..(i - 1) : w[j] # 61}
  <2>5. \A i : i \in Z <=> i = m + 1
    BY <2>2, <2>3, <2>4
  <2> HIDE DEF Z
  <2>6. Z = {m + 1}
    BY <2>5, Zenon
  <2> QED
    BY <2>6 DEF Z
<1>9. SubSeq(w, 1, m) = A
  BY <1>1, <1>2, <1>6
<1>10. SubSeq(w, m + 2, m + 1 + n) = B
  BY <1>1, <1>2, <1>6, SMTT(60)
<1>11. R!Sign(w) = {m + 1}
  BY <1>8, Zenon DEF R!Sign, R!Equals
<1>12. (m + 1) - 1 = m /\ (m + 1) + 1 = m + 2
  BY <1>1
<1>13. SubSeq(w, 1, (m + 1) - 1) = A
  BY <1>9, <1>12, Zenon
<1>14. SubSeq(w, (m + 1) + 1, Len(w)) = B
  <2>1. Len(w) = m + 1 + n
    BY <1>6, Zenon
  <2> QED
    BY <1>10, <1>12, <2>1, Zenon
<1>15. w \in Seq(Escapes \cup {61})
  BY <1>6, Zenon
<1> HIDE DEF Some
<1> QED
  BY <1>0, <1>1, <1>7, <1>11, <1>13, <1>14, <1>15, Zenon

\* The keys and values of a query of three words: one with a value, one without
\* the sign, and one with an empty value.
LEMMA QueryParsed ==
  ASSUME NEW K \in Seq(Escapes), NEW V \in Seq(Escapes)
  PROVE  R!ParseQuery(K \o <<61>> \o V \o <<38, 97, 38>> \o (V \o <<61>>))
           = [k \in {R!Urldecode(K), R!Urldecode(V)} |->
                IF k = R!Urldecode(V) THEN R!Urldecode(<<>>) ELSE R!Urldecode(V)]
<1> DEFINE U == (K \o <<61>>) \o V
           W == V \o <<61>>
           Q == (U \o <<38, 97, 38>>) \o W
           Key(w) == {R!Urldecode(SubSeq(w, 1, i - 1)) : i \in R!Sign(w)}
           Value(w) ==
             LET i == CHOOSE i \in R!Sign(w) : TRUE
             IN  R!Urldecode(SubSeq(w, i + 1, Len(w)))
           words == <<U, <<97>>, W>>
           Last(k) == CHOOSE n \in 1..3 :
                        k \in Key(words[n]) /\ \A m \in (n + 1)..3 : k \notin Key(words[m])
           key == R!Urldecode(K)
           val == R!Urldecode(V)
           none == R!Urldecode(<<>>)
<1>1. /\ U \in Seq(Escapes \cup {61}) /\ U # <<>>
      /\ Key(U) = {key} /\ Value(U) = val
  <2>1. /\ U \in Seq(Escapes \cup {61}) /\ U # <<>>
        /\ R!Sign(U) = {Len(K) + 1}
        /\ SubSeq(U, 1, (Len(K) + 1) - 1) = K
        /\ SubSeq(U, (Len(K) + 1) + 1, Len(U)) = V
    BY FirstSign
  <2> HIDE DEF U
  <2> QED
    BY <2>1
<1>2. /\ W \in Seq(Escapes \cup {61}) /\ W # <<>>
      /\ Key(W) = {val} /\ Value(W) = none
  <2>1. W = (V \o <<61>>) \o <<>> /\ <<>> \in Seq(Escapes)
    <3>1. V \in Seq(Escapes \cup {61}) /\ <<61>> \in Seq(Escapes \cup {61})
      OBVIOUS
    <3>2. V \o <<61>> \in Seq(Escapes \cup {61})
      BY <3>1, ConcatProperties
    <3> QED
      BY <3>2, ConcatEmptySeq
  <2>2. /\ W \in Seq(Escapes \cup {61}) /\ W # <<>>
        /\ R!Sign(W) = {Len(V) + 1}
        /\ SubSeq(W, 1, (Len(V) + 1) - 1) = V
        /\ SubSeq(W, (Len(V) + 1) + 1, Len(W)) = <<>>
    <3>1. PICK z \in Seq(Escapes) : z = <<>>
      BY <2>1
    <3>2. W = (V \o <<61>>) \o z
      BY <2>1, <3>1
    <3>3. /\ (V \o <<61>>) \o z \in Seq(Escapes \cup {61}) /\ (V \o <<61>>) \o z # <<>>
          /\ R!Sign((V \o <<61>>) \o z) = {Len(V) + 1}
          /\ SubSeq((V \o <<61>>) \o z, 1, (Len(V) + 1) - 1) = V
          /\ SubSeq((V \o <<61>>) \o z, (Len(V) + 1) + 1, Len((V \o <<61>>) \o z)) = z
      BY FirstSign, ZenonT(60)
    <3> HIDE DEF W
    <3> QED
      BY <3>1, <3>2, <3>3, Zenon
  <2> HIDE DEF W
  <2> QED
    BY <2>2
<1>3. Key(<<97>>) = {}
  <2>1. DOMAIN <<97>> = {1} /\ <<97>>[1] # 61
    OBVIOUS
  <2> QED
    BY <2>1 DEF R!Sign, R!Equals
<1>4. R!Words(Q) = words
  <2> HIDE DEF U, W
  <2>1. Q = (U \o <<38, 97, 38>>) \o W
    OBVIOUS
  <2> HIDE DEF Q
  <2> QED
    BY <1>1, <1>2, <2>1, QueryWords
<1>5. R!ParseQuery(Q) = [k \in UNION {Key(words[n]) : n \in 1..3} |-> Value(words[Last(k)])]
  <2> HIDE DEF Q, U, W
  <2>1. DOMAIN words = 1..3 /\ Len(words) = 3
    OBVIOUS
  <2> HIDE DEF words
  <2> QED
    BY <1>4, <2>1 DEF R!ParseQuery
<1>6. /\ words[1] = U /\ words[2] = <<97>> /\ words[3] = W
  OBVIOUS
<1> HIDE DEF U, W, Key, Value, words, Q
<1>7. UNION {Key(words[n]) : n \in 1..3} = {key, val}
  <2> DEFINE J(n) == Key(words[n])
  <2>1. J(1) = {key} /\ J(2) = {} /\ J(3) = {val}
    BY <1>1, <1>2, <1>3, <1>6
  <2> HIDE DEF J
  <2>2. \A k : k \in UNION {J(n) : n \in 1..3} <=> k = key \/ k = val
    <3>1. \A n : n \in 1..3 <=> n = 1 \/ n = 2 \/ n = 3
      OBVIOUS
    <3>2. \A k : k \in UNION {J(n) : n \in 1..3} <=> k \in J(1) \/ k \in J(2) \/ k \in J(3)
      BY <3>1, Zenon
    <3> QED
      BY <2>1, <3>2
  <2>3. UNION {J(n) : n \in 1..3} = {key, val}
    BY <2>2, Zenon
  <2> QED
    BY <2>3 DEF J
<1>8. Last(val) = 3
  BY <1>1, <1>2, <1>3, <1>6
<1>9. key # val => Last(key) = 1
  <2> SUFFICES ASSUME key # val
               PROVE  Last(key) = 1
    OBVIOUS
  <2>1. \A n \in 1..3 : key \in Key(words[n]) <=> n = 1
    <3>1. 1..3 = {1, 2, 3}
      OBVIOUS
    <3> QED
      BY <1>1, <1>2, <1>3, <1>6, <3>1
  <2>2. \A n \in 1..3 :
          (key \in Key(words[n]) /\ \A m \in (n + 1)..3 : key \notin Key(words[m])) <=> n = 1
    BY <2>1
  <2> QED
    BY <2>2
<1> HIDE DEF Last, key, val, none
<1>10. R!ParseQuery(Q) = [k \in {key, val} |-> IF k = val THEN none ELSE val]
  BY <1>1, <1>2, <1>5, <1>6, <1>7, <1>8, <1>9
<1> QED
  BY <1>10 DEF Q, U, W, key, val, none

\* urldecode and parse_query: what is escaped comes back, for words of any length.
THEOREM DecodeCorrect == Spec => []DecodeInverts
<1>1. CodecInputs => DecodeInverts
  <2> SUFFICES ASSUME CodecInputs, codec = "decode", input # <<>>
               PROVE  /\ R!Urldecode(Encode(input)) = input
                      /\ R!ParseQuery(Encode(input) \o <<61>> \o Encode(Tail(input))
                                      \o <<38, 97, 38>> \o (Encode(Tail(input)) \o <<61>>))
                           = [k \in {input, Tail(input)} |->
                                IF k = input THEN Tail(input) ELSE <<>>]
    BY DEF DecodeInverts
  <2>1. input \in Seq(Octets) /\ Tail(input) \in Seq(Octets) /\ <<>> \in Seq(Octets)
    BY DEF CodecInputs
  <2>2. input # Tail(input)
    BY <2>1
  <2>3. \A s \in Seq(Octets) : Encode(s) \in Seq(Escapes)
    <3> TAKE s \in Seq(Octets)
    <3>1. /\ Encode(s) \in Seq(Octets) /\ Len(Encode(s)) = 3 * Len(s)
          /\ \A j \in 1..(3 * Len(s)) : Encode(s)[j] \in Escapes
      BY EncodeProperties
    <3>2. PICK E \in Seq(Octets) : E = Encode(s)
      BY <3>1
    <3>3. \A j \in 1..Len(E) : E[j] \in Escapes
      BY <3>1, <3>2
    <3> QED
      BY <3>2, <3>3
  <2>4. R!Urldecode(Encode(input)) = input /\ R!Urldecode(Encode(Tail(input))) = Tail(input)
    BY <2>1, EncodedDecodes
  <2>5. R!Urldecode(<<>>) = <<>>
    <3>1. Encode(<<>>) = <<>>
      <4>1. Len(Encode(<<>>)) = 0 /\ Encode(<<>>) \in Seq(Octets)
        <5>1. PICK z \in Seq(Octets) : z = <<>>
          BY <2>1
        <5>2. Encode(z) \in Seq(Octets) /\ Len(Encode(z)) = 3 * Len(z)
          BY EncodeProperties
        <5>3. Len(z) = 0
          BY <5>1
        <5> QED
          BY <5>1, <5>2, <5>3
      <4> QED
        BY <4>1, EmptySeq
    <3> QED
      BY <2>1, <3>1, EncodedDecodes
  <2>6. PICK K \in Seq(Escapes) : K = Encode(input)
    BY <2>1, <2>3
  <2>7. PICK V \in Seq(Escapes) : V = Encode(Tail(input))
    BY <2>1, <2>3
  <2>8. R!ParseQuery(K \o <<61>> \o V \o <<38, 97, 38>> \o (V \o <<61>>))
           = [k \in {R!Urldecode(K), R!Urldecode(V)} |->
                IF k = R!Urldecode(V) THEN R!Urldecode(<<>>) ELSE R!Urldecode(V)]
    BY QueryParsed, ZenonT(60)
  <2>9. R!Urldecode(K) = input /\ R!Urldecode(V) = Tail(input)
    BY <2>4, <2>6, <2>7
  <2>10. [k \in {input, Tail(input)} |-> IF k = Tail(input) THEN <<>> ELSE Tail(input)]
          = [k \in {input, Tail(input)} |-> IF k = input THEN Tail(input) ELSE <<>>]
    BY <2>2
  <2> QED
    <3>1. R!ParseQuery(K \o <<61>> \o V \o <<38, 97, 38>> \o (V \o <<61>>))
            = [k \in {input, Tail(input)} |-> IF k = input THEN Tail(input) ELSE <<>>]
      <4> DEFINE e == R!Urldecode(<<>>)
      <4>1. e = <<>>
        BY <2>5
      <4> HIDE DEF e
      <4>2. [k \in {R!Urldecode(K), R!Urldecode(V)} |->
                IF k = R!Urldecode(V) THEN e ELSE R!Urldecode(V)]
              = [k \in {input, Tail(input)} |-> IF k = Tail(input) THEN <<>> ELSE Tail(input)]
        BY <2>9, <4>1
      <4> QED
        BY <2>8, <2>10, <4>2 DEF e
    <3> QED
      BY <2>4, <2>6, <2>7, <3>1, Zenon
<1> QED
  BY <1>1, CodecInputsHold, PTL

\* The turns of Flat.
LEMMA FlatTurns ==
  ASSUME NEW s, NEW N \in Nat, N = Len(s)
  PROVE  \E u :
               /\ u[0] = <<>>
               /\ \A n \in 1..N : u[n] = u[n - 1] \o s[n]
               /\ Flat(s) = u[N]
<1> DEFINE Step(n, p) == p \o s[n]
           Start == <<>>
           F(g, m) == [n \in 0..m |-> IF n = 0 THEN Start ELSE Step(n, g[n - 1])]
           Upto == {m \in 0..N : \E g : g = F(g, m)}
           G == CHOOSE g : g = F(g, N)
<1>1. Flat(s) = G[N]
  BY Zenon DEF Flat
<1> HIDE DEF Step, Start
<1>2. 0 \in Upto
  <2>1. F(<<>>, 0) = F(F(<<>>, 0), 0)
    OBVIOUS
  <2> HIDE DEF F
  <2> QED
    BY <2>1
<1>3. ASSUME NEW m \in 1..N, m - 1 \in Upto
      PROVE  m \in Upto
  <2>1. PICK g : g = F(g, m - 1)
    BY <1>3
  <2> DEFINE h == F(g, m)
  <2>2. \A n \in 1..m : h[n - 1] = g[n - 1]
    BY <2>1
  <2> HIDE DEF h
  <2>3. \A n \in 0..m : (IF n = 0 THEN Start ELSE Step(n, g[n - 1]))
                            = (IF n = 0 THEN Start ELSE Step(n, h[n - 1]))
    BY <2>2
  <2>4. F(g, m) = F(h, m)
    BY <2>3
  <2> HIDE DEF F, h
  <2> QED
    BY <2>4 DEF h
<1>4. N \in Upto
  <2> HIDE DEF Upto
  <2>1. \A m \in 1..N : m - 1 \in Upto => m \in Upto
    BY <1>3
  <2>2. \A m \in 0..N : m \in Upto
    BY <1>2, <2>1, UpTo
  <2> QED
    BY <2>2
<1>5. G = F(G, N)
  <2> HIDE DEF F
  <2> QED
    BY <1>4
<1>6. G[0] = Start /\ \A n \in 1..N : G[n] = Step(n, G[n - 1])
  <2> HIDE DEF G
  <2> QED
    BY <1>5
<1> HIDE DEF G
<1> QED
  BY <1>1, <1>6, Zenon DEF Start, Step

\* The turns of Reading.
LEMMA ReadingTurns ==
  ASSUME NEW s, NEW text, NEW N \in Nat, N = Len(s)
  PROVE  \E u :
               /\ u[0] = [after |-> "none", read |-> <<>>]
               /\ \A n \in 1..N : u[n] = Take(u[n - 1], s[n], text)
               /\ Reading(s, text) = u[N]
<1> DEFINE Step(n, p) == Take(p, s[n], text)
           Start == [after |-> "none", read |-> <<>>]
           F(g, m) == [n \in 0..m |-> IF n = 0 THEN Start ELSE Step(n, g[n - 1])]
           Upto == {m \in 0..N : \E g : g = F(g, m)}
           G == CHOOSE g : g = F(g, N)
<1>1. Reading(s, text) = G[N]
  BY Zenon DEF Reading
<1> HIDE DEF Step, Start
<1>2. 0 \in Upto
  <2>1. F(<<>>, 0) = F(F(<<>>, 0), 0)
    OBVIOUS
  <2> HIDE DEF F
  <2> QED
    BY <2>1
<1>3. ASSUME NEW m \in 1..N, m - 1 \in Upto
      PROVE  m \in Upto
  <2>1. PICK g : g = F(g, m - 1)
    BY <1>3
  <2> DEFINE h == F(g, m)
  <2>2. \A n \in 1..m : h[n - 1] = g[n - 1]
    BY <2>1
  <2> HIDE DEF h
  <2>3. \A n \in 0..m : (IF n = 0 THEN Start ELSE Step(n, g[n - 1]))
                            = (IF n = 0 THEN Start ELSE Step(n, h[n - 1]))
    BY <2>2
  <2>4. F(g, m) = F(h, m)
    BY <2>3
  <2> HIDE DEF F, h
  <2> QED
    BY <2>4 DEF h
<1>4. N \in Upto
  <2> HIDE DEF Upto
  <2>1. \A m \in 1..N : m - 1 \in Upto => m \in Upto
    BY <1>3
  <2>2. \A m \in 0..N : m \in Upto
    BY <1>2, <2>1, UpTo
  <2> QED
    BY <2>2
<1>5. G = F(G, N)
  <2> HIDE DEF F
  <2> QED
    BY <1>4
<1>6. G[0] = Start /\ \A n \in 1..N : G[n] = Step(n, G[n - 1])
  <2> HIDE DEF G
  <2> QED
    BY <1>5
<1> HIDE DEF G
<1> QED
  BY <1>1, <1>6, Zenon DEF Start, Step

\* The turns of the loop that sends a text.
LEMMA PiecesTurns ==
  ASSUME NEW b, NEW escapes, NEW N \in Nat, N = Len(b)
  PROVE  \E u :
               /\ u[0] = [l |-> 1, sent |-> <<>>]
               /\ \A n \in 1..N : u[n] = T!Send(b, u[n - 1], n, escapes)
               /\ T!Pieces(b, escapes) = u[N].sent \o T!Prior(b, u[N].l, N + 1)
<1> DEFINE Step(n, p) == T!Send(b, p, n, escapes)
           Start == [l |-> 1, sent |-> <<>>]
           F(g, m) == [n \in 0..m |-> IF n = 0 THEN Start ELSE Step(n, g[n - 1])]
           Upto == {m \in 0..N : \E g : g = F(g, m)}
           G == CHOOSE g : g = F(g, N)
<1>1. T!Pieces(b, escapes) = G[N].sent \o T!Prior(b, G[N].l, N + 1)
  BY Zenon DEF T!Pieces
<1> HIDE DEF Step, Start
<1>2. 0 \in Upto
  <2>1. F(<<>>, 0) = F(F(<<>>, 0), 0)
    OBVIOUS
  <2> HIDE DEF F
  <2> QED
    BY <2>1
<1>3. ASSUME NEW m \in 1..N, m - 1 \in Upto
      PROVE  m \in Upto
  <2>1. PICK g : g = F(g, m - 1)
    BY <1>3
  <2> DEFINE h == F(g, m)
  <2>2. \A n \in 1..m : h[n - 1] = g[n - 1]
    BY <2>1
  <2> HIDE DEF h
  <2>3. \A n \in 0..m : (IF n = 0 THEN Start ELSE Step(n, g[n - 1]))
                            = (IF n = 0 THEN Start ELSE Step(n, h[n - 1]))
    BY <2>2
  <2>4. F(g, m) = F(h, m)
    BY <2>3
  <2> HIDE DEF F, h
  <2> QED
    BY <2>4 DEF h
<1>4. N \in Upto
  <2> HIDE DEF Upto
  <2>1. \A m \in 1..N : m - 1 \in Upto => m \in Upto
    BY <1>3
  <2>2. \A m \in 0..N : m \in Upto
    BY <1>2, <2>1, UpTo
  <2> QED
    BY <2>2
<1>5. G = F(G, N)
  <2> HIDE DEF F
  <2> QED
    BY <1>4
<1>6. G[0] = Start /\ \A n \in 1..N : G[n] = Step(n, G[n - 1])
  <2> HIDE DEF G
  <2> QED
    BY <1>5
<1> HIDE DEF G
<1> QED
  BY <1>1, <1>6, Zenon DEF Start, Step

\* Flat of one more, and of one before.
LEMMA FlatAppend ==
  ASSUME NEW s \in Seq(Seq(Octets)), NEW x \in Seq(Octets)
  PROVE  Flat(s) \in Seq(Octets) /\ Flat(Append(s, x)) = Flat(s) \o x
<1>1. PICK N \in Nat : N = Len(s)
  BY LenProperties
<1>2. PICK e : e = Append(s, x)
  OBVIOUS
<1>3. Len(e) = N + 1 /\ N + 1 \in Nat /\ e[N + 1] = x /\ \A n \in 1..N : e[n] = s[n]
  BY <1>1, <1>2
<1>4. PICK u : u[0] = <<>> /\ (\A n \in 1..N : u[n] = u[n - 1] \o s[n]) /\ Flat(s) = u[N]
  BY <1>1, FlatTurns, Zenon
<1>5. PICK v : v[0] = <<>> /\ (\A n \in 1..(N + 1) : v[n] = v[n - 1] \o e[n])
               /\ Flat(e) = v[N + 1]
  <2> DEFINE M == N + 1
  <2>1. M \in Nat /\ M = Len(e)
    BY <1>3
  <2> HIDE DEF M
  <2>2. \E v : v[0] = <<>> /\ (\A n \in 1..M : v[n] = v[n - 1] \o e[n]) /\ Flat(e) = v[M]
    BY <2>1, FlatTurns, Zenon
  <2> QED
    BY <2>2 DEF M
<1> DEFINE Same == {n \in 0..N : u[n] = v[n] /\ u[n] \in Seq(Octets)}
<1>6. N \in Same
  <2>1. 0 \in Same
    <3>1. <<>> \in Seq(Octets) /\ 0 \in 0..N
      OBVIOUS
    <3> QED
      BY <1>4, <1>5, <3>1, Zenon
  <2>2. ASSUME NEW n \in 1..N, n - 1 \in Same
        PROVE  n \in Same
    <3>1. s[n] \in Seq(Octets) /\ e[n] = s[n] /\ n \in 1..(N + 1) /\ n \in 0..N
      BY <1>1, <1>3, ElementOfSeq
    <3>2. u[n - 1] \in Seq(Octets) /\ u[n - 1] = v[n - 1]
      BY <2>2
    <3>3. u[n - 1] \o s[n] \in Seq(Octets)
      BY <3>1, <3>2, ConcatProperties
    <3>4. u[n] = u[n - 1] \o s[n] /\ v[n] = v[n - 1] \o e[n]
      BY <1>4, <1>5, <3>1, Zenon
    <3> QED
      BY <3>1, <3>2, <3>3, <3>4
  <2>3. \A n \in 1..N : n - 1 \in Same => n \in Same
    BY <2>2
  <2> HIDE DEF Same
  <2>4. \A n \in 0..N : n \in Same
    BY <2>1, <2>3, UpTo
  <2> QED
    BY <2>4
<1>7. u[N] = v[N] /\ u[N] \in Seq(Octets)
  BY <1>6
<1>8. v[N + 1] = v[N] \o x
  <2>1. N + 1 \in 1..(N + 1) /\ (N + 1) - 1 = N
    OBVIOUS
  <2> QED
    BY <1>3, <1>5, <2>1
<1> QED
  BY <1>2, <1>4, <1>5, <1>7, <1>8

LEMMA FlatEmpty == Flat(<<>>) = <<>>
<1>1. Len(<<>>) = 0 /\ 0 \in Nat
  OBVIOUS
<1> QED
  BY <1>1, FlatTurns, Zenon

LEMMA FlatCons ==
  ASSUME NEW s \in Seq(Seq(Octets)), NEW x \in Seq(Octets)
  PROVE  Flat(<<x>> \o s) = x \o Flat(s)
<1>1. PICK N \in Nat : N = Len(s)
  BY LenProperties
<1>2. PICK e : e = <<x>> \o s
  OBVIOUS
<1>3. Len(e) = N + 1 /\ N + 1 \in Nat /\ e[1] = x /\ \A n \in 1..N : e[n + 1] = s[n]
  <2>1. <<x>> \in Seq(Seq(Octets)) /\ Len(<<x>>) = 1 /\ <<x>>[1] = x
    OBVIOUS
  <2>2. /\ Len(<<x>> \o s) = Len(<<x>>) + Len(s)
        /\ \A i \in 1..Len(<<x>>) + Len(s) :
             (<<x>> \o s)[i] = IF i <= Len(<<x>>) THEN <<x>>[i] ELSE s[i - Len(<<x>>)]
    BY <2>1, ConcatProperties
  <2>3. /\ Len(e) = 1 + N
        /\ \A i \in 1..(1 + N) : e[i] = IF i <= 1 THEN <<x>>[i] ELSE s[i - 1]
    BY <1>1, <1>2, <2>1, <2>2
  <2>4. \A n \in 1..N : n + 1 \in 1..(1 + N) /\ ~(n + 1 <= 1) /\ (n + 1) - 1 = n
    OBVIOUS
  <2> QED
    BY <2>1, <2>3, <2>4
<1>4. PICK u : u[0] = <<>> /\ (\A n \in 1..N : u[n] = u[n - 1] \o s[n]) /\ Flat(s) = u[N]
  BY <1>1, FlatTurns, Zenon
<1>5. PICK v : v[0] = <<>> /\ (\A n \in 1..(N + 1) : v[n] = v[n - 1] \o e[n])
               /\ Flat(e) = v[N + 1]
  <2> DEFINE M == N + 1
  <2>1. M \in Nat /\ M = Len(e)
    BY <1>3
  <2> HIDE DEF M
  <2>2. \E v : v[0] = <<>> /\ (\A n \in 1..M : v[n] = v[n - 1] \o e[n]) /\ Flat(e) = v[M]
    BY <2>1, FlatTurns, Zenon
  <2> QED
    BY <2>2 DEF M
<1> DEFINE Same == {n \in 0..N : v[n + 1] = x \o u[n] /\ u[n] \in Seq(Octets)}
<1>6. N \in Same
  <2>1. 0 \in Same
    <3>1. <<>> \in Seq(Octets) /\ 0 \in 0..N /\ 0 + 1 \in 1..(N + 1) /\ (0 + 1) - 1 = 0
          /\ 0 + 1 = 1
      OBVIOUS
    <3>2. v[0 + 1] = <<>> \o x
      BY <1>3, <1>5, <3>1
    <3>3. <<>> \o x = x /\ x \o <<>> = x
      BY ConcatEmptySeq
    <3> QED
      BY <1>4, <3>1, <3>2, <3>3, Zenon
  <2>2. ASSUME NEW n \in 1..N, n - 1 \in Same
        PROVE  n \in Same
    <3>1. s[n] \in Seq(Octets) /\ e[n + 1] = s[n] /\ n + 1 \in 1..(N + 1) /\ n \in 0..N
          /\ (n + 1) - 1 = n /\ (n - 1) + 1 = n
      BY <1>1, <1>3, ElementOfSeq
    <3>2. u[n - 1] \in Seq(Octets) /\ v[n] = x \o u[n - 1]
      BY <2>2, <3>1
    <3>3. u[n - 1] \o s[n] \in Seq(Octets)
      BY <3>1, <3>2, ConcatProperties
    <3>4. u[n] = u[n - 1] \o s[n] /\ v[n + 1] = v[n] \o s[n]
      BY <1>4, <1>5, <3>1
    <3>5. (x \o u[n - 1]) \o s[n] = x \o (u[n - 1] \o s[n])
      <4>1. PICK y \in Seq(Octets) : y = u[n - 1]
        BY <3>2
      <4>2. PICK z \in Seq(Octets) : z = s[n]
        BY <3>1
      <4>3. (x \o y) \o z = x \o (y \o z)
        BY ConcatAssociative, SMTT(60)
      <4> QED
        BY <4>1, <4>2, <4>3
    <3> QED
      BY <3>1, <3>2, <3>3, <3>4, <3>5
  <2>3. \A n \in 1..N : n - 1 \in Same => n \in Same
    BY <2>2
  <2> HIDE DEF Same
  <2>4. \A n \in 0..N : n \in Same
    BY <2>1, <2>3, UpTo
  <2> QED
    BY <2>4
<1> QED
  BY <1>2, <1>4, <1>5, <1>6

\* Reading of one octet more.
LEMMA ReadingAppend ==
  ASSUME NEW s \in Seq(Octets), NEW o \in Octets, NEW text
  PROVE  Reading(Append(s, o), text) = Take(Reading(s, text), o, text)
<1>1. PICK N \in Nat : N = Len(s)
  BY LenProperties
<1>2. PICK e : e = Append(s, o)
  OBVIOUS
<1>3. Len(e) = N + 1 /\ N + 1 \in Nat /\ e[N + 1] = o /\ \A n \in 1..N : e[n] = s[n]
  BY <1>1, <1>2
<1> DEFINE Start == [after |-> "none", read |-> <<>>]
<1>4. PICK u : u[0] = Start /\ (\A n \in 1..N : u[n] = Take(u[n - 1], s[n], text))
               /\ Reading(s, text) = u[N]
  BY <1>1, ReadingTurns, SMTT(30)
<1>5. PICK v : v[0] = Start /\ (\A n \in 1..(N + 1) : v[n] = Take(v[n - 1], e[n], text))
               /\ Reading(e, text) = v[N + 1]
  BY <1>3, ReadingTurns, SMTT(60)
<1> DEFINE Same == {n \in 0..N : u[n] = v[n]}
<1>6. N \in Same
  <2>1. 0 \in Same
    BY <1>4, <1>5
  <2>2. \A n \in 1..N : n - 1 \in Same => n \in Same
    BY <1>3, <1>4, <1>5
  <2> HIDE DEF Same
  <2>3. \A n \in 0..N : n \in Same
    BY <2>1, <2>2, UpTo
  <2> QED
    BY <2>3
<1>7. v[N + 1] = Take(v[N], o, text)
  <2>1. N + 1 \in 1..(N + 1) /\ (N + 1) - 1 = N
    OBVIOUS
  <2> QED
    BY <1>3, <1>5, <2>1
<1> QED
  BY <1>2, <1>4, <1>5, <1>6, <1>7

LEMMA ReadingEmpty ==
  ASSUME NEW text
  PROVE  Reading(<<>>, text) = [after |-> "none", read |-> <<>>]
<1>1. Len(<<>>) = 0 /\ 0 \in Nat
  OBVIOUS
<1> QED
  BY <1>1, ReadingTurns

\* A receiver reads the octets of an octet as that octet.
ReadAsSent(escapes, text) ==
  \A o \in Octets :
    IF o \in DOMAIN escapes
    THEN \E x, y \in Octets :
           /\ escapes[o] = <<x, y>>
           /\ \A r \in Seq(Octets) :
                Take(Take([after |-> "none", read |-> r], x, text), y, text)
                  = [after |-> "none", read |-> Append(r, o)]
    ELSE \A r \in Seq(Octets) :
           Take([after |-> "none", read |-> r], o, text)
             = [after |-> "none", read |-> Append(r, o)]

LEMMA RawRead == ReadAsSent(T!RawEscapes, FALSE)
<1> SUFFICES ASSUME NEW o \in Octets
             PROVE  IF o \in DOMAIN T!RawEscapes
    THEN \E x, y \in Octets :
           /\ T!RawEscapes[o] = <<x, y>>
           /\ \A r \in Seq(Octets) :
                Take(Take([after |-> "none", read |-> r], x, FALSE), y, FALSE)
                  = [after |-> "none", read |-> Append(r, o)]
    ELSE \A r \in Seq(Octets) :
           Take([after |-> "none", read |-> r], o, FALSE)
             = [after |-> "none", read |-> Append(r, o)]
  BY DEF ReadAsSent
<1>1. DOMAIN T!RawEscapes = {255}
  BY DEF T!RawEscapes, T!IAC
<1>2. CASE o = 255
  <2>1. T!RawEscapes[o] = <<255, 255>> /\ 255 \in Octets
    BY <1>2 DEF T!RawEscapes, T!IAC, Octets
  <2>2. ASSUME NEW r \in Seq(Octets)
        PROVE  Take(Take([after |-> "none", read |-> r], 255, FALSE), 255, FALSE)
                 = [after |-> "none", read |-> Append(r, o)]
    <3>1. Take([after |-> "none", read |-> r], 255, FALSE) = [after |-> "IAC", read |-> r]
      BY DEF Take, T!IAC
    <3>2. Take([after |-> "IAC", read |-> r], 255, FALSE)
            = [after |-> "none", read |-> Append(r, 255)]
      BY DEF Take, T!IAC
    <3> QED
      BY <1>2, <3>1, <3>2, ZenonT(60)
  <2>3. \E x, y \in Octets :
          /\ T!RawEscapes[o] = <<x, y>>
          /\ \A r \in Seq(Octets) :
               Take(Take([after |-> "none", read |-> r], x, FALSE), y, FALSE)
                 = [after |-> "none", read |-> Append(r, o)]
    <3>1. PICK c \in Octets : c = 255
      BY <2>1
    <3>2. /\ T!RawEscapes[o] = <<c, c>>
          /\ \A r \in Seq(Octets) :
               Take(Take([after |-> "none", read |-> r], c, FALSE), c, FALSE)
                 = [after |-> "none", read |-> Append(r, o)]
      BY <2>1, <2>2, <3>1
    <3> QED
      BY <3>2, Zenon
  <2> QED
    BY <1>1, <1>2, <2>3, Zenon
<1>3. CASE o # 255
  <2>1. ASSUME NEW r \in Seq(Octets)
        PROVE  Take([after |-> "none", read |-> r], o, FALSE)
                 = [after |-> "none", read |-> Append(r, o)]
    BY <1>3 DEF Take, T!IAC
  <2> QED
    BY <1>1, <1>3, <2>1
<1> QED
  BY <1>2, <1>3

LEMMA TextRead == ReadAsSent(T!TextEscapes, TRUE)
<1> SUFFICES ASSUME NEW o \in Octets
             PROVE  IF o \in DOMAIN T!TextEscapes
    THEN \E x, y \in Octets :
           /\ T!TextEscapes[o] = <<x, y>>
           /\ \A r \in Seq(Octets) :
                Take(Take([after |-> "none", read |-> r], x, TRUE), y, TRUE)
                  = [after |-> "none", read |-> Append(r, o)]
    ELSE \A r \in Seq(Octets) :
           Take([after |-> "none", read |-> r], o, TRUE)
             = [after |-> "none", read |-> Append(r, o)]
  BY DEF ReadAsSent
<1>1. DOMAIN T!TextEscapes = {255, 13, 10}
  BY DEF T!TextEscapes, T!IAC, T!CR, T!LF
<1>2. /\ T!TextEscapes[255] = <<255, 255>> /\ T!TextEscapes[13] = <<13, 0>>
      /\ T!TextEscapes[10] = <<13, 10>>
      /\ 255 \in Octets /\ 13 \in Octets /\ 10 \in Octets /\ 0 \in Octets
  BY DEF T!TextEscapes, T!IAC, T!CR, T!LF, T!NUL, Octets
<1>3. ASSUME NEW r \in Seq(Octets)
      PROVE  /\ Take([after |-> "none", read |-> r], 255, TRUE) = [after |-> "IAC", read |-> r]
             /\ Take([after |-> "none", read |-> r], 13, TRUE) = [after |-> "CR", read |-> r]
             /\ Take([after |-> "IAC", read |-> r], 255, TRUE)
                  = [after |-> "none", read |-> Append(r, 255)]
             /\ Take([after |-> "CR", read |-> r], 0, TRUE)
                  = [after |-> "none", read |-> Append(r, 13)]
             /\ Take([after |-> "CR", read |-> r], 10, TRUE)
                  = [after |-> "none", read |-> Append(r, 10)]
  BY DEF Take, T!IAC, T!CR, T!LF, T!NUL
<1>4. CASE o \in {255, 13, 10}
  <2>1. PICK y \in {255, 0, 10} : y = IF o = 13 THEN 0 ELSE o
    BY <1>4
  <2>2. PICK x \in {255, 13} : x = IF o = 255 THEN 255 ELSE 13
    OBVIOUS
  <2>3. x \in Octets /\ y \in Octets /\ T!TextEscapes[o] = <<x, y>>
    BY <1>2, <1>4, <2>1, <2>2
  <2>4. ASSUME NEW r \in Seq(Octets)
        PROVE  Take(Take([after |-> "none", read |-> r], x, TRUE), y, TRUE)
                 = [after |-> "none", read |-> Append(r, o)]
    <3>1. CASE o = 255
      <4>1. x = 255 /\ y = 255
        BY <2>1, <2>2, <3>1
      <4>2. /\ Take([after |-> "none", read |-> r], 255, TRUE) = [after |-> "IAC", read |-> r]
            /\ Take([after |-> "IAC", read |-> r], 255, TRUE)
                 = [after |-> "none", read |-> Append(r, 255)]
        BY <1>3, ZenonT(60)
      <4> QED
        BY <3>1, <4>1, <4>2, ZenonT(60)
    <3>2. CASE o = 13
      <4>1. x = 13 /\ y = 0
        BY <2>1, <2>2, <3>2
      <4>2. /\ Take([after |-> "none", read |-> r], 13, TRUE) = [after |-> "CR", read |-> r]
            /\ Take([after |-> "CR", read |-> r], 0, TRUE)
                 = [after |-> "none", read |-> Append(r, 13)]
        BY <1>3, ZenonT(60)
      <4> QED
        BY <3>2, <4>1, <4>2, Zenon
    <3>3. CASE o = 10
      <4>1. x = 13 /\ y = 10
        BY <2>1, <2>2, <3>3
      <4>2. /\ Take([after |-> "none", read |-> r], 13, TRUE) = [after |-> "CR", read |-> r]
            /\ Take([after |-> "CR", read |-> r], 10, TRUE)
                 = [after |-> "none", read |-> Append(r, 10)]
        BY <1>3, ZenonT(60)
      <4> QED
        BY <3>3, <4>1, <4>2, Zenon
    <3> QED
      BY <1>4, <3>1, <3>2, <3>3
  <2>5. \E a, c \in Octets :
          /\ T!TextEscapes[o] = <<a, c>>
          /\ \A r \in Seq(Octets) :
               Take(Take([after |-> "none", read |-> r], a, TRUE), c, TRUE)
                 = [after |-> "none", read |-> Append(r, o)]
    BY <2>3, <2>4, Zenon
  <2> QED
    BY <1>1, <1>4, <2>5, Zenon
<1>5. CASE o \notin {255, 13, 10}
  <2>1. ASSUME NEW r \in Seq(Octets)
        PROVE  Take([after |-> "none", read |-> r], o, TRUE)
                 = [after |-> "none", read |-> Append(r, o)]
    BY <1>5 DEF Take, T!IAC, T!CR
  <2> QED
    BY <1>1, <1>5, <2>1
<1> QED
  BY <1>4, <1>5

\* Two octets more.
LEMMA AppendTwo ==
  ASSUME NEW w \in Seq(Octets), NEW x \in Octets, NEW y \in Octets
  PROVE  /\ Append(w, x) \in Seq(Octets) /\ Append(Append(w, x), y) \in Seq(Octets)
         /\ w \o <<x, y>> = Append(Append(w, x), y)
<1>1. PICK n \in Nat : n = Len(w)
  BY LenProperties
<1>2. Append(w, x) \in Seq(Octets) /\ Append(Append(w, x), y) \in Seq(Octets)
  OBVIOUS
<1>3. w \o <<x, y>> = Append(Append(w, x), y)
  BY <1>1
<1> QED
  BY <1>2, <1>3

LEMMA OctetsAssociate ==
  ASSUME NEW x \in Seq(Octets), NEW y \in Seq(Octets), NEW z \in Seq(Octets)
  PROVE  (x \o y) \o z = x \o (y \o z)
BY ConcatAssociative

LEMMA AppendOne ==
  ASSUME NEW s \in Seq(Octets), NEW x
  PROVE  Append(s, x) = s \o <<x>>
<1>1. PICK n \in Nat : n = Len(s)
  BY LenProperties
<1> QED
  BY <1>1

\* A piece of a text, and one that ends with the next octet.
LEMMA SubSeqMore ==
  ASSUME NEW X, NEW b \in Seq(X), NEW n \in 1..Len(b), NEW l \in 1..n
  PROVE  /\ SubSeq(b, l, n - 1) \in Seq(X)
         /\ b[n] \in X
         /\ SubSeq(b, l, n) = Append(SubSeq(b, l, n - 1), b[n])
<1>1. PICK N \in Nat : N = Len(b) /\ n \in 1..N
  BY LenProperties
<1>2. b[n] \in X
  BY ElementOfSeq
<1>3. SubSeq(b, l, n - 1) \in Seq(X)
  BY <1>1
<1>4. SubSeq(b, l, n) = Append(SubSeq(b, l, n - 1), b[n])
  BY <1>1
<1> QED
  BY <1>2, <1>3, <1>4

\* What is sent before a position that is escaped.
LEMMA FlatPrior ==
  ASSUME NEW b \in Seq(Octets), NEW sent \in Seq(Seq(Octets)),
         NEW i \in 1..(Len(b) + 1), NEW l \in 1..i
  PROVE  /\ sent \o T!Prior(b, l, i) \in Seq(Seq(Octets))
         /\ Flat(sent \o T!Prior(b, l, i)) = Flat(sent) \o SubSeq(b, l, i - 1)
<1>1. Flat(sent) \in Seq(Octets)
  <2>1. <<>> \in Seq(Octets)
    OBVIOUS
  <2> QED
    BY <2>1, FlatAppend
<1>2. CASE l = i
  <2>1. T!Prior(b, l, i) = <<>>
    BY <1>2 DEF T!Prior
  <2>2. SubSeq(b, l, i - 1) = <<>>
    <3>1. l \in Int /\ i - 1 \in Int /\ i - 1 < l
      BY <1>2
    <3> QED
      BY <3>1, SubSeqEmpty
  <2>3. sent \o <<>> = sent /\ Flat(sent) \o <<>> = Flat(sent)
    BY <1>1, ConcatEmptySeq
  <2> QED
    BY <2>1, <2>2, <2>3
<1>3. CASE l # i
  <2>1. PICK x : x = SubSeq(b, l, i - 1)
    OBVIOUS
  <2>2. x \in Seq(Octets)
    BY <1>3, <2>1
  <2>3. T!Prior(b, l, i) = <<x>>
    BY <1>3, <2>1 DEF T!Prior
  <2>4. sent \o <<x>> = Append(sent, x) /\ Append(sent, x) \in Seq(Seq(Octets))
    BY <2>2
  <2>5. Flat(Append(sent, x)) = Flat(sent) \o x
    BY <2>2, FlatAppend
  <2> QED
    BY <2>1, <2>3, <2>4, <2>5, Zenon
<1> QED
  BY <1>2, <1>3

\* The pieces of a text are read as the text.
LEMMA PiecesRead ==
  ASSUME NEW b \in Seq(Octets), NEW escapes, NEW text, ReadAsSent(escapes, text)
  PROVE  /\ T!Pieces(b, escapes) \in Seq(Seq(Octets))
         /\ Flat(T!Pieces(b, escapes)) \in Seq(Octets)
         /\ Reading(Flat(T!Pieces(b, escapes)), text) = [after |-> "none", read |-> b]
<1>1. PICK N \in Nat : N = Len(b)
  BY LenProperties
<1>2. PICK u : /\ u[0] = [l |-> 1, sent |-> <<>>]
               /\ \A n \in 1..N : u[n] = T!Send(b, u[n - 1], n, escapes)
               /\ T!Pieces(b, escapes) = u[N].sent \o T!Prior(b, u[N].l, N + 1)
  BY <1>1, PiecesTurns, ZenonT(60)
<1> DEFINE Wire(n) == Flat(u[n].sent) \o SubSeq(b, u[n].l, n)
           Good(n) == /\ u[n].sent \in Seq(Seq(Octets)) /\ u[n].l \in 1..(n + 1)
                      /\ Wire(n) \in Seq(Octets)
                      /\ Reading(Wire(n), text) = [after |-> "none", read |-> SubSeq(b, 1, n)]
           Fine == {n \in 0..N : Good(n)}
<1>3. 0 \in Fine
  <2>1. <<>> \in Seq(Seq(Octets)) /\ <<>> \in Seq(Octets) /\ SubSeq(b, 1, 0) = <<>>
    OBVIOUS
  <2>2. <<>> \o <<>> = <<>>
    BY <2>1, ConcatEmptySeq
  <2>3. u[0].sent = <<>> /\ u[0].l = 1
    BY <1>2
  <2>4. Wire(0) = <<>>
    BY <2>1, <2>2, <2>3, FlatEmpty, Zenon
  <2> HIDE DEF Wire
  <2>5. Reading(<<>>, text) = [after |-> "none", read |-> <<>>]
    BY ReadingEmpty
  <2>6. u[0].sent \in Seq(Seq(Octets)) /\ u[0].l \in 1..(0 + 1)
    BY <2>1, <2>3
  <2>7. Good(0)
    BY <2>1, <2>4, <2>5, <2>6, Zenon
  <2> HIDE DEF Good
  <2> QED
    BY <2>7
<1>4. ASSUME NEW n \in 1..N, n - 1 \in Fine
      PROVE  n \in Fine
  <2>1. PICK p : p = u[n - 1]
    OBVIOUS
  <2>2. PICK w : w = Wire(n - 1)
    OBVIOUS
  <2>3. /\ p.sent \in Seq(Seq(Octets)) /\ p.l \in 1..n /\ w \in Seq(Octets)
        /\ w = Flat(p.sent) \o SubSeq(b, p.l, n - 1)
        /\ Reading(w, text) = [after |-> "none", read |-> SubSeq(b, 1, n - 1)]
    <3>1. Good(n - 1)
      BY <1>4
    <3>2. (n - 1) + 1 = n
      OBVIOUS
    <3> QED
      BY <2>1, <2>2, <3>1, <3>2, Zenon
  <2>4. u[n] = T!Send(b, p, n, escapes)
    BY <1>2, <2>1
  <2>5. /\ b[n] \in Octets /\ SubSeq(b, 1, n - 1) \in Seq(Octets)
        /\ Append(SubSeq(b, 1, n - 1), b[n]) = SubSeq(b, 1, n)
    BY <1>1, ElementOfSeq
  <2>6. CASE b[n] \notin DOMAIN escapes
    <3>1. u[n] = p
      BY <2>4, <2>6 DEF T!Send
    <3>2. Wire(n) = Append(w, b[n])
      <4>1. /\ SubSeq(b, p.l, n - 1) \in Seq(Octets)
            /\ SubSeq(b, p.l, n) = Append(SubSeq(b, p.l, n - 1), b[n])
        BY <1>1, <2>3, SubSeqMore
      <4>2. PICK f \in Seq(Octets) : f = Flat(p.sent)
        <5>1. <<>> \in Seq(Octets)
          OBVIOUS
        <5> QED
          BY <2>3, <5>1, FlatAppend
      <4>3. PICK g \in Seq(Octets) : g = SubSeq(b, p.l, n - 1)
        BY <4>1
      <4>4. f \o Append(g, b[n]) = Append(f \o g, b[n])
        BY <2>5
      <4> QED
        BY <2>3, <3>1, <4>1, <4>2, <4>3, <4>4
    <3>3. Take([after |-> "none", read |-> SubSeq(b, 1, n - 1)], b[n], text)
            = [after |-> "none", read |-> SubSeq(b, 1, n)]
      BY <2>5, <2>6 DEF ReadAsSent
    <3>4. Reading(Wire(n), text) = [after |-> "none", read |-> SubSeq(b, 1, n)]
      BY <2>3, <2>5, <3>2, <3>3, ReadingAppend, ZenonT(60)
    <3>5. Wire(n) \in Seq(Octets)
      BY <2>3, <2>5, <3>2
    <3> HIDE DEF Wire
    <3> QED
      BY <2>3, <3>1, <3>4, <3>5, SMTT(60)
  <2>7. CASE b[n] \in DOMAIN escapes
    <3>1. PICK x, y \in Octets :
            /\ escapes[b[n]] = <<x, y>>
            /\ \A r \in Seq(Octets) :
                 Take(Take([after |-> "none", read |-> r], x, text), y, text)
                   = [after |-> "none", read |-> Append(r, b[n])]
      BY <2>5, <2>7 DEF ReadAsSent
    <3>2. PICK s : s = p.sent \o T!Prior(b, p.l, n)
      OBVIOUS
    <3>3. s \in Seq(Seq(Octets)) /\ Flat(s) = w
      <4>1. n \in 1..(Len(b) + 1)
        BY <1>1
      <4> QED
        BY <2>3, <3>2, <4>1, FlatPrior
    <3>4. u[n] = [l |-> n + 1, sent |-> Append(s, <<x, y>>)]
      <4>1. s \o <<<<x, y>>>> = Append(s, <<x, y>>)
        BY <3>3
      <4> QED
        BY <2>4, <2>7, <3>1, <3>2, <4>1 DEF T!Send
    <3>5. <<x, y>> \in Seq(Octets)
      OBVIOUS
    <3>6. Append(s, <<x, y>>) \in Seq(Seq(Octets))
      BY <3>3, <3>5
    <3>7. Flat(Append(s, <<x, y>>)) = Append(Append(w, x), y)
      <4>1. Flat(Append(s, <<x, y>>)) = w \o <<x, y>>
        BY <3>3, <3>5, FlatAppend
      <4>2. w \o <<x, y>> = Append(Append(w, x), y)
        BY <2>3, AppendTwo
      <4> QED
        BY <4>1, <4>2
    <3>8. SubSeq(b, n + 1, n) = <<>>
      <4>1. n + 1 \in Int /\ n \in Int /\ n < n + 1
        OBVIOUS
      <4> QED
        BY <4>1, SubSeqEmpty
    <3>9. PICK z \in Seq(Octets) : z = Append(Append(w, x), y)
      BY <2>3, AppendTwo
    <3>10. Wire(n) = z
      <4>1. u[n].sent = Append(s, <<x, y>>) /\ u[n].l = n + 1
        BY <3>4
      <4>2. z \o <<>> = z
        BY ConcatEmptySeq
      <4> QED
        BY <3>7, <3>8, <3>9, <4>1, <4>2
    <3>11. Reading(z, text) = [after |-> "none", read |-> SubSeq(b, 1, n)]
      <4>1. Append(w, x) \in Seq(Octets)
        BY <2>3, AppendTwo
      <4>2. Reading(z, text) = Take(Take(Reading(w, text), x, text), y, text)
        <5>1. Reading(Append(w, x), text) = Take(Reading(w, text), x, text)
          BY <2>3, ReadingAppend
        <5>2. Reading(Append(Append(w, x), y), text) = Take(Reading(Append(w, x), text), y, text)
          BY <4>1, ReadingAppend
        <5> QED
          BY <3>9, <5>1, <5>2
      <4> QED
        BY <2>3, <2>5, <3>1, <4>2
    <3> HIDE DEF Wire
    <3>12. u[n].sent \in Seq(Seq(Octets)) /\ u[n].l \in 1..(n + 1)
      BY <3>4, <3>6
    <3> QED
      BY <3>10, <3>11, <3>12
  <2> QED
    BY <2>6, <2>7
<1>5. Good(N)
  <2>1. \A n \in 1..N : n - 1 \in Fine => n \in Fine
    BY <1>4
  <2> HIDE DEF Fine
  <2>2. \A n \in 0..N : n \in Fine
    BY <1>3, <2>1, UpTo
  <2>3. N \in Fine
    BY <2>2, SMTT(60)
  <2> QED
    BY <2>3 DEF Fine
<1>6. /\ T!Pieces(b, escapes) \in Seq(Seq(Octets))
      /\ Flat(T!Pieces(b, escapes)) = Wire(N)
  <2>1. PICK s \in Seq(Seq(Octets)) : s = u[N].sent
    BY <1>5
  <2>2. PICK l \in 1..(N + 1) : l = u[N].l
    BY <1>5
  <2>3. N + 1 \in 1..(Len(b) + 1) /\ (N + 1) - 1 = N
    BY <1>1
  <2>4. /\ s \o T!Prior(b, l, N + 1) \in Seq(Seq(Octets))
        /\ Flat(s \o T!Prior(b, l, N + 1)) = Flat(s) \o SubSeq(b, l, (N + 1) - 1)
    BY <2>3, FlatPrior
  <2> QED
    BY <1>2, <2>1, <2>2, <2>3, <2>4
<1>7. SubSeq(b, 1, N) = b
  BY <1>1
<1> HIDE DEF Wire
<1> QED
  BY <1>5, <1>6, <1>7

\* telnet_send, telnet_send_text, telnet_vprintf, telnet_subnegotiation: no octet
\* of a text of any length is lost, added or taken for a command.
THEOREM SendCorrect == Spec => []SendReadable
<1>1. CodecInputs => SendReadable
  <2> SUFFICES ASSUME CodecInputs, codec = "send"
               PROVE  LET sub == Flat(T!TelnetSubnegotiation(9, input)) IN
                      /\ Read(Flat(T!TelnetSend(input)), FALSE) = input
                      /\ Read(Flat(T!TelnetSendText(input, TRUE)), FALSE) = input
                      /\ Read(Flat(T!TelnetSendText(input, FALSE)), TRUE) = input
                      /\ Read(Flat(T!TelnetPrintf(input)), TRUE) = input
                      /\ SubSeq(sub, 1, 3) = <<T!IAC, T!SB, 9>>
                      /\ Read(SubSeq(sub, 4, Len(sub)), FALSE) = input \o <<-1>>
    BY DEF SendReadable
  <2>1. PICK b \in Seq(Octets) : b = input
    BY DEF CodecInputs
  <2>2. ASSUME NEW s, NEW text, NEW r, Reading(s, text) = [after |-> "none", read |-> r]
        PROVE  Read(s, text) = r
    BY <2>2 DEF Read
  <2> DEFINE raw == T!Pieces(b, T!RawEscapes)
             txt == T!Pieces(b, T!TextEscapes)
  <2>3. /\ raw \in Seq(Seq(Octets)) /\ Flat(raw) \in Seq(Octets)
        /\ Reading(Flat(raw), FALSE) = [after |-> "none", read |-> b]
    BY RawRead, PiecesRead
  <2>4. Reading(Flat(txt), TRUE) = [after |-> "none", read |-> b]
    BY TextRead, PiecesRead
  <2>5. /\ T!TelnetSend(input) = raw /\ T!TelnetSendText(input, TRUE) = raw
        /\ T!TelnetSendText(input, FALSE) = txt /\ T!TelnetPrintf(input) = txt
    BY <2>1 DEF T!TelnetSend, T!TelnetSendText, T!TelnetPrintf
  <2> HIDE DEF raw, txt
  <2>6. /\ Read(Flat(T!TelnetSend(input)), FALSE) = input
        /\ Read(Flat(T!TelnetSendText(input, TRUE)), FALSE) = input
        /\ Read(Flat(T!TelnetSendText(input, FALSE)), TRUE) = input
        /\ Read(Flat(T!TelnetPrintf(input)), TRUE) = input
    <3>1. Read(Flat(raw), FALSE) = b
      BY <2>2, <2>3
    <3>2. Read(Flat(txt), TRUE) = b
      BY <2>2, <2>4
    <3> QED
      BY <2>1, <2>5, <3>1, <3>2
  <2>7. PICK w \in Seq(Octets) : w = Flat(raw)
    BY <2>3
  <2>8. PICK a, c \in Octets : a = 255 /\ c = 240
    BY DEF Octets
  <2>9. PICK end \in Seq(Octets) : end = <<a, c>>
    <3>1. <<a, c>> \in Seq(Octets)
      OBVIOUS
    <3> QED
      BY <3>1
  <2>13. PICK start \in Seq(Octets) : start = <<255, 250, 9>> /\ Len(start) = 3
    <3>1. 255 \in Octets /\ 250 \in Octets /\ 9 \in Octets
      BY DEF Octets
    <3>2. <<255, 250, 9>> \in Seq(Octets) /\ Len(<<255, 250, 9>>) = 3
      BY <3>1
    <3> QED
      BY <3>2
  <2>14. PICK z \in Seq(Octets) : z = Append(Append(w, a), c) /\ z = w \o end
    BY <2>9, AppendTwo, ZenonT(60)
  <2>10. Flat(T!TelnetSubnegotiation(9, input)) = start \o z
    <3>1. T!TelnetSubnegotiation(9, input) = (<<start>> \o raw) \o <<end>>
      BY <2>5, <2>8, <2>9, <2>13 DEF T!TelnetSubnegotiation, T!IAC, T!SB, T!SE
    <3>2. <<start>> \in Seq(Seq(Octets))
      OBVIOUS
    <3>3. <<start>> \o raw \in Seq(Seq(Octets))
      BY <2>3, <3>2, ConcatProperties
    <3>4. PICK m \in Seq(Seq(Octets)) : m = <<start>> \o raw
      BY <3>3
    <3>5. m \o <<end>> = Append(m, end)
      OBVIOUS
    <3>6. Flat(Append(m, end)) = Flat(m) \o end
      BY FlatAppend
    <3>7. Flat(m) = start \o w
      BY <2>3, <2>7, <3>4, FlatCons
    <3>8. (start \o w) \o end = start \o (w \o end)
      BY OctetsAssociate, ZenonT(60)
    <3> QED
      BY <2>14, <3>1, <3>4, <3>5, <3>6, <3>7, <3>8
  <2>11. PICK sub \in Seq(Octets) :
           sub = start \o z /\ SubSeq(sub, 1, 3) = start /\ SubSeq(sub, 4, Len(sub)) = z
    <3>1. PICK sub \in Seq(Octets) : sub = start \o z
      BY ConcatProperties
    <3>2. PICK n \in Nat : n = Len(z)
      BY LenProperties
    <3>3. /\ Len(sub) = 3 + n
          /\ \A i \in 1..(3 + n) : sub[i] = IF i <= 3 THEN start[i] ELSE z[i - 3]
      <4>1. /\ Len(start \o z) = Len(start) + Len(z)
            /\ \A i \in 1..Len(start) + Len(z) :
                 (start \o z)[i] = IF i <= Len(start) THEN start[i] ELSE z[i - Len(start)]
        BY ConcatProperties
      <4> QED
        BY <2>13, <3>1, <3>2, <4>1
    <3>4. SubSeq(sub, 1, 3) = start
      <4>1. Len(sub) = 3 + n /\ n \in Nat /\ \A i \in 1..3 : sub[i] = start[i]
        BY <3>2, <3>3
      <4>2. Len(start) = 3
        BY <2>13
      <4> QED
        BY <4>1, <4>2
    <3>5. SubSeq(sub, 4, 3 + n) = z
      BY <2>13, <3>2, <3>3
    <3> QED
      BY <3>1, <3>3, <3>4, <3>5
  <2>12. Read(z, FALSE) = input \o <<-1>>
    <3>1. Append(w, a) \in Seq(Octets)
      BY AppendTwo
    <3>2. Reading(Append(w, a), FALSE) = Take(Reading(w, FALSE), a, FALSE)
      BY ReadingAppend
    <3>3. Reading(Append(Append(w, a), c), FALSE) = Take(Reading(Append(w, a), FALSE), c, FALSE)
      BY <3>1, ReadingAppend
    <3>4. Take([after |-> "none", read |-> b], a, FALSE) = [after |-> "IAC", read |-> b]
      BY <2>8 DEF Take, T!IAC
    <3>5. Take([after |-> "IAC", read |-> b], c, FALSE)
            = [after |-> "none", read |-> Append(b, -1)]
      BY <2>8 DEF Take, T!IAC
    <3>6. Reading(z, FALSE) = [after |-> "none", read |-> Append(b, -1)]
      BY <2>3, <2>7, <2>14, <3>2, <3>3, <3>4, <3>5
    <3>7. Append(b, -1) = b \o <<-1>>
      BY AppendOne
    <3>8. Read(z, FALSE) = Append(b, -1)
      BY <2>2, <3>6
    <3> QED
      BY <2>1, <3>7, <3>8
  <2> QED
    BY <2>6, <2>10, <2>11, <2>12, <2>13, ZenonT(60) DEF T!IAC, T!SB
<1> QED
  BY <1>1, CodecInputsHold, PTL

\* The turns of loadHelpFile.
LEMMA HelpTurns ==
  ASSUME NEW file, NEW N \in Nat, N = Len(file)
  PROVE  \E u :
               /\ u[0] = H!Unknown
               /\ \A n \in 1..N : u[n] = H!Load(u[n - 1], file[n], n)
               /\ H!LoadHelpFile(file) = u[N].topics
<1> DEFINE Step(n, p) == H!Load(p, file[n], n)
           Start == H!Unknown
           F(g, m) == [n \in 0..m |-> IF n = 0 THEN Start ELSE Step(n, g[n - 1])]
           Upto == {m \in 0..N : \E g : g = F(g, m)}
           G == CHOOSE g : g = F(g, N)
<1>1. H!LoadHelpFile(file) = G[N].topics
  BY Zenon DEF H!LoadHelpFile
<1> HIDE DEF Step, Start
<1>2. 0 \in Upto
  <2>1. F(<<>>, 0) = F(F(<<>>, 0), 0)
    OBVIOUS
  <2> HIDE DEF F
  <2> QED
    BY <2>1
<1>3. ASSUME NEW m \in 1..N, m - 1 \in Upto
      PROVE  m \in Upto
  <2>1. PICK g : g = F(g, m - 1)
    BY <1>3
  <2> DEFINE h == F(g, m)
  <2>2. \A n \in 1..m : h[n - 1] = g[n - 1]
    BY <2>1
  <2> HIDE DEF h
  <2>3. \A n \in 0..m : (IF n = 0 THEN Start ELSE Step(n, g[n - 1]))
                            = (IF n = 0 THEN Start ELSE Step(n, h[n - 1]))
    BY <2>2
  <2>4. F(g, m) = F(h, m)
    BY <2>3
  <2> HIDE DEF F, h
  <2> QED
    BY <2>4 DEF h
<1>4. N \in Upto
  <2> HIDE DEF Upto
  <2>1. \A m \in 1..N : m - 1 \in Upto => m \in Upto
    BY <1>3
  <2>2. \A m \in 0..N : m \in Upto
    BY <1>2, <2>1, UpTo
  <2> QED
    BY <2>2
<1>5. G = F(G, N)
  <2> HIDE DEF F
  <2> QED
    BY <1>4
<1>6. G[0] = Start /\ \A n \in 1..N : G[n] = Step(n, G[n - 1])
  <2> HIDE DEF G
  <2> QED
    BY <1>5
<1> HIDE DEF G
<1> QED
  BY <1>1, <1>6, Zenon DEF Start, Step

\* What a line does to the topic that is open.
LEMMA OpenStep ==
  ASSUME NEW n \in Nat, n > 0
  PROVE  /\ Kind(n) = "start" => Open(n) = {n} /\ Names(n) = {n}
         /\ Kind(n) = "end" => Open(n) = {} /\ Names(n) = {}
         /\ Kind(n) = "text" => Open(n) = Open(n - 1) /\ Names(n) = Names(n - 1)
         /\ Kind(n) = "label" =>
              /\ Open(n) = Open(n - 1)
              /\ Names(n) = IF Open(n - 1) = {} THEN {} ELSE Names(n - 1) \cup {n}
<1>1. \A i : i \in 1..n <=> i \in 1..(n - 1) \/ i = n
  OBVIOUS
<1>2. ASSUME Kind(n) \notin {"start", "end"}
      PROVE  Open(n) = Open(n - 1)
  <2>1. ASSUME NEW s \in 1..(n - 1)
        PROVE  s \in Open(n) <=> s \in Open(n - 1)
    <3>1. \A i : i \in (s + 1)..n <=> i \in (s + 1)..(n - 1) \/ i = n
      OBVIOUS
    <3> QED
      BY <1>1, <1>2, <3>1 DEF Open
  <2>2. n \notin Open(n) /\ Open(n) \subseteq 1..n /\ Open(n - 1) \subseteq 1..(n - 1)
    BY <1>2 DEF Open
  <2>3. \A s : s \in Open(n) <=> s \in Open(n - 1)
    BY <1>1, <2>1, <2>2
  <2> QED
    BY <2>3
<1>3. ASSUME Kind(n) = "end"
      PROVE  Open(n) = {}
  <2>1. ASSUME NEW s \in Open(n)
        PROVE  FALSE
    <3>1. s \in 1..n /\ Kind(s) = "start" /\ \A i \in (s + 1)..n : Kind(i) # "end"
      BY DEF Open
    <3>2. s # n
      BY <1>3, <3>1
    <3>3. n \in (s + 1)..n
      BY <3>1, <3>2
    <3> QED
      BY <1>3, <3>1, <3>3
  <2> QED
    BY <2>1
<1>4. ASSUME Kind(n) = "start"
      PROVE  Open(n) = {n}
  <2>1. n \in Open(n)
    BY <1>4 DEF Open
  <2>2. ASSUME NEW s \in Open(n)
        PROVE  s = n
    <3>1. s \in 1..n /\ \A i \in (s + 1)..n : Kind(i) # "start"
      BY DEF Open
    <3>2. s # n => n \in (s + 1)..n
      BY <3>1
    <3> QED
      BY <1>4, <3>1, <3>2
  <2> QED
    BY <2>1, <2>2
<1>5. Kind(n) = "start" => Names(n) = {n}
  <2> SUFFICES ASSUME Kind(n) = "start"
               PROVE  \A i : i \in Names(n) <=> i = n
    OBVIOUS
  <2>1. Open(n) = {n}
    BY <1>4
  <2>2. \A i \in 1..n : n <= i => i = n
    OBVIOUS
  <2> QED
    BY <2>1, <2>2 DEF Names
<1>6. Kind(n) = "end" => Names(n) = {}
  BY <1>3 DEF Names
<1>7. Kind(n) = "text" => Names(n) = Names(n - 1)
  <2> SUFFICES ASSUME Kind(n) = "text"
               PROVE  \A i : i \in Names(n) <=> i \in Names(n - 1)
    OBVIOUS
  <2>1. Open(n) = Open(n - 1)
    BY <1>2
  <2> QED
    BY <1>1, <2>1 DEF Names
<1>8. Kind(n) = "label" => Names(n) = IF Open(n - 1) = {} THEN {} ELSE Names(n - 1) \cup {n}
  <2> SUFFICES ASSUME Kind(n) = "label"
               PROVE  \A i : i \in Names(n) <=> Open(n - 1) # {} /\ (i \in Names(n - 1) \/ i = n)
    OBVIOUS
  <2>1. Open(n) = Open(n - 1) /\ \A s \in Open(n - 1) : s <= n
    <3>1. \A s \in Open(n - 1) : s \in 1..(n - 1)
      BY DEF Open
    <3> QED
      BY <1>2, <3>1
  <2>2. n \in Names(n) <=> Open(n - 1) # {}
    BY <2>1 DEF Names
  <2>3. \A i : i # n => (i \in Names(n) <=> i \in Names(n - 1))
    BY <1>1, <2>1 DEF Names
  <2>4. \A i \in Names(n - 1) : Open(n - 1) # {}
    BY DEF Names
  <2> QED
    BY <2>2, <2>3, <2>4
<1> QED
  BY <1>2, <1>3, <1>4, <1>5, <1>6, <1>7, <1>8

\* At most one topic is open, and then it has a name.
LEMMA OpenOne ==
  ASSUME NEW n \in Nat
  PROVE  /\ Open(n) \subseteq 1..n
         /\ \A s, t \in Open(n) : s = t
         /\ Open(n) # {} => Names(n) # {}
         /\ Names(n) \subseteq 1..n
<1>1. Open(n) \subseteq 1..n /\ Names(n) \subseteq 1..n
  BY DEF Open, Names
<1>2. ASSUME NEW s \in Open(n), NEW t \in Open(n), s < t
      PROVE  FALSE
  <2>1. t \in (s + 1)..n
    BY <1>1, <1>2
  <2> QED
    BY <2>1 DEF Open
<1>3. ASSUME NEW s \in Open(n), NEW t \in Open(n)
      PROVE  s = t
  <2>1. s \in Nat /\ t \in Nat
    BY <1>1
  <2> QED
    BY <1>2, <2>1
<1>4. \A s \in Open(n) : s \in Names(n)
  <2> TAKE s \in Open(n)
  <2>1. s \in 1..n /\ Kind(s) = "start" /\ s <= s
    BY <1>1 DEF Open
  <2> QED
    BY <2>1 DEF Names
<1> QED
  BY <1>1, <1>3, <1>4

\* The ends of topics up to a line, and where the open topic starts.
EndsTo(n) == {e \in 1..n : Kind(e) = "end"}
StartAt(n) == IF Open(n) = {} THEN 0 ELSE CHOOSE s \in Open(n) : TRUE

\* What loadHelpFile knows after n lines.
Loaded(a, n) ==
  /\ a = [state |-> a.state, topic |-> a.topic, start |-> a.start, topics |-> a.topics]
  /\ a.state = IF Open(n) = {} THEN "LOAD_UNKNOWN" ELSE "LOAD_TOPIC"
  /\ Open(n) # {} => a.start = StartAt(n) /\ a.topic = Name(n)
  /\ DOMAIN a.topics = {Name(e - 1) : e \in EndsTo(n)}
  /\ \A e \in EndsTo(n) :
       (\A f \in EndsTo(n) : f > e => Name(f - 1) # Name(e - 1)) =>
         a.topics[Name(e - 1)] = <<StartAt(e - 1), e - 1>>

\* Of a topic that is not open neither name nor start is known.
LEMMA NotOpen ==
  ASSUME NEW n, Open(n) = {}
  PROVE  Name(n) = "" /\ StartAt(n) = 0
BY DEF Name, Names, StartAt

LEMMA LoadedSame ==
  ASSUME NEW n, NEW a, Loaded(a, n - 1), NEW b,
         b = [state |-> b.state, topic |-> b.topic, start |-> b.start, topics |-> b.topics],
         b.state = IF Open(n) = {} THEN "LOAD_UNKNOWN" ELSE "LOAD_TOPIC",
         Open(n) # {} => b.start = StartAt(n) /\ b.topic = Name(n),
         b.topics = a.topics, EndsTo(n) = EndsTo(n - 1)
  PROVE  Loaded(b, n)
<1>1. /\ DOMAIN a.topics = {Name(e - 1) : e \in EndsTo(n - 1)}
      /\ \A e \in EndsTo(n - 1) :
           (\A f \in EndsTo(n - 1) : f > e => Name(f - 1) # Name(e - 1)) =>
             a.topics[Name(e - 1)] = <<StartAt(e - 1), e - 1>>
  BY DEF Loaded
<1>2. /\ DOMAIN b.topics = {Name(e - 1) : e \in EndsTo(n)}
      /\ \A e \in EndsTo(n) :
           (\A f \in EndsTo(n) : f > e => Name(f - 1) # Name(e - 1)) =>
             b.topics[Name(e - 1)] = <<StartAt(e - 1), e - 1>>
  BY <1>1, Zenon
<1> QED
  BY <1>2, Zenon DEF Loaded

LEMMA LoadStep ==
  ASSUME NEW n \in Nat, n > 0, NEW a, Loaded(a, n - 1), NEW line, line = input[n],
         line.kind \in {"start", "label", "end", "text"}
  PROVE  Loaded(H!Load(a, line, n), n)
<1> DEFINE r == IF a.state = "LOAD_UNKNOWN" THEN [a EXCEPT !.topic = "", !.start = 0] ELSE a
<1>1. /\ r = [state |-> r.state, topic |-> r.topic, start |-> r.start, topics |-> r.topics]
      /\ r.state = a.state /\ r.topics = a.topics
      /\ r.topic = Name(n - 1) /\ r.start = StartAt(n - 1)
  <2>1. CASE Open(n - 1) = {}
    BY <2>1, NotOpen DEF Loaded
  <2>2. CASE Open(n - 1) # {}
    BY <2>2 DEF Loaded
  <2> QED
    BY <2>1, <2>2
<1>2. Kind(n) = line.kind
  BY DEF Kind
<1>3. line.kind # "end" => EndsTo(n) = EndsTo(n - 1)
  <2> SUFFICES ASSUME line.kind # "end"
               PROVE  \A e : e \in EndsTo(n) <=> e \in EndsTo(n - 1)
    OBVIOUS
  <2>1. \A e : e \in 1..n <=> e \in 1..(n - 1) \/ e = n
    OBVIOUS
  <2> QED
    BY <1>2, <2>1 DEF EndsTo
<1> DEFINE l == H!Load(a, line, n)
<1>4. CASE line.kind = "start"
  <2>1. l = [r EXCEPT !.topic = line.name, !.start = n, !.state = "LOAD_TOPIC"]
    BY <1>4 DEF H!Load
  <2> HIDE DEF l, r
  <2>2. l = [state |-> "LOAD_TOPIC", topic |-> line.name, start |-> n, topics |-> a.topics]
    BY <1>1, <2>1
  <2>3. Open(n) = {n} /\ Names(n) = {n}
    BY <1>2, <1>4, OpenStep
  <2>4. StartAt(n) = n
    BY <2>3 DEF StartAt
  <2>5. Name(n) = line.name
    <3>1. (CHOOSE i \in Names(n) : \A j \in Names(n) : j <= i) = n
      BY <2>3
    <3> QED
      BY <2>3, <3>1 DEF Name
  <2>6. /\ l = [state |-> l.state, topic |-> l.topic, start |-> l.start, topics |-> l.topics]
        /\ l.state = "LOAD_TOPIC" /\ l.topic = line.name /\ l.start = n /\ l.topics = a.topics
    BY <2>2
  <2>7. Loaded(l, n)
    BY <1>3, <1>4, <2>3, <2>4, <2>5, <2>6, LoadedSame
  <2> QED
    BY <2>7 DEF l
<1>5. CASE line.kind = "label"
  <2>1. l = [r EXCEPT !.topic = line.name]
    BY <1>5 DEF H!Load
  <2> HIDE DEF l, r
  <2>2. l = [state |-> a.state, topic |-> line.name, start |-> StartAt(n - 1), topics |-> a.topics]
    BY <1>1, <2>1
  <2>3. Open(n) = Open(n - 1) /\ Names(n) = IF Open(n - 1) = {} THEN {} ELSE Names(n - 1) \cup {n}
    BY <1>2, <1>5, OpenStep
  <2>4. StartAt(n) = StartAt(n - 1)
    BY <2>3 DEF StartAt
  <2>5. Open(n) # {} => Name(n) = line.name
    <3> SUFFICES ASSUME Open(n) # {}
                 PROVE  Name(n) = line.name
      OBVIOUS
    <3>1. Names(n) = Names(n - 1) \cup {n} /\ Names(n - 1) \subseteq 1..(n - 1)
      BY <2>3, OpenOne
    <3>2. (CHOOSE i \in Names(n) : \A j \in Names(n) : j <= i) = n
      BY <3>1
    <3> QED
      BY <3>1, <3>2 DEF Name
  <2> QED
    <3>1. /\ l = [state |-> l.state, topic |-> l.topic, start |-> l.start, topics |-> l.topics]
          /\ l.state = a.state /\ l.topic = line.name /\ l.start = StartAt(n - 1)
          /\ l.topics = a.topics
      BY <2>2
    <3>2. a.state = IF Open(n - 1) = {} THEN "LOAD_UNKNOWN" ELSE "LOAD_TOPIC"
      BY DEF Loaded
    <3>3. Loaded(l, n)
      BY <1>3, <1>5, <2>3, <2>4, <2>5, <3>1, <3>2, LoadedSame
    <3> QED
      BY <3>3 DEF l
<1>6. CASE line.kind = "text"
  <2>1. l = r
    BY <1>6 DEF H!Load
  <2> HIDE DEF l, r
  <2>2. l = [state |-> a.state, topic |-> Name(n - 1), start |-> StartAt(n - 1), topics |-> a.topics]
    BY <1>1, <2>1
  <2>3. Open(n) = Open(n - 1) /\ Names(n) = Names(n - 1)
    BY <1>2, <1>6, OpenStep
  <2>4. StartAt(n) = StartAt(n - 1) /\ Name(n) = Name(n - 1)
    BY <2>3 DEF StartAt, Name
  <2> QED
    <3>1. /\ l = [state |-> l.state, topic |-> l.topic, start |-> l.start, topics |-> l.topics]
          /\ l.state = a.state /\ l.topic = Name(n - 1) /\ l.start = StartAt(n - 1)
          /\ l.topics = a.topics
      BY <2>2
    <3>2. a.state = IF Open(n - 1) = {} THEN "LOAD_UNKNOWN" ELSE "LOAD_TOPIC"
      BY DEF Loaded
    <3>3. Loaded(l, n)
      BY <1>3, <1>6, <2>3, <2>4, <3>1, <3>2, LoadedSame
    <3> QED
      BY <3>3 DEF l
<1>7. CASE line.kind = "end"
  <2> DEFINE t == Name(n - 1)
             v == <<StartAt(n - 1), n - 1>>
             topics == [k \in DOMAIN a.topics \cup {t} |-> IF k = t THEN v ELSE a.topics[k]]
  <2>1. l = [r EXCEPT !.state = "LOAD_UNKNOWN",
                      !.topics = [k \in DOMAIN @ \cup {r.topic} |->
                                    IF k = r.topic THEN <<r.start, n - 1>> ELSE @[k]]]
    BY <1>7 DEF H!Load
  <2> HIDE DEF l, r
  <2>2. l = [state |-> "LOAD_UNKNOWN", topic |-> t, start |-> StartAt(n - 1), topics |-> topics]
    BY <1>1, <2>1
  <2>3. Open(n) = {}
    BY <1>2, <1>7, OpenStep
  <2>4. EndsTo(n) = EndsTo(n - 1) \cup {n} /\ EndsTo(n - 1) \subseteq 1..(n - 1)
    <3>1. \A e : e \in 1..n <=> e \in 1..(n - 1) \/ e = n
      OBVIOUS
    <3>2. \A e : e \in EndsTo(n) <=> e \in EndsTo(n - 1) \/ e = n
      BY <1>2, <1>7, <3>1 DEF EndsTo
    <3> QED
      BY <3>2 DEF EndsTo
  <2>5. DOMAIN topics = {Name(e - 1) : e \in EndsTo(n)}
    <3>1. DOMAIN a.topics = {Name(e - 1) : e \in EndsTo(n - 1)}
      BY DEF Loaded
    <3>2. DOMAIN topics = DOMAIN a.topics \cup {t}
      OBVIOUS
    <3> HIDE DEF topics
    <3> QED
      BY <2>4, <3>1, <3>2
  <2>6. ASSUME NEW e \in EndsTo(n),
               \A f \in EndsTo(n) : f > e => Name(f - 1) # Name(e - 1)
        PROVE  topics[Name(e - 1)] = <<StartAt(e - 1), e - 1>>
    <3>1. CASE e = n
      BY <3>1
    <3>2. CASE e # n
      <4>1. e \in EndsTo(n - 1) /\ n > e
        BY <2>4, <3>2
      <4>2. Name(e - 1) # t
        BY <2>4, <2>6, <4>1
      <4>3. Name(e - 1) \in DOMAIN a.topics
        BY <4>1 DEF Loaded
      <4>4. a.topics[Name(e - 1)] = <<StartAt(e - 1), e - 1>>
        BY <2>4, <2>6, <4>1 DEF Loaded
      <4> QED
        BY <4>2, <4>3, <4>4
    <3> QED
      BY <3>1, <3>2
  <2> HIDE DEF topics
  <2>7. /\ l = [state |-> l.state, topic |-> l.topic, start |-> l.start, topics |-> l.topics]
        /\ l.state = "LOAD_UNKNOWN" /\ l.topics = topics
    BY <2>2
  <2>8. /\ DOMAIN l.topics = {Name(e - 1) : e \in EndsTo(n)}
        /\ \A e \in EndsTo(n) :
             (\A f \in EndsTo(n) : f > e => Name(f - 1) # Name(e - 1)) =>
               l.topics[Name(e - 1)] = <<StartAt(e - 1), e - 1>>
    BY <2>5, <2>6, <2>7, Zenon
  <2>9. Loaded(l, n)
    BY <2>3, <2>7, <2>8, Zenon DEF Loaded
  <2> QED
    BY <2>9 DEF l
<1> QED
  BY <1>4, <1>5, <1>6, <1>7

\* loadHelpFile, helpForTopic: of a file of any length.
THEOREM HelpCorrect == Spec => []HelpExact
<1>1. CodecInputs => HelpExact
  <2> SUFFICES ASSUME CodecInputs, codec = "help"
               PROVE  LET topics == H!LoadHelpFile(input) IN
                      /\ DOMAIN topics = {Name(e - 1) : e \in Ends}
                      /\ \A e \in Ends :
                           (\A f \in Ends : f > e => Name(f - 1) # Name(e - 1)) =>
                             H!HelpForTopic(topics, input, Name(e - 1)) = Text(e - 1)
    BY DEF HelpExact
  <2>1. PICK N \in Nat : N = Len(input) /\ input \in Seq(Lines)
    BY LenProperties DEF CodecInputs
  <2>2. PICK u : /\ u[0] = H!Unknown
                 /\ \A n \in 1..N : u[n] = H!Load(u[n - 1], input[n], n)
                 /\ H!LoadHelpFile(input) = u[N].topics
    BY <2>1, HelpTurns, Zenon
  <2> DEFINE Fine == {n \in 0..N : Loaded(u[n], n)}
  <2>3. 0 \in Fine
    <3>1. Open(0) = {} /\ EndsTo(0) = {} /\ DOMAIN <<>> = {}
      BY DEF Open, EndsTo
    <3>2. {Name(e - 1) : e \in EndsTo(0)} = {}
      BY <3>1
    <3>3. u[0] = [state |-> "LOAD_UNKNOWN", topic |-> "", start |-> 0, topics |-> <<>>]
      BY <2>2 DEF H!Unknown, H!NoTopics
    <3>4. PICK a : a = u[0]
      OBVIOUS
    <3>5. /\ a = [state |-> a.state, topic |-> a.topic, start |-> a.start, topics |-> a.topics]
          /\ a.state = "LOAD_UNKNOWN" /\ a.topics = <<>>
      <4>1. PICK e : e = <<>>
        OBVIOUS
      <4>2. a = [state |-> "LOAD_UNKNOWN", topic |-> "", start |-> 0, topics |-> e]
        BY <3>3, <3>4, <4>1
      <4>3. /\ a = [state |-> a.state, topic |-> a.topic, start |-> a.start, topics |-> a.topics]
            /\ a.state = "LOAD_UNKNOWN" /\ a.topics = e
        BY <4>2
      <4> QED
        BY <4>1, <4>3
    <3>6. Loaded(a, 0)
      BY <3>1, <3>2, <3>5, Zenon DEF Loaded
    <3> QED
      BY <3>4, <3>6
  <2>4. \A n \in 1..N : n - 1 \in Fine => n \in Fine
    <3> SUFFICES ASSUME NEW n \in 1..N, Loaded(u[n - 1], n - 1)
                 PROVE  Loaded(u[n], n)
      BY DEF Fine
    <3>1. input[n].kind \in {"start", "label", "end", "text"}
      <4>1. input[n] \in Lines
        BY <2>1, ElementOfSeq
      <4> QED
        BY <4>1 DEF Lines
    <3>2. n \in Nat /\ n > 0 /\ u[n] = H!Load(u[n - 1], input[n], n)
      BY <2>2
    <3> QED
      BY <3>1, <3>2, LoadStep
  <2>5. Loaded(u[N], N)
    <3> HIDE DEF Fine
    <3>1. \A n \in 0..N : n \in Fine
      BY <2>3, <2>4, UpTo
    <3>2. N \in Fine
      BY <3>1
    <3> QED
      BY <3>2 DEF Fine
  <2>6. PICK topics : topics = H!LoadHelpFile(input)
    OBVIOUS
  <2>7. EndsTo(N) = Ends
    BY <2>1 DEF EndsTo, Ends
  <2>8. DOMAIN topics = {Name(e - 1) : e \in Ends}
    BY <2>2, <2>5, <2>6, <2>7 DEF Loaded
  <2>9. ASSUME NEW e \in Ends, \A f \in Ends : f > e => Name(f - 1) # Name(e - 1)
        PROVE  H!HelpForTopic(topics, input, Name(e - 1)) = Text(e - 1)
    <3>1. topics[Name(e - 1)] = <<StartAt(e - 1), e - 1>>
      BY <2>2, <2>5, <2>6, <2>7, <2>9 DEF Loaded
    <3>2. Name(e - 1) \in DOMAIN topics
      BY <2>8
    <3>3. H!HelpForTopic(topics, input, Name(e - 1)) = SubSeq(input, StartAt(e - 1) + 1, e - 1)
      <4>1. topics[Name(e - 1)][1] = StartAt(e - 1) /\ topics[Name(e - 1)][2] = e - 1
        BY <3>1
      <4> QED
        BY <3>2, <4>1 DEF H!HelpForTopic
    <3>4. e - 1 \in Nat
      BY <2>1 DEF Ends
    <3>5. CASE Open(e - 1) = {}
      BY <3>3, <3>5 DEF Text, StartAt
    <3>6. CASE Open(e - 1) # {}
      <4>1. StartAt(e - 1) \in Nat
        BY <3>4, <3>6, OpenOne DEF StartAt
      <4>2. Text(e - 1) = SubSeq(input, 1 + StartAt(e - 1), e - 1)
        BY <3>6 DEF Text, StartAt
      <4>3. 1 + StartAt(e - 1) = StartAt(e - 1) + 1
        BY <4>1
      <4> QED
        BY <3>3, <4>2, <4>3
    <3> QED
      BY <3>5, <3>6
  <2> QED
    BY <2>6, <2>8, <2>9
<1> QED
  BY <1>1, CodecInputsHold, PTL

-----------------------------------------------------------------------------
(* Counting the positions of a set.                                        *)

\* How many are at most i.
CountTo(S, i) == Cardinality({j \in S : j <= i})

LEMMA CountFinite ==
  ASSUME NEW N \in Nat, NEW S \in SUBSET (1..N), NEW i \in 0..N
  PROVE  /\ IsFiniteSet(S) /\ IsFiniteSet({j \in S : j <= i})
         /\ Cardinality(S) \in Nat /\ CountTo(S, i) \in Nat
         /\ CountTo(S, 0) = 0 /\ CountTo(S, N) = Cardinality(S)
<1>1. IsFiniteSet(1..N)
  BY FS_Interval
<1>2. IsFiniteSet(S)
  BY <1>1, FS_Subset
<1>3. IsFiniteSet({j \in S : j <= i})
  BY <1>2, FS_Subset
<1>4. {j \in S : j <= 0} = {} /\ {j \in S : j <= N} = S
  <2>1. \A j \in S : ~(j <= 0) /\ j <= N
    OBVIOUS
  <2> QED
    BY <2>1
<1> QED
  BY <1>2, <1>3, <1>4, FS_CardinalityType, FS_EmptySet DEF CountTo

LEMMA CountStep ==
  ASSUME NEW N \in Nat, NEW S \in SUBSET (1..N), NEW i \in 1..N
  PROVE  CountTo(S, i) = IF i \in S THEN CountTo(S, i - 1) + 1 ELSE CountTo(S, i - 1)
<1> DEFINE P == {j \in S : j <= i - 1}
<1>1. IsFiniteSet(P) /\ i \notin P
  <2>1. PICK k \in 0..N : k = i - 1 /\ ~(i <= k)
    OBVIOUS
  <2>2. IsFiniteSet({j \in S : j <= k})
    BY CountFinite
  <2> QED
    BY <2>1, <2>2
<1>2. {j \in S : j <= i} = IF i \in S THEN P \cup {i} ELSE P
  <2>1. \A j \in S : j <= i <=> j <= i - 1 \/ j = i
    OBVIOUS
  <2>2. i \in S => {j \in S : j <= i} = P \cup {i}
    BY <2>1
  <2>3. i \notin S => {j \in S : j <= i} = P
    BY <2>1
  <2> QED
    BY <2>2, <2>3
<1>3. Cardinality(P \cup {i}) = Cardinality(P) + 1
  BY <1>1, FS_AddElement
<1> QED
  BY <1>2, <1>3 DEF CountTo

LEMMA CountGrows ==
  ASSUME NEW N \in Nat, NEW S \in SUBSET (1..N), NEW i \in 0..N, NEW k \in 0..N, i < k
  PROVE  /\ CountTo(S, i) <= CountTo(S, k)
         /\ k \in S => CountTo(S, i) < CountTo(S, k)
<1> DEFINE A == {j \in S : j <= i}
           B == {j \in S : j <= k}
<1>1. A \subseteq B /\ (k \in S => k \in B /\ k \notin A)
  <2>1. \A j \in S : j \in Int
    OBVIOUS
  <2>2. \A j \in S : j <= i => j <= k
    BY <2>1
  <2>3. A \subseteq B
    BY <2>2
  <2>4. k \in S => k <= k /\ ~(k <= i)
    OBVIOUS
  <2> QED
    BY <2>3, <2>4
<1>2. IsFiniteSet(A) /\ IsFiniteSet(B)
  BY CountFinite
<1> HIDE DEF A, B
<1>3. Cardinality(A) \in Nat /\ Cardinality(B) \in Nat /\ Cardinality(A) <= Cardinality(B)
      /\ (A # B => Cardinality(A) < Cardinality(B))
  BY <1>1, <1>2, FS_Subset, FS_CardinalityType
<1> QED
  BY <1>1, <1>3 DEF A, B, CountTo

\* The position with so many up to it is the one of that number, and there is one
\* of each number.
LEMMA NthIs ==
  ASSUME NEW N \in Nat, NEW S \in SUBSET (1..N), NEW i \in S
  PROVE  CountTo(S, i) \in 1..Cardinality(S) /\ Nth(S, CountTo(S, i)) = i
<1>1. \A k \in S : CountTo(S, k) = CountTo(S, i) => k = i
  <2> SUFFICES ASSUME NEW k \in S, k # i
               PROVE  CountTo(S, k) # CountTo(S, i)
    OBVIOUS
  <2>1. k \in 0..N /\ i \in 0..N /\ (k < i \/ i < k)
    OBVIOUS
  <2>2. CountTo(S, i) \in Nat /\ CountTo(S, k) \in Nat
    BY <2>1, CountFinite
  <2>3. k < i => CountTo(S, k) < CountTo(S, i)
    BY <2>1, CountGrows
  <2>4. i < k => CountTo(S, i) < CountTo(S, k)
    BY <2>1, CountGrows
  <2> QED
    BY <2>1, <2>2, <2>3, <2>4
<1>2. Nth(S, CountTo(S, i)) = i
  BY <1>1 DEF Nth, CountTo
<1>3. CountTo(S, i) \in 1..Cardinality(S)
  <2>1. i \in 1..N /\ i \in 0..N /\ 0 \in 0..N /\ N \in 0..N
    OBVIOUS
  <2>2. CountTo(S, 0) = 0 /\ CountTo(S, N) = Cardinality(S) /\ Cardinality(S) \in Nat
        /\ CountTo(S, i) \in Nat
    BY <2>1, CountFinite
  <2>3. CountTo(S, 0) < CountTo(S, i)
    BY <2>1, CountGrows
  <2>4. i = N \/ CountTo(S, i) <= CountTo(S, N)
    BY <2>1, CountGrows
  <2> QED
    BY <2>2, <2>3, <2>4
<1> QED
  BY <1>2, <1>3

LEMMA NthCovers ==
  ASSUME NEW N \in Nat, NEW S \in SUBSET (1..N), NEW n \in 1..Cardinality(S)
  PROVE  Nth(S, n) \in S /\ CountTo(S, Nth(S, n)) = n
<1> DEFINE Enough == {k \in 0..N : n <= CountTo(S, k)}
<1>1. N \in 0..N /\ 0 \in 0..N
  OBVIOUS
<1>2. /\ Cardinality(S) \in Nat /\ CountTo(S, 0) = 0 /\ CountTo(S, N) = Cardinality(S)
      /\ \A k \in 0..N : CountTo(S, k) \in Nat
  BY <1>1, CountFinite
<1>3. N \in Enough /\ 0 \notin Enough /\ Enough \in SUBSET Nat
  BY <1>1, <1>2
<1>4. PICK k \in Enough : \A j \in Enough : k <= j
  <2> HIDE DEF Enough
  <2> QED
    BY <1>3, LeastOf
<1>5. k \in 1..N /\ k - 1 \in 0..N /\ ~(k <= k - 1)
  BY <1>3
<1>6. k - 1 \notin Enough
  BY <1>4, <1>5
<1>7. CountTo(S, k - 1) < n
  BY <1>2, <1>5, <1>6
<1>8. k \in S /\ CountTo(S, k) = n
  <2>1. CountTo(S, k) = IF k \in S THEN CountTo(S, k - 1) + 1 ELSE CountTo(S, k - 1)
    BY <1>5, CountStep
  <2>2. n <= CountTo(S, k) /\ CountTo(S, k - 1) \in Nat
    BY <1>2, <1>5
  <2> QED
    BY <1>7, <2>1, <2>2
<1> QED
  BY <1>8, NthIs

LEMMA NthOrder ==
  ASSUME NEW N \in Nat, NEW S \in SUBSET (1..N),
         NEW n \in 1..Cardinality(S), NEW m \in 1..Cardinality(S), n < m
  PROVE  Nth(S, n) < Nth(S, m)
<1>1. /\ Nth(S, n) \in S /\ CountTo(S, Nth(S, n)) = n
      /\ Nth(S, m) \in S /\ CountTo(S, Nth(S, m)) = m
  BY NthCovers
<1>6. \A j \in S : j \in 0..N
  OBVIOUS
<1>2. PICK i \in 0..N : i = Nth(S, n)
  BY <1>1, <1>6
<1>3. PICK k \in 0..N : k = Nth(S, m)
  BY <1>1, <1>6
<1>4. k < i => CountTo(S, k) < CountTo(S, i)
  BY <1>1, <1>2, CountGrows
<1>5. Cardinality(S) \in Nat
  BY <1>2, CountFinite
<1> QED
  BY <1>1, <1>2, <1>3, <1>4, <1>5

-----------------------------------------------------------------------------
(* Cutting an URL.                                                         *)

LEMMA ConcatIn ==
  ASSUME NEW X, NEW s \in Seq(X), NEW t \in Seq(X)
  PROVE  s \o t \in Seq(X)
BY ConcatProperties

LEMMA Regroup ==
  ASSUME NEW X, NEW s \in Seq(X), NEW t \in Seq(X), NEW w \in Seq(X)
  PROVE  s \o (t \o w) = (s \o t) \o w
BY ConcatAssociative, SMTT(60)

\* A slice of a sequence.
LEMMA Slice ==
  ASSUME NEW X, NEW s \in Seq(X), NEW m \in 1..(Len(s) + 1), NEW n \in (m - 1)..Len(s)
  PROVE  /\ SubSeq(s, m, n) \in Seq(X)
         /\ Len(SubSeq(s, m, n)) = (n - m) + 1
         /\ \A i \in 1..((n - m) + 1) : SubSeq(s, m, n)[i] = s[(m + i) - 1]
<1>1. m \in Int /\ n \in Int /\ m - 1 <= n
  BY LenProperties
<1>2. \A i \in m..n : s[i] \in X
  <2>1. \A i \in m..n : i \in 1..Len(s)
    BY LenProperties
  <2> QED
    BY <2>1, ElementOfSeq
<1>3. /\ SubSeq(s, m, n) \in Seq(X)
      /\ Len(SubSeq(s, m, n)) = IF m <= n THEN n - m + 1 ELSE 0
      /\ \A i \in 1..(n - m + 1) : SubSeq(s, m, n)[i] = s[m + i - 1]
  BY <1>1, <1>2, SubSeqProperties
<1> QED
  BY <1>1, <1>3

\* The parts of a sequence around a position.
LEMMA SplitAt ==
  ASSUME NEW X, NEW s \in Seq(X), NEW i \in 1..Len(s)
  PROVE  /\ SubSeq(s, 1, i - 1) \in Seq(X) /\ SubSeq(s, i + 1, Len(s)) \in Seq(X)
         /\ s[i] \in X
         /\ s = SubSeq(s, 1, i - 1) \o (<<s[i]>> \o SubSeq(s, i + 1, Len(s)))
<1>1. PICK n \in Nat : n = Len(s) /\ i \in 1..n
  BY LenProperties
<1>2. s[i] \in X
  BY ElementOfSeq
<1>3. PICK k \in 0..Len(s) : k = i - 1 /\ k + 1 = i
  BY <1>1
<1>4. SubSeq(s, 1, k) \o SubSeq(s, k + 1, n) = SubSeq(s, 1, n)
  <2>1. 1 \in 1..(Len(s) + 1) /\ k \in (1 - 1)..Len(s) /\ n \in k..Len(s)
    BY <1>1
  <2> QED
    BY <2>1, ConcatAdjacentSubSeq
<1>5. SubSeq(s, 1, n) = s
  BY <1>1, SubSeqFull
<1>6. SubSeq(s, i, n) = <<s[i]>> \o SubSeq(s, i + 1, n)
  <2>1. n \in i..Len(s)
    BY <1>1
  <2> QED
    BY <2>1, SubSeqRecursiveFirst
<1>7. SubSeq(s, 1, k) \in Seq(X)
  <2>1. 1 \in 1..(Len(s) + 1) /\ k \in (1 - 1)..Len(s)
    BY <1>1
  <2> QED
    BY <2>1, Slice
<1>8. SubSeq(s, i + 1, n) \in Seq(X)
  <2>1. PICK m \in 1..(Len(s) + 1) : m = i + 1
    BY <1>1
  <2>2. n \in (m - 1)..Len(s)
    BY <1>1, <2>1
  <2> QED
    BY <2>1, <2>2, Slice
<1> QED
  BY <1>1, <1>2, <1>3, <1>4, <1>5, <1>6, <1>7, <1>8

\* A character that stands in a sequence has a first place.
LEMMA FirstPlace ==
  ASSUME NEW X, NEW s \in Seq(X), NEW ch, Y!Find(s, ch) # {}
  PROVE  \E i \in 1..Len(s) :
           /\ s[i] = ch /\ \A j \in 1..(i - 1) : s[j] # ch
           /\ Y!Find(s, ch) = {i} /\ Y!The(Y!Find(s, ch)) = i
<1>1. Len(s) \in Nat /\ DOMAIN s = 1..Len(s)
  BY LenProperties
<1>2. PICK i \in Y!Find(s, ch) : TRUE
  OBVIOUS
<1>3. i \in 1..Len(s) /\ s[i] = ch /\ \A j \in 1..(i - 1) : s[j] # ch
  BY <1>1 DEF Y!Find
<1>4. ASSUME NEW k \in Y!Find(s, ch)
      PROVE  k = i
  <2>1. k \in 1..Len(s) /\ s[k] = ch /\ \A j \in 1..(k - 1) : s[j] # ch
    BY <1>1 DEF Y!Find
  <2>2. k < i => k \in 1..(i - 1)
    BY <1>1, <1>3, <2>1
  <2>3. i < k => i \in 1..(k - 1)
    BY <1>1, <1>3, <2>1
  <2> QED
    BY <1>1, <1>3, <2>1, <2>2, <2>3
<1>5. Y!Find(s, ch) = {i}
  BY <1>4
<1> QED
  BY <1>3, <1>5 DEF Y!The

LEMMA NoPlace ==
  ASSUME NEW X, NEW s \in Seq(X), NEW ch, Y!Find(s, ch) = {}
  PROVE  \A i \in 1..Len(s) : s[i] # ch
<1> SUFFICES ASSUME NEW k \in 1..Len(s), s[k] = ch
             PROVE  FALSE
  OBVIOUS
<1> DEFINE P == {i \in 1..Len(s) : s[i] = ch}
<1>1. Len(s) \in Nat /\ DOMAIN s = 1..Len(s)
  BY LenProperties
<1>2. PICK m \in P : \A j \in P : m <= j
  <2>1. P \in SUBSET Nat /\ P # {}
    BY <1>1
  <2> HIDE DEF P
  <2> QED
    BY <2>1, LeastOf
<1>3. \A j \in 1..(m - 1) : j \in 1..Len(s) /\ ~(m <= j)
  BY <1>1
<1>4. m \in Y!Find(s, ch)
  BY <1>1, <1>2, <1>3 DEF Y!Find
<1> QED
  BY <1>4

\* What a cut leaves, and what it returns.
LEMMA CutIs ==
  ASSUME NEW X, NEW s \in Seq(X), NEW ch
  PROVE  \/ /\ \A i \in 1..Len(s) : s[i] # ch
            /\ Y!Cut(s, ch) = [left |-> s, rest |-> {}]
         \/ \E i \in 1..Len(s) :
              /\ s[i] = ch /\ \A j \in 1..(i - 1) : s[j] # ch
              /\ Y!Cut(s, ch) = [left |-> SubSeq(s, 1, i - 1),
                                 rest |-> {SubSeq(s, i + 1, Len(s))}]
<1>1. CASE Y!Find(s, ch) = {}
  BY <1>1, NoPlace DEF Y!Cut, Y!Null
<1>2. CASE Y!Find(s, ch) # {}
  <2>1. PICK i \in 1..Len(s) :
           /\ s[i] = ch /\ \A j \in 1..(i - 1) : s[j] # ch
           /\ Y!The(Y!Find(s, ch)) = i
    BY <1>2, FirstPlace
  <2>2. Y!Cut(s, ch) = [left |-> SubSeq(s, 1, i - 1), rest |-> {SubSeq(s, i + 1, Len(s))}]
    BY <1>2, <2>1 DEF Y!Cut, Y!From
  <2> QED
    BY <2>1, <2>2
<1> QED
  BY <1>1, <1>2

\* A pointer that is NULL or to a string over X.
Pointers(X) == {{}} \cup {{x} : x \in Seq(X)}

\* A cut loses nothing but the character.
LEMMA CutParts ==
  ASSUME NEW X, NEW s \in Seq(X), NEW ch \in X
  PROVE  \E left \in Seq(X), rest \in Pointers(X) :
           /\ Y!Cut(s, ch) = [left |-> left, rest |-> rest]
           /\ s = left \o Around(<<ch>>, rest, <<>>)
<1> DEFINE c == Y!Cut(s, ch)
<1> HIDE DEF c
<1>0. c = Y!Cut(s, ch)
  BY DEF c
<1>1. CASE c = [left |-> s, rest |-> {}]
  <2>1. {} \in Pointers(X) /\ s \o <<>> = s
    BY ConcatEmptySeq DEF Pointers
  <2>2. s = s \o Around(<<ch>>, {}, <<>>)
    BY <2>1, ZenonT(60) DEF Around
  <2> QED
    BY <1>0, <1>1, <2>1, <2>2
<1>2. ASSUME NEW i \in 1..Len(s), s[i] = ch,
             c = [left |-> SubSeq(s, 1, i - 1), rest |-> {SubSeq(s, i + 1, Len(s))}]
      PROVE  /\ c = [left |-> c.left, rest |-> c.rest]
             /\ c.left \in Seq(X)
             /\ \E r \in Seq(X) : c.rest = {r}
             /\ s = c.left \o Around(<<ch>>, c.rest, <<>>)
  <2>1. PICK a \in Seq(X) : a = SubSeq(s, 1, i - 1)
    BY SplitAt
  <2>2. PICK r \in Seq(X) : r = SubSeq(s, i + 1, Len(s))
    BY SplitAt
  <2>3. s = a \o (<<ch>> \o r)
    <3>1. s = SubSeq(s, 1, i - 1) \o (<<s[i]>> \o SubSeq(s, i + 1, Len(s)))
      BY SplitAt
    <3> QED
      BY <1>2, <2>1, <2>2, <3>1
  <2>4. c.left = a /\ c.rest = {r} /\ c = [left |-> c.left, rest |-> c.rest]
    BY <1>2, <2>1, <2>2
  <2>5. <<ch>> \in Seq(X)
    OBVIOUS
  <2>6. PICK h \in Seq(X) : h = <<ch>>
    BY <2>5
  <2>7. h \o r \in Seq(X) /\ (h \o r) \o <<>> = h \o r
    <3>1. h \o r \in Seq(X)
      BY ConcatIn
    <3> QED
      BY <3>1, ConcatEmptySeq
  <2>8. (CHOOSE p \in {r} : TRUE) = r /\ {r} # {}
    OBVIOUS
  <2>9. Around(<<ch>>, c.rest, <<>>) = <<ch>> \o r
    BY <2>4, <2>6, <2>7, <2>8, Zenon DEF Around
  <2> QED
    BY <2>1, <2>2, <2>3, <2>4, <2>6, <2>7, <2>9
<1>3. ASSUME NEW i \in 1..Len(s), s[i] = ch,
             c = [left |-> SubSeq(s, 1, i - 1), rest |-> {SubSeq(s, i + 1, Len(s))}]
      PROVE  \E left \in Seq(X), rest \in Pointers(X) :
               /\ Y!Cut(s, ch) = [left |-> left, rest |-> rest]
               /\ s = left \o Around(<<ch>>, rest, <<>>)
  <2>1. c.rest \in Pointers(X) /\ c.left \in Seq(X)
    BY <1>2, <1>3 DEF Pointers
  <2> QED
    BY <1>0, <1>2, <1>3, <2>1
<1>4. \/ c = [left |-> s, rest |-> {}]
      \/ \E i \in 1..Len(s) :
              /\ s[i] = ch /\ \A j \in 1..(i - 1) : s[j] # ch
              /\ c = [left |-> SubSeq(s, 1, i - 1),
                      rest |-> {SubSeq(s, i + 1, Len(s))}]
  BY CutIs DEF c
<1> QED
  BY <1>1, <1>3, <1>4

LEMMA AroundIs ==
  ASSUME NEW a, NEW b
  PROVE  /\ Around(a, {}, b) = <<>>
         /\ \A x : Around(a, {x}, b) = (a \o x) \o b
<1>1. ASSUME NEW x
      PROVE  {x} # {} /\ (CHOOSE p \in {x} : TRUE) = x
  OBVIOUS
<1> QED
  BY <1>1, Zenon DEF Around

\* An URL has these parts; each of them points to a string or nowhere.
PartNames == {"scheme", "username", "password", "host", "port", "path", "query", "fragment"}
UrlOver(X, url) == DOMAIN url = PartNames /\ \A part \in PartNames : url[part] \in Pointers(X)

\* Setting parts of it.
LEMMA SetOne ==
  ASSUME NEW X, NEW url, UrlOver(X, url), NEW k \in PartNames, NEW p \in Pointers(X)
  PROVE  LET v == [url EXCEPT ![k] = p] IN
         UrlOver(X, v) /\ v[k] = p /\ \A part \in PartNames \ {k} : v[part] = url[part]
BY DEF UrlOver

LEMMA AroundIn ==
  ASSUME NEW X, NEW p \in Pointers(X), NEW a \in Seq(X), NEW b \in Seq(X)
  PROVE  Around(a, p, b) \in Seq(X)
<1>1. CASE p = {}
  <2>1. <<>> \in Seq(X)
    OBVIOUS
  <2> QED
    BY <1>1, <2>1, AroundIs
<1>2. CASE \E x \in Seq(X) : p = {x}
  <2>1. PICK x \in Seq(X) : p = {x}
    BY <1>2
  <2>2. PICK ax \in Seq(X) : ax = a \o x
    BY ConcatIn
  <2>3. ax \o b \in Seq(X)
    BY ConcatIn
  <2> QED
    BY <2>1, <2>2, <2>3, AroundIs
<1> QED
  BY <1>1, <1>2 DEF Pointers

\* The part of an URL between the scheme and the path.
IsHost(w, host) == host = Around(<<>>, w.host, <<>>) \o Around(<<":">>, w.port, <<>>)
IsLogin(w, p, host) ==
  /\ w.host = {host}
  /\ p = (Around(<<>>, w.username, <<":">>) \o Around(<<>>, w.password, <<"@">>)) \o host

LEMMA PortKeeps ==
  ASSUME NEW X, ":" \in X, NEW url, UrlOver(X, url), NEW host \in Seq(X), url.host = {host},
         url.port = {}, NEW w \in Y!Port(url)
  PROVE  /\ UrlOver(X, w)
         /\ \A part \in PartNames \ {"host", "port"} : w[part] = url[part]
         /\ IsHost(w, host)
<1>1. PICK left \in Seq(X), rest \in Pointers(X) :
           /\ Y!Cut(host, ":") = [left |-> left, rest |-> rest]
           /\ host = left \o Around(<<":">>, rest, <<>>)
  BY CutParts, SMTT(60)
<1>2. Y!The(url.host) = host
  BY DEF Y!The
<1>3. PICK k : k = Y!Cut(Y!The(url.host), ":")
  OBVIOUS
<1>4. k.left = left /\ k.rest = rest
  BY <1>1, <1>2, <1>3
<1>5. w \in {[url EXCEPT !.host = {k.left}, !.port = k.rest]}
  BY <1>3, Zenon DEF Y!Port
<1>6. w = [url EXCEPT !.host = {left}, !.port = rest]
  BY <1>4, <1>5
<1>7. {left} \in Pointers(X)
  BY DEF Pointers
<1>8. /\ UrlOver(X, w) /\ w.host = {left} /\ w.port = rest
      /\ \A part \in PartNames \ {"host", "port"} : w[part] = url[part]
  BY <1>6, <1>7 DEF UrlOver, PartNames
<1>9. Around(<<>>, {left}, <<>>) = left
  <2>1. Around(<<>>, {left}, <<>>) = (<<>> \o left) \o <<>>
    BY AroundIs, ZenonT(60)
  <2>2. <<>> \o left = left /\ left \o <<>> = left
    BY ConcatEmptySeq
  <2> QED
    BY <2>1, <2>2
<1> QED
  BY <1>1, <1>8, <1>9 DEF IsHost

\* Strings put together in another order; a tuple of them, that the provers have
\* one thing to choose.
LEMMA RegroupThree ==
  \A X : \A q \in Seq(X) \X Seq(X) \X Seq(X) :
    q[1] \o (q[2] \o q[3]) = (q[1] \o q[2]) \o q[3]
<1> SUFFICES ASSUME NEW X
             PROVE  \A q \in Seq(X) \X Seq(X) \X Seq(X) :
                      q[1] \o (q[2] \o q[3]) = (q[1] \o q[2]) \o q[3]
  OBVIOUS
<1>1. \A a, b, c \in Seq(X) : a \o (b \o c) = (a \o b) \o c
  BY Regroup
<1>2. \A q \in Seq(X) \X Seq(X) \X Seq(X) : q[1] \in Seq(X) /\ q[2] \in Seq(X) /\ q[3] \in Seq(X)
  OBVIOUS
<1> QED
  BY <1>1, <1>2

LEMMA RegroupFive ==
  ASSUME NEW X, NEW q \in Seq(X) \X Seq(X) \X Seq(X) \X Seq(X) \X Seq(X)
  PROVE  (q[1] \o (q[2] \o q[3])) \o (q[4] \o q[5])
           = ((q[1] \o q[2]) \o (q[3] \o q[4])) \o q[5]
<1>1. /\ q[1] \in Seq(X) /\ q[2] \in Seq(X) /\ q[3] \in Seq(X)
      /\ q[4] \in Seq(X) /\ q[5] \in Seq(X)
  OBVIOUS
<1>2. q[1] \o q[2] \in Seq(X) /\ q[3] \o q[4] \in Seq(X) /\ q[4] \o q[5] \in Seq(X)
  BY <1>1, ConcatIn
<1>3. q[1] \o (q[2] \o q[3]) = (q[1] \o q[2]) \o q[3]
  <2>1. PICK r \in Seq(X) \X Seq(X) \X Seq(X) : r = <<q[1], q[2], q[3]>>
    BY <1>1, <1>2
  <2>2. r[1] = q[1] /\ r[2] = q[2] /\ r[3] = q[3]
    BY <2>1
  <2>3. r[1] \o (r[2] \o r[3]) = (r[1] \o r[2]) \o r[3]
    BY RegroupThree
  <2> QED
    BY <2>2, <2>3, Zenon
<1>4. (q[1] \o q[2]) \o (q[3] \o (q[4] \o q[5])) = ((q[1] \o q[2]) \o q[3]) \o (q[4] \o q[5])
  <2>1. PICK r \in Seq(X) \X Seq(X) \X Seq(X) : r = <<(q[1] \o q[2]), q[3], (q[4] \o q[5])>>
    BY <1>1, <1>2
  <2>2. r[1] = (q[1] \o q[2]) /\ r[2] = q[3] /\ r[3] = (q[4] \o q[5])
    BY <2>1
  <2>3. r[1] \o (r[2] \o r[3]) = (r[1] \o r[2]) \o r[3]
    BY RegroupThree
  <2> QED
    BY <2>2, <2>3, Zenon
<1>5. q[3] \o (q[4] \o q[5]) = (q[3] \o q[4]) \o q[5]
  <2>1. PICK r \in Seq(X) \X Seq(X) \X Seq(X) : r = <<q[3], q[4], q[5]>>
    BY <1>1, <1>2
  <2>2. r[1] = q[3] /\ r[2] = q[4] /\ r[3] = q[5]
    BY <2>1
  <2>3. r[1] \o (r[2] \o r[3]) = (r[1] \o r[2]) \o r[3]
    BY RegroupThree
  <2> QED
    BY <2>2, <2>3, Zenon
<1>6. (q[1] \o q[2]) \o ((q[3] \o q[4]) \o q[5]) = ((q[1] \o q[2]) \o (q[3] \o q[4])) \o q[5]
  <2>1. PICK r \in Seq(X) \X Seq(X) \X Seq(X) : r = <<(q[1] \o q[2]), (q[3] \o q[4]), q[5]>>
    BY <1>1, <1>2
  <2>2. r[1] = (q[1] \o q[2]) /\ r[2] = (q[3] \o q[4]) /\ r[3] = q[5]
    BY <2>1
  <2>3. r[1] \o (r[2] \o r[3]) = (r[1] \o r[2]) \o r[3]
    BY RegroupThree
  <2> QED
    BY <2>2, <2>3, Zenon
<1> QED
  BY <1>3, <1>4, <1>5, <1>6, Zenon

LEMMA CredentialsKeep ==
  ASSUME NEW X, ":" \in X, "@" \in X, NEW p \in Seq(X),
         NEW url, UrlOver(X, url), url.username = {}, url.password = {},
         NEW w \in Y!Credentials(url, Y!Cut(p, "@"))
  PROVE  /\ UrlOver(X, w)
         /\ \A part \in PartNames \ {"username", "password", "host"} : w[part] = url[part]
         /\ \E host \in Seq(X) : IsLogin(w, p, host)
<1>1. PICK left \in Seq(X), rest \in Pointers(X) :
           /\ Y!Cut(p, "@") = [left |-> left, rest |-> rest]
           /\ p = left \o Around(<<"@">>, rest, <<>>)
  BY CutParts, SMTT(60)
<1>2. PICK name \in Seq(X), password \in Pointers(X) :
           /\ Y!Cut(left, ":") = [left |-> name, rest |-> password]
           /\ left = name \o Around(<<":">>, password, <<>>)
  BY CutParts, ZenonT(60)
<1>4. PICK at : at = [left |-> left, rest |-> rest]
  OBVIOUS
<1>5. at.left = left /\ at.rest = rest
  BY <1>4
<1>6. w \in Y!Credentials(url, at)
  BY <1>1, <1>4, Zenon
<1>7. PICK k : k = Y!Cut(left, ":")
  OBVIOUS
<1>8. k.left = name /\ k.rest = password
  BY <1>2, <1>7
<1>9. w \in (IF rest = {} THEN {[url EXCEPT !.host = {left}]}
             ELSE IF left = <<>> \/ password = {} THEN {}
             ELSE {[url EXCEPT !.username = {name}, !.password = password, !.host = rest]})
  BY <1>5, <1>6, <1>7, <1>8, Zenon DEF Y!Credentials, Y!Null
<1>10. {} \in Pointers(X) /\ {name} \in Pointers(X) /\ <<>> \in Seq(X)
  BY DEF Pointers
<1>11. CASE rest = {}
  <2>0. w = [url EXCEPT !.host = {left}] /\ {left} \in Pointers(X)
    BY <1>9, <1>11 DEF Pointers
  <2>1. /\ UrlOver(X, w) /\ w.host = {left} /\ w.username = {} /\ w.password = {}
        /\ \A part \in PartNames \ {"username", "password", "host"} : w[part] = url[part]
    BY <2>0 DEF UrlOver, PartNames
  <2>2. p = left
    <3>1. p = left \o <<>>
      BY <1>1, <1>11, AroundIs
    <3> QED
      BY <3>1, ConcatEmptySeq
  <2>3. (<<>> \o <<>>) \o left = left
    <3>1. <<>> \o <<>> = <<>>
      BY <1>10, ConcatEmptySeq
    <3> QED
      BY <3>1, ConcatEmptySeq
  <2>4. p = (Around(<<>>, {}, <<":">>) \o Around(<<>>, {}, <<"@">>)) \o left
    BY <2>2, <2>3, AroundIs, Zenon
  <2> QED
    BY <2>1, <2>4 DEF IsLogin
<1>12. CASE rest # {}
  <2>1. left # <<>> /\ password # {}
        /\ w = [url EXCEPT !.username = {name}, !.password = password, !.host = rest]
    BY <1>9, <1>12
  <2>2. PICK word \in Seq(X) : password = {word}
    BY <2>1 DEF Pointers
  <2>3. PICK host \in Seq(X) : rest = {host}
    BY <1>12 DEF Pointers
  <2>4. /\ UrlOver(X, w) /\ w.host = {host} /\ w.username = {name} /\ w.password = {word}
        /\ \A part \in PartNames \ {"username", "password", "host"} : w[part] = url[part]
    BY <1>10, <2>1, <2>2, <2>3 DEF UrlOver, PartNames
  <2>0. <<":">> \in Seq(X) /\ <<"@">> \in Seq(X)
    OBVIOUS
  <2>5. PICK k1 \in Seq(X) : k1 = <<":">>
    BY <2>0
  <2>6. PICK k2 \in Seq(X) : k2 = <<"@">>
    BY <2>0
  <2>7. left = name \o (k1 \o word) /\ p = left \o (k2 \o host)
    <3>0. /\ Around(<<":">>, password, <<>>) = (k1 \o word) \o <<>>
          /\ Around(<<"@">>, rest, <<>>) = (k2 \o host) \o <<>>
      <4>1. /\ Around(<<":">>, {word}, <<>>) = (<<":">> \o word) \o <<>>
            /\ Around(<<"@">>, {host}, <<>>) = (<<"@">> \o host) \o <<>>
        BY AroundIs, ZenonT(60)
      <4> QED
        BY <2>2, <2>3, <2>5, <2>6, <4>1
    <3>1. left = name \o ((k1 \o word) \o <<>>) /\ p = left \o ((k2 \o host) \o <<>>)
      BY <1>1, <1>2, <3>0, Zenon
    <3>2. k1 \o word \in Seq(X) /\ k2 \o host \in Seq(X)
      BY ConcatIn
    <3> QED
      BY <3>1, <3>2, ConcatEmptySeq
  <2>8. /\ Around(<<>>, {name}, <<":">>) = name \o k1
        /\ Around(<<>>, {word}, <<"@">>) = word \o k2
    <3>1. <<>> \o name = name /\ <<>> \o word = word
      BY ConcatEmptySeq
    <3>2. /\ Around(<<>>, {name}, <<":">>) = (<<>> \o name) \o <<":">>
          /\ Around(<<>>, {word}, <<"@">>) = (<<>> \o word) \o <<"@">>
      BY AroundIs
    <3> QED
      BY <2>5, <2>6, <3>1, <3>2
  <2>9. p = ((name \o k1) \o (word \o k2)) \o host
    <3>1. PICK q \in Seq(X) \X Seq(X) \X Seq(X) \X Seq(X) \X Seq(X) :
             q = <<name, k1, word, k2, host>>
      OBVIOUS
    <3>2. q[1] = name /\ q[2] = k1 /\ q[3] = word /\ q[4] = k2 /\ q[5] = host
      BY <3>1
    <3>3. (q[1] \o (q[2] \o q[3])) \o (q[4] \o q[5]) = ((q[1] \o q[2]) \o (q[3] \o q[4])) \o q[5]
      BY RegroupFive
    <3> QED
      BY <2>7, <3>2, <3>3
  <2>10. p = (Around(<<>>, {name}, <<":">>) \o Around(<<>>, {word}, <<"@">>)) \o host
    BY <2>8, <2>9, Zenon
  <2> QED
    BY <2>4, <2>10 DEF IsLogin
<1> QED
  BY <1>11, <1>12

LEMMA RegroupSix ==
  ASSUME NEW X, NEW q \in Seq(X) \X Seq(X) \X Seq(X) \X Seq(X) \X Seq(X) \X Seq(X)
  PROVE  q[1] \o (((q[2] \o q[3]) \o (q[4] \o q[5])) \o q[6])
           = ((((q[1] \o q[2]) \o q[3]) \o q[4]) \o q[5]) \o q[6]
<1>1. /\ q[1] \in Seq(X) /\ q[2] \in Seq(X) /\ q[3] \in Seq(X)
      /\ q[4] \in Seq(X) /\ q[5] \in Seq(X) /\ q[6] \in Seq(X)
  OBVIOUS
<1>2. /\ q[2] \o q[3] \in Seq(X) /\ q[4] \o q[5] \in Seq(X) /\ q[1] \o q[2] \in Seq(X)
      /\ (q[2] \o q[3]) \o (q[4] \o q[5]) \in Seq(X)
      /\ (q[1] \o q[2]) \o q[3] \in Seq(X)
  BY <1>1, ConcatIn
<1>3. q[1] \o (((q[2] \o q[3]) \o (q[4] \o q[5])) \o q[6]) = (q[1] \o ((q[2] \o q[3]) \o (q[4] \o q[5]))) \o q[6]
  <2>1. PICK r \in Seq(X) \X Seq(X) \X Seq(X) : r = <<q[1], ((q[2] \o q[3]) \o (q[4] \o q[5])), q[6]>>
    BY <1>1, <1>2
  <2>2. r[1] = q[1] /\ r[2] = ((q[2] \o q[3]) \o (q[4] \o q[5])) /\ r[3] = q[6]
    BY <2>1
  <2>3. r[1] \o (r[2] \o r[3]) = (r[1] \o r[2]) \o r[3]
    BY RegroupThree
  <2> QED
    BY <2>2, <2>3, Zenon
<1>4. q[1] \o ((q[2] \o q[3]) \o (q[4] \o q[5])) = (q[1] \o (q[2] \o q[3])) \o (q[4] \o q[5])
  <2>1. PICK r \in Seq(X) \X Seq(X) \X Seq(X) : r = <<q[1], (q[2] \o q[3]), (q[4] \o q[5])>>
    BY <1>1, <1>2
  <2>2. r[1] = q[1] /\ r[2] = (q[2] \o q[3]) /\ r[3] = (q[4] \o q[5])
    BY <2>1
  <2>3. r[1] \o (r[2] \o r[3]) = (r[1] \o r[2]) \o r[3]
    BY RegroupThree
  <2> QED
    BY <2>2, <2>3, Zenon
<1>5. q[1] \o (q[2] \o q[3]) = (q[1] \o q[2]) \o q[3]
  <2>1. PICK r \in Seq(X) \X Seq(X) \X Seq(X) : r = <<q[1], q[2], q[3]>>
    BY <1>1, <1>2
  <2>2. r[1] = q[1] /\ r[2] = q[2] /\ r[3] = q[3]
    BY <2>1
  <2>3. r[1] \o (r[2] \o r[3]) = (r[1] \o r[2]) \o r[3]
    BY RegroupThree
  <2> QED
    BY <2>2, <2>3, Zenon
<1>6. ((q[1] \o q[2]) \o q[3]) \o (q[4] \o q[5]) = (((q[1] \o q[2]) \o q[3]) \o q[4]) \o q[5]
  <2>1. PICK r \in Seq(X) \X Seq(X) \X Seq(X) : r = <<((q[1] \o q[2]) \o q[3]), q[4], q[5]>>
    BY <1>1, <1>2
  <2>2. r[1] = ((q[1] \o q[2]) \o q[3]) /\ r[2] = q[4] /\ r[3] = q[5]
    BY <2>1
  <2>3. r[1] \o (r[2] \o r[3]) = (r[1] \o r[2]) \o r[3]
    BY RegroupThree
  <2> QED
    BY <2>2, <2>3, Zenon
<1> QED
  BY <1>3, <1>4, <1>5, <1>6, Zenon

LEMMA JoinThree ==
  ASSUME NEW X, NEW q \in Seq(X) \X X \X X \X X
  PROVE  q[1] \o <<q[2], q[3], q[4]>> = ((q[1] \o <<q[2]>>) \o <<q[3]>>) \o <<q[4]>>
<1> DEFINE w == q[1]
           x == q[2]
           y == q[3]
           z == q[4]
<1>0. w \in Seq(X) /\ x \in X /\ y \in X /\ z \in X
  OBVIOUS
<1> HIDE DEF w, x, y, z
<1>1. PICK n \in Nat : n = Len(w)
  BY <1>0, LenProperties
<1>2. w \o <<x, y, z>> = Append(Append(Append(w, x), y), z)
  BY <1>0, <1>1
<1>3. \A v \in Seq(X) : \A a \in X : Append(v, a) = v \o <<a>>
  <2> SUFFICES ASSUME NEW v \in Seq(X), NEW a \in X
               PROVE  Append(v, a) = v \o <<a>>
    OBVIOUS
  <2>1. PICK m \in Nat : m = Len(v)
    BY LenProperties
  <2> QED
    BY <2>1, SMTT(60)
<1>4. Append(w, x) \in Seq(X) /\ Append(Append(w, x), y) \in Seq(X)
  BY <1>0
<1>5. w \o <<x, y, z>> = ((w \o <<x>>) \o <<y>>) \o <<z>>
  <2>1. Append(w, x) = w \o <<x>>
    BY <1>0, <1>3
  <2>2. Append(Append(w, x), y) = Append(w, x) \o <<y>>
    BY <1>0, <1>3, <1>4
  <2>3. Append(Append(Append(w, x), y), z) = Append(Append(w, x), y) \o <<z>>
    BY <1>0, <1>3, <1>4
  <2> QED
    BY <1>2, <2>1, <2>2, <2>3, Zenon
<1> QED
  BY <1>5 DEF w, x, y, z

\* What parse_scheme cuts off.
LEMMA SchemeKeeps ==
  ASSUME NEW X, ":" \in X, "/" \in X, NEW u \in Seq(X), Y!SchemeCut(u) # {}
  PROVE  \E left \in Seq(X), rest \in Seq(X) :
           /\ Y!The(Y!SchemeCut(u)) = [left |-> left, rest |-> rest]
           /\ u = Around(<<>>, {left}, <<":", "/", "/">>) \o rest
<1>1. Len(u) \in Nat /\ DOMAIN u = 1..Len(u)
  BY LenProperties
<1>2. PICK sc : sc = Y!The(Y!SchemeCut(u)) /\ sc \in Y!SchemeCut(u)
  BY DEF Y!The
<1>3. PICK i \in Y!Find(u, ":") :
        /\ i > 1 /\ i + 2 <= Len(u) /\ u[i + 1] = "/" /\ u[i + 2] = "/"
        /\ sc = [left |-> SubSeq(u, 1, i - 1), rest |-> Y!From(u, i + 3)]
  BY <1>2 DEF Y!SchemeCut
<1>4. i \in 1..Len(u) /\ u[i] = ":"
  BY <1>1, <1>3 DEF Y!Find
<1>5. PICK left \in Seq(X) : left = SubSeq(u, 1, i - 1)
  BY <1>4, SplitAt
<1>6. PICK r1 \in Seq(X) : r1 = SubSeq(u, i + 1, Len(u)) /\ u = left \o (<<":">> \o r1)
  <2>1. /\ SubSeq(u, i + 1, Len(u)) \in Seq(X)
        /\ u = SubSeq(u, 1, i - 1) \o (<<u[i]>> \o SubSeq(u, i + 1, Len(u)))
    BY <1>4, SplitAt
  <2> QED
    BY <1>4, <1>5, <2>1
<1>7. PICK j \in 1..Len(u) : j = i + 1
  BY <1>1, <1>3, <1>4
<1>8. PICK k \in 1..Len(u) : k = i + 2 /\ k = j + 1
  BY <1>1, <1>3, <1>4, <1>7
<1>9. PICK rest \in Seq(X) : rest = SubSeq(u, k + 1, Len(u))
  BY SplitAt
<1>10. r1 = <<"/">> \o (<<"/">> \o rest)
  <2>0. PICK n \in Nat : n = Len(u)
    BY <1>1
  <2>3. n \in j..Len(u) /\ n \in k..Len(u)
    BY <2>0
  <2>1. SubSeq(u, j, n) = <<u[j]>> \o SubSeq(u, j + 1, n)
    BY <2>3, SubSeqRecursiveFirst
  <2>2. SubSeq(u, k, n) = <<u[k]>> \o SubSeq(u, k + 1, n)
    BY <2>3, SubSeqRecursiveFirst
  <2> QED
    BY <1>3, <1>6, <1>7, <1>8, <1>9, <2>0, <2>1, <2>2
<1>11. <<":">> \in Seq(X) /\ <<"/">> \in Seq(X) /\ <<":", "/", "/">> \in Seq(X) /\ <<>> \in Seq(X)
  OBVIOUS
<1>12. left \o (<<":">> \o (<<"/">> \o (<<"/">> \o rest))) = (left \o <<":", "/", "/">>) \o rest
  <2>1. PICK c \in Seq(X), d \in Seq(X) : c = <<":">> /\ d = <<"/">>
    BY <1>11
  <2>2. left \o <<":", "/", "/">> = ((left \o c) \o d) \o d
    <3>1. PICK q \in Seq(X) \X X \X X \X X : q = <<left, ":", "/", "/">>
      OBVIOUS
    <3>2. q[1] = left /\ q[2] = ":" /\ q[3] = "/" /\ q[4] = "/"
      BY <3>1
    <3>3. q[1] \o <<q[2], q[3], q[4]>> = ((q[1] \o <<q[2]>>) \o <<q[3]>>) \o <<q[4]>>
      BY JoinThree
    <3> QED
      BY <2>1, <3>2, <3>3, Zenon
  <2>3. d \o rest \in Seq(X) /\ left \o c \in Seq(X)
    BY ConcatIn
  <2>4. d \o (d \o rest) \in Seq(X) /\ (left \o c) \o d \in Seq(X)
    BY <2>3, ConcatIn
  <2>5. left \o (c \o (d \o (d \o rest))) = (left \o c) \o (d \o (d \o rest))
    <3>1. PICK r \in Seq(X) \X Seq(X) \X Seq(X) : r = <<left, c, (d \o (d \o rest))>>
      BY <2>3, <2>4
    <3>2. r[1] = left /\ r[2] = c /\ r[3] = (d \o (d \o rest))
      BY <3>1
    <3>3. r[1] \o (r[2] \o r[3]) = (r[1] \o r[2]) \o r[3]
      BY RegroupThree
    <3> QED
      BY <3>2, <3>3, Zenon
  <2>6. (left \o c) \o (d \o (d \o rest)) = ((left \o c) \o d) \o (d \o rest)
    <3>1. PICK r \in Seq(X) \X Seq(X) \X Seq(X) : r = <<(left \o c), d, (d \o rest)>>
      BY <2>3, <2>4
    <3>2. r[1] = (left \o c) /\ r[2] = d /\ r[3] = (d \o rest)
      BY <3>1
    <3>3. r[1] \o (r[2] \o r[3]) = (r[1] \o r[2]) \o r[3]
      BY RegroupThree
    <3> QED
      BY <3>2, <3>3, Zenon
  <2>7. ((left \o c) \o d) \o (d \o rest) = (((left \o c) \o d) \o d) \o rest
    <3>1. PICK r \in Seq(X) \X Seq(X) \X Seq(X) : r = <<((left \o c) \o d), d, rest>>
      BY <2>3, <2>4
    <3>2. r[1] = ((left \o c) \o d) /\ r[2] = d /\ r[3] = rest
      BY <3>1
    <3>3. r[1] \o (r[2] \o r[3]) = (r[1] \o r[2]) \o r[3]
      BY RegroupThree
    <3> QED
      BY <3>2, <3>3, Zenon
  <2> QED
    BY <2>1, <2>2, <2>5, <2>6, <2>7, Zenon
<1>14. Around(<<>>, {left}, <<":", "/", "/">>) = left \o <<":", "/", "/">>
  <2>1. Around(<<>>, {left}, <<":", "/", "/">>) = (<<>> \o left) \o <<":", "/", "/">>
    BY AroundIs
  <2>2. <<>> \o left = left
    BY ConcatEmptySeq
  <2> QED
    BY <2>1, <2>2
<1>15. u = Around(<<>>, {left}, <<":", "/", "/">>) \o rest
  BY <1>6, <1>10, <1>12, <1>14
<1>16. sc = [left |-> left, rest |-> rest]
  <2>1. Y!From(u, i + 3) = rest
    <3>1. i + 3 = k + 1
      BY <1>8, <1>4
    <3> QED
      BY <1>9, <3>1, Zenon DEF Y!From
  <2> QED
    BY <1>3, <1>5, <2>1
<1> QED
  BY <1>2, <1>15, <1>16

LEMMA CutFields ==
  \A a, b : [left |-> a, rest |-> b].left = a /\ [left |-> a, rest |-> b].rest = b
OBVIOUS

LEMMA ResultFields ==
  \A a, b : [ok |-> a, url |-> b].ok = a /\ [ok |-> a, url |-> b].url = b
OBVIOUS

\* The parts before the query, put together.
Front(v) ==
  ((((Around(<<>>, v.scheme, <<":", "/", "/">>) \o Around(<<>>, v.username, <<":">>))
      \o Around(<<>>, v.password, <<"@">>)) \o Around(<<>>, v.host, <<>>))
    \o Around(<<":">>, v.port, <<>>)) \o Around(<<"/">>, v.path, <<>>)

\* What is left of an URL without query and fragment, taken apart.
LEMMA MainKeeps ==
  ASSUME NEW X, {":", "@", "/"} \subseteq X, NEW u \in Seq(X),
         NEW url, UrlOver(X, url),
         \A part \in PartNames \ {"query", "fragment"} : url[part] = {}
  PROVE  LET r == Y!Main(url, u) IN
         /\ UrlOver(X, r.url) /\ r.url.query = url.query /\ r.url.fragment = url.fragment
         /\ r.ok => u = Front(r.url)
<1>1. PICK r : r = Y!Main(url, u)
  OBVIOUS
<1>2. ":" \in X /\ "@" \in X /\ "/" \in X
  OBVIOUS
<1>3. {} \in Pointers(X) /\ <<>> \in Seq(X)
  BY DEF Pointers
<1>4. /\ url.scheme = {} /\ url.username = {} /\ url.password = {} /\ url.host = {}
      /\ url.port = {} /\ url.path = {}
  BY DEF PartNames
<1>5. CASE u # <<>> /\ Head(u) = "/"
  <2>1. PICK left \in Seq(X), rest \in Pointers(X) :
           /\ Y!Cut(u, "/") = [left |-> left, rest |-> rest]
           /\ u = left \o Around(<<"/">>, rest, <<>>)
    BY CutParts, SMTT(60)
  <2>2. r = [ok |-> TRUE, url |-> [url EXCEPT !.path = Y!Cut(u, "/").rest]]
    BY <1>1, <1>5 DEF Y!Main
  <2>3. r.url = [url EXCEPT !.path = rest]
    <3>1. Y!Cut(u, "/").rest = rest
      BY <2>1, CutFields
    <3> QED
      BY <2>2, <3>1, ResultFields, Zenon
  <2>4. left = <<>>
    <3>1. Len(u) \in Nat /\ Len(u) >= 1 /\ u[1] = "/"
      BY <1>5, EmptySeq, LenProperties
    <3>2. \/ /\ \A i \in 1..Len(u) : u[i] # "/"
             /\ Y!Cut(u, "/") = [left |-> u, rest |-> {}]
          \/ \E i \in 1..Len(u) :
               /\ u[i] = "/" /\ \A j \in 1..(i - 1) : u[j] # "/"
               /\ Y!Cut(u, "/") = [left |-> SubSeq(u, 1, i - 1),
                                   rest |-> {SubSeq(u, i + 1, Len(u))}]
      BY CutIs
    <3>3. PICK i \in 1..Len(u) :
               /\ u[i] = "/" /\ \A j \in 1..(i - 1) : u[j] # "/"
               /\ Y!Cut(u, "/") = [left |-> SubSeq(u, 1, i - 1),
                                   rest |-> {SubSeq(u, i + 1, Len(u))}]
      <4>1. 1 \in 1..Len(u)
        BY <3>1
      <4> QED
        BY <3>1, <3>2, <4>1, Zenon
    <3>4. i = 1
      BY <3>1, <3>3
    <3>5. SubSeq(u, 1, i - 1) = <<>>
      BY <3>1, <3>4, SubSeqEmpty
    <3> QED
      <4>1. [left |-> left, rest |-> rest]
              = [left |-> SubSeq(u, 1, i - 1), rest |-> {SubSeq(u, i + 1, Len(u))}]
        BY <2>1, <3>3, Zenon
      <4>2. left = SubSeq(u, 1, i - 1)
        BY <4>1, CutFields
      <4> QED
        BY <3>5, <4>2
  <2>5. \A a : Around(<<>>, {}, a) = <<>> /\ Around(a, {}, <<>>) = <<>>
    BY AroundIs
  <2>6. <<>> \o <<>> = <<>>
    BY <1>3, ConcatEmptySeq
  <2>7. /\ UrlOver(X, r.url) /\ r.url.path = rest
        /\ \A part \in PartNames \ {"path"} : r.url[part] = url[part]
    BY <2>3 DEF UrlOver, PartNames
  <2>8. PICK v : v = r.url
    OBVIOUS
  <2>9. /\ v.scheme = {} /\ v.username = {} /\ v.password = {} /\ v.host = {} /\ v.port = {}
        /\ v.path = rest /\ v.query = url.query /\ v.fragment = url.fragment
    BY <1>4, <2>7, <2>8 DEF PartNames
  <2>10. u = Front(v)
    BY <2>1, <2>4, <2>5, <2>6, <2>9, Zenon DEF Front
  <2> QED
    BY <1>1, <2>7, <2>8, <2>9, <2>10, Zenon
<1>6. CASE ~(u # <<>> /\ Head(u) = "/")
  <2>1. r = Y!Absolute(url, u)
    BY <1>1, <1>6, Zenon DEF Y!Main
  <2>2. CASE Y!SchemeCut(u) = {}
    <3>1. r = [ok |-> FALSE, url |-> url]
      BY <2>1, <2>2, Zenon DEF Y!Absolute
    <3>2. ~r.ok /\ r.url = url
      BY <3>1, ResultFields, Zenon
    <3> QED
      BY <1>1, <3>2, Zenon
  <2>3. CASE Y!SchemeCut(u) # {}
    <3>1. PICK scheme \in Seq(X), s \in Seq(X) :
             /\ Y!The(Y!SchemeCut(u)) = [left |-> scheme, rest |-> s]
             /\ u = Around(<<>>, {scheme}, <<":", "/", "/">>) \o s
      BY <1>2, <2>3, SchemeKeeps
    <3>2. PICK p \in Seq(X), path \in Pointers(X) :
             /\ Y!Cut(s, "/") = [left |-> p, rest |-> path]
             /\ s = p \o Around(<<"/">>, path, <<>>)
      BY <1>2, CutParts, ZenonT(60)
    <3>3. PICK found : found = [url EXCEPT !.scheme = {scheme}, !.path = path]
      OBVIOUS
    <3>4. /\ UrlOver(X, found) /\ found.scheme = {scheme} /\ found.path = path
          /\ \A part \in PartNames \ {"scheme", "path"} : found[part] = url[part]
      <4>1. {scheme} \in Pointers(X)
        BY DEF Pointers
      <4> QED
        BY <3>3, <4>1 DEF UrlOver, PartNames
    <3>5. /\ found.username = {} /\ found.password = {} /\ found.port = {}
          /\ found.query = url.query /\ found.fragment = url.fragment
      BY <1>4, <3>4 DEF PartNames
    <3>6. PICK whole : whole = UNION {Y!Port(c) : c \in Y!Credentials(found, Y!Cut(p, "@"))}
      OBVIOUS
    <3>7. \/ r = [ok |-> FALSE, url |-> url]
          \/ r = [ok |-> FALSE, url |-> found]
          \/ whole # {} /\ r = [ok |-> TRUE, url |-> Y!The(whole)]
      <4>1. PICK sc : sc = Y!The(Y!SchemeCut(u))
        OBVIOUS
      <4>2. PICK cut : cut = Y!Cut(s, "/")
        OBVIOUS
      <4>3. sc.left = scheme /\ sc.rest = s /\ cut.left = p /\ cut.rest = path
        <5>1. sc = [left |-> scheme, rest |-> s]
          BY <3>1, <4>1, Zenon
        <5>2. cut = [left |-> p, rest |-> path]
          BY <3>2, <4>2, Zenon
        <5> QED
          BY <5>1, <5>2, CutFields
      <4>5. r = IF Y!SchemeCut(u) = {} \/ s = <<>> THEN [ok |-> FALSE, url |-> url]
                ELSE IF whole = {} THEN [ok |-> FALSE, url |-> found]
                ELSE [ok |-> TRUE, url |-> Y!The(whole)]
        BY <2>1, <3>3, <3>6, <4>1, <4>2, <4>3, Zenon DEF Y!Absolute
      <4> QED
        BY <4>5
    <3>8. CASE r = [ok |-> FALSE, url |-> url] \/ r = [ok |-> FALSE, url |-> found]
      <4>1. ~r.ok /\ (r.url = url \/ r.url = found)
        <5>1. r = [ok |-> FALSE, url |-> url] => ~r.ok /\ r.url = url
          OBVIOUS
        <5>2. r = [ok |-> FALSE, url |-> found] => ~r.ok /\ r.url = found
          OBVIOUS
        <5> QED
          BY <3>8, <5>1, <5>2
      <4> QED
        BY <1>1, <3>4, <3>5, <4>1, Zenon
    <3>9. CASE whole # {} /\ r = [ok |-> TRUE, url |-> Y!The(whole)]
      <4>1. PICK w : w \in whole /\ r.url = w
        BY <3>9 DEF Y!The
      <4>2. PICK k \in Y!Credentials(found, Y!Cut(p, "@")) : w \in Y!Port(k)
        BY <3>6, <4>1
      <4>3. /\ UrlOver(X, k)
            /\ \A part \in PartNames \ {"username", "password", "host"} : k[part] = found[part]
            /\ \E host \in Seq(X) : IsLogin(k, p, host)
        BY <1>2, <3>4, <3>5, CredentialsKeep
      <4>4. PICK host \in Seq(X) : IsLogin(k, p, host)
        BY <4>3
      <4>5. k.port = {}
        BY <3>5, <4>3 DEF PartNames
      <4>6. /\ UrlOver(X, w)
            /\ \A part \in PartNames \ {"host", "port"} : w[part] = k[part]
            /\ IsHost(w, host)
        <5>1. k.host = {host}
          BY <4>4 DEF IsLogin
        <5> QED
          BY <1>2, <4>2, <4>3, <4>5, <5>1, PortKeeps
      <4>7. /\ w.scheme = {scheme} /\ w.path = path /\ w.query = url.query
            /\ w.fragment = url.fragment /\ w.username = k.username /\ w.password = k.password
        BY <3>4, <3>5, <4>3, <4>6 DEF PartNames
      <4>8. PICK t1 : t1 = Around(<<>>, w.scheme, <<":", "/", "/">>)
        OBVIOUS
      <4>9. PICK t2 : t2 = Around(<<>>, w.username, <<":">>)
        OBVIOUS
      <4>10. PICK t3 : t3 = Around(<<>>, w.password, <<"@">>)
        OBVIOUS
      <4>11. PICK t4 : t4 = Around(<<>>, w.host, <<>>)
        OBVIOUS
      <4>12. PICK t5 : t5 = Around(<<":">>, w.port, <<>>)
        OBVIOUS
      <4>13. PICK t6 : t6 = Around(<<"/">>, w.path, <<>>)
        OBVIOUS
      <4>14. /\ t1 \in Seq(X) /\ t2 \in Seq(X) /\ t3 \in Seq(X)
             /\ t4 \in Seq(X) /\ t5 \in Seq(X) /\ t6 \in Seq(X)
        <5>1. /\ <<":", "/", "/">> \in Seq(X) /\ <<":">> \in Seq(X) /\ <<"@">> \in Seq(X)
              /\ <<"/">> \in Seq(X)
          BY <1>2
        <5>2. /\ w.scheme \in Pointers(X) /\ w.username \in Pointers(X)
              /\ w.password \in Pointers(X) /\ w.host \in Pointers(X)
              /\ w.port \in Pointers(X) /\ w.path \in Pointers(X)
          BY <4>6 DEF UrlOver, PartNames
        <5>3. \A part \in Pointers(X) : \A a, b \in Seq(X) : Around(a, part, b) \in Seq(X)
          BY AroundIn
        <5> QED
          BY <1>3, <4>8, <4>9, <4>10, <4>11, <4>12, <4>13, <5>1, <5>2, <5>3, Zenon
      <4>15. u = t1 \o (((t2 \o t3) \o (t4 \o t5)) \o t6)
        BY <3>1, <3>2, <4>4, <4>6, <4>7, <4>8, <4>9, <4>10, <4>11, <4>12, <4>13, Zenon DEF IsLogin, IsHost
      <4>16. u = ((((t1 \o t2) \o t3) \o t4) \o t5) \o t6
        <5>1. PICK q \in Seq(X) \X Seq(X) \X Seq(X) \X Seq(X) \X Seq(X) \X Seq(X) :
                 q = <<t1, t2, t3, t4, t5, t6>>
          BY <4>14
        <5>2. q[1] = t1 /\ q[2] = t2 /\ q[3] = t3 /\ q[4] = t4 /\ q[5] = t5 /\ q[6] = t6
          BY <5>1
        <5>3. q[1] \o (((q[2] \o q[3]) \o (q[4] \o q[5])) \o q[6])
                = ((((q[1] \o q[2]) \o q[3]) \o q[4]) \o q[5]) \o q[6]
          BY RegroupSix
        <5> QED
          BY <4>15, <5>2, <5>3, Zenon
      <4>17. u = Front(w)
        BY <4>8, <4>9, <4>10, <4>11, <4>12, <4>13, <4>16, Zenon DEF Front
      <4> QED
        BY <1>1, <4>1, <4>6, <4>7, <4>17, Zenon
    <3> QED
      BY <3>7, <3>8, <3>9
  <2> QED
    BY <2>2, <2>3
<1> QED
  BY <1>5, <1>6

\* Putting the parts together gives the URL.
LEMMA ParseKeeps ==
  ASSUME NEW X, {":", "@", "/", "?", "#"} \subseteq X, NEW s \in Seq(X)
  PROVE  /\ Y!Parse(s).url.path \in Pointers(X)
         /\ Y!Parse(s).ok => Whole(Y!Parse(s).url) = s
<1>0. "?" \in X /\ "#" \in X /\ {":", "@", "/"} \subseteq X
  OBVIOUS
<1>1. PICK fl \in Seq(X), fragment \in Pointers(X) :
         /\ Y!Cut(s, "#") = [left |-> fl, rest |-> fragment]
         /\ s = fl \o Around(<<"#">>, fragment, <<>>)
  BY <1>0, CutParts, ZenonT(60)
<1>2. PICK u \in Seq(X), query \in Pointers(X) :
         /\ Y!Cut(fl, "?") = [left |-> u, rest |-> query]
         /\ fl = u \o Around(<<"?">>, query, <<>>)
  BY <1>0, CutParts, ZenonT(60)
<1>3. PICK url : url = [Y!NoUrl EXCEPT !.fragment = fragment, !.query = query]
  OBVIOUS
<1>4. Y!Parse(s) = Y!Main(url, u)
  <2>1. PICK f : f = Y!Cut(s, "#")
    OBVIOUS
  <2>2. f.left = fl /\ f.rest = fragment
    BY <1>1, <2>1
  <2>3. PICK q : q = Y!Cut(fl, "?")
    OBVIOUS
  <2>4. q.left = u /\ q.rest = query
    BY <1>2, <2>3
  <2> QED
    BY <1>3, <2>1, <2>2, <2>3, <2>4, Zenon DEF Y!Parse
<1>5. /\ UrlOver(X, url) /\ url.query = query /\ url.fragment = fragment
      /\ \A part \in PartNames \ {"query", "fragment"} : url[part] = {}
  <2>1. {} \in Pointers(X)
    BY DEF Pointers
  <2>2. /\ UrlOver(X, Y!NoUrl) /\ \A part \in PartNames : Y!NoUrl[part] = {}
    BY <2>1 DEF UrlOver, PartNames, Y!NoUrl, Y!Null
  <2> QED
    BY <1>3, <2>2 DEF UrlOver, PartNames
<1>6. PICK r : r = Y!Main(url, u)
  OBVIOUS
<1>7. /\ UrlOver(X, r.url) /\ r.url.query = query /\ r.url.fragment = fragment
      /\ r.ok => u = Front(r.url)
  <2>1. LET w == Y!Main(url, u) IN
        /\ UrlOver(X, w.url) /\ w.url.query = url.query /\ w.url.fragment = url.fragment
        /\ w.ok => u = Front(w.url)
    BY <1>0, <1>5, MainKeeps
  <2> QED
    BY <1>5, <1>6, <2>1, Zenon
<1>8. ASSUME r.ok
      PROVE  Whole(r.url) = s
  <2>1. s = (Front(r.url) \o Around(<<"?">>, r.url.query, <<>>)) \o Around(<<"#">>, r.url.fragment, <<>>)
    BY <1>1, <1>2, <1>7, <1>8, Zenon
  <2> QED
    BY <2>1, Zenon DEF Whole, Front
<1>9. r.url.path \in Pointers(X)
  BY <1>7 DEF UrlOver, PartNames
<1> QED
  BY <1>4, <1>6, <1>8, <1>9, Zenon

\* A slice of a slice.
LEMMA SliceOfSlice ==
  ASSUME NEW X, NEW s \in Seq(X), NEW j \in 1..(Len(s) + 1), NEW e \in (j - 1)..Len(s),
         NEW a \in 1..((e - j) + 2), NEW b \in (a - 1)..((e - j) + 1)
  PROVE  SubSeq(SubSeq(s, j, e), a, b) = SubSeq(s, (j + a) - 1, (j + b) - 1)
<1>1. Len(s) \in Nat
  BY LenProperties
<1>2. PICK w \in Seq(X) : w = SubSeq(s, j, e)
  BY Slice
<1>3. Len(w) = (e - j) + 1 /\ \A i \in 1..((e - j) + 1) : w[i] = s[(j + i) - 1]
  BY <1>2, Slice
<1>4. PICK m \in 1..(Len(s) + 1) : m = (j + a) - 1
  BY <1>1
<1>5. PICK n \in (m - 1)..Len(s) : n = (j + b) - 1
  BY <1>1, <1>4
<1>6. PICK v \in Seq(X) : v = SubSeq(s, m, n)
  BY Slice
<1>7. Len(v) = (n - m) + 1 /\ \A i \in 1..((n - m) + 1) : v[i] = s[(m + i) - 1]
  BY <1>6, Slice
<1>8. a \in 1..(Len(w) + 1) /\ b \in (a - 1)..Len(w)
  BY <1>1, <1>3
<1>9. PICK x \in Seq(X) : x = SubSeq(w, a, b)
  BY <1>8, Slice
<1>10. Len(x) = (b - a) + 1 /\ \A i \in 1..((b - a) + 1) : x[i] = w[(a + i) - 1]
  BY <1>8, <1>9, Slice
<1>11. Len(x) = Len(v)
  BY <1>1, <1>4, <1>5, <1>7, <1>10
<1>12. \A i \in 1..Len(x) : x[i] = v[i]
  <2> SUFFICES ASSUME NEW i \in 1..((b - a) + 1)
               PROVE  x[i] = v[i]
    BY <1>10
  <2>1. PICK k \in 1..((e - j) + 1) : k = (a + i) - 1
    BY <1>1
  <2>2. i \in 1..((n - m) + 1) /\ (j + k) - 1 = (m + i) - 1
    BY <1>1, <1>4, <1>5, <2>1
  <2>3. x[i] = w[k] /\ w[k] = s[(j + k) - 1] /\ v[i] = s[(m + i) - 1]
    BY <1>3, <1>7, <1>10, <2>1, <2>2
  <2> QED
    BY <2>2, <2>3
<1>13. x = v
  BY <1>11, <1>12, SeqEqual
<1> QED
  BY <1>2, <1>4, <1>5, <1>6, <1>9, <1>13

\* The turns of yuarel_split_path.
LEMMA PathTurns ==
  ASSUME NEW path, NEW max \in Nat
  PROVE  \E u :
               /\ u[0] = [path |-> {path}, parts |-> <<>>]
               /\ \A n \in 1..max : u[n] = Y!Part(u[n - 1])
               /\ Y!SplitPath(path, max) = u[max].parts
<1> DEFINE Step(n, p) == Y!Part(p)
           Start == [path |-> {path}, parts |-> <<>>]
           F(g, m) == [n \in 0..m |-> IF n = 0 THEN Start ELSE Step(n, g[n - 1])]
           Upto == {m \in 0..max : \E g : g = F(g, m)}
           G == CHOOSE g : g = F(g, max)
<1>1. Y!SplitPath(path, max) = G[max].parts
  BY Zenon DEF Y!SplitPath
<1> HIDE DEF Step, Start
<1>2. 0 \in Upto
  <2>1. F(<<>>, 0) = F(F(<<>>, 0), 0)
    OBVIOUS
  <2> HIDE DEF F
  <2> QED
    BY <2>1
<1>3. ASSUME NEW m \in 1..max, m - 1 \in Upto
      PROVE  m \in Upto
  <2>1. PICK g : g = F(g, m - 1)
    BY <1>3
  <2> DEFINE h == F(g, m)
  <2>2. \A n \in 1..m : h[n - 1] = g[n - 1]
    BY <2>1
  <2> HIDE DEF h
  <2>3. \A n \in 0..m : (IF n = 0 THEN Start ELSE Step(n, g[n - 1]))
                            = (IF n = 0 THEN Start ELSE Step(n, h[n - 1]))
    BY <2>2
  <2>4. F(g, m) = F(h, m)
    BY <2>3
  <2> HIDE DEF F, h
  <2> QED
    BY <2>4 DEF h
<1>4. max \in Upto
  <2> HIDE DEF Upto
  <2>1. \A m \in 1..max : m - 1 \in Upto => m \in Upto
    BY <1>3
  <2>2. \A m \in 0..max : m \in Upto
    BY <1>2, <2>1, UpTo
  <2> QED
    BY <2>2
<1>5. G = F(G, max)
  <2> HIDE DEF F
  <2> QED
    BY <1>4
<1>6. G[0] = Start /\ \A n \in 1..max : G[n] = Step(n, G[n - 1])
  <2> HIDE DEF G
  <2> QED
    BY <1>5
<1> HIDE DEF G
<1> QED
  BY <1>1, <1>6, Zenon DEF Start, Step

LEMMA StartsIn ==
  ASSUME NEW X, NEW s \in Seq(X)
  PROVE  /\ Starts(s) \in SUBSET (1..Len(s)) /\ Len(s) \in Nat
         /\ \A i \in 1..Len(s) : i \in Starts(s) <=> s[i] # "/" /\ (i = 1 \/ s[i - 1] = "/")
<1>1. DOMAIN s = 1..Len(s) /\ Len(s) \in Nat
  BY LenProperties
<1> QED
  BY <1>1 DEF Starts

\* Where nothing of a set stands, the count stays.
LEMMA CountSame ==
  ASSUME NEW N \in Nat, NEW S \in SUBSET (1..N), NEW a \in 0..N, NEW b \in 0..N, a <= b,
         \A i \in (a + 1)..b : i \notin S
  PROVE  CountTo(S, a) = CountTo(S, b)
<1>1. \A j \in S : j <= a <=> j <= b
  OBVIOUS
<1>2. {j \in S : j <= a} = {j \in S : j <= b}
  BY <1>1
<1> QED
  BY <1>2 DEF CountTo

LEMMA WordIs ==
  ASSUME NEW X, NEW s \in Seq(X), NEW j \in 1..Len(s), NEW e \in j..Len(s),
         \A i \in j..e : s[i] # "/", e = Len(s) \/ s[e + 1] = "/"
  PROVE  Word(s, j) = SubSeq(s, j, e)
<1> DEFINE End(f) == (\A i \in j..f : s[i] # "/") /\ (f = Len(s) \/ s[f + 1] = "/")
<1>1. Len(s) \in Nat
  BY LenProperties
<1>2. End(e)
  OBVIOUS
<1>3. ASSUME NEW f \in j..Len(s), End(f)
      PROVE  f = e
  <2>1. CASE f < e
    <3>1. f + 1 \in j..e /\ f # Len(s)
      BY <1>1, <2>1
    <3> QED
      BY <1>3, <3>1
  <2>2. CASE e < f
    <3>1. e + 1 \in j..f /\ e # Len(s)
      BY <1>1, <2>2
    <3> QED
      BY <1>3, <3>1
  <2> QED
    BY <1>1, <2>1, <2>2
<1> HIDE DEF End
<1>4. (CHOOSE f \in j..Len(s) : End(f)) = e
  BY <1>2, <1>3
<1> QED
  BY <1>4 DEF Word, End

\* What k turns of yuarel_split_path leave: the first k words, and what follows them.
PathAt(s, k, p) ==
  /\ p = [path |-> p.path, parts |-> p.parts]
  /\ p.parts = [n \in 1..(IF k < Cardinality(Starts(s)) THEN k ELSE Cardinality(Starts(s))) |->
                  Word(s, Nth(Starts(s), n))]
  /\ \/ p.path = {} /\ k >= Cardinality(Starts(s))
     \/ \E l \in 1..(Len(s) + 1) :
          /\ p.path = {SubSeq(s, l, Len(s))}
          /\ l = 1 \/ s[l - 1] = "/"
          /\ CountTo(Starts(s), l - 1) = k

\* The part that begins at j.
LEMMA PartAt ==
  ASSUME NEW X, "/" \in X, NEW s \in Seq(X), NEW j \in Starts(s), NEW k \in Nat,
         CountTo(Starts(s), j) = k + 1
  PROVE  LET c == Y!Cut(SubSeq(s, j, Len(s)), "/") IN
         /\ c.left = Word(s, j)
         /\ \/ c.rest = {} /\ Cardinality(Starts(s)) = k + 1
            \/ \E l \in 1..(Len(s) + 1) :
                 /\ c.rest = {SubSeq(s, l, Len(s))}
                 /\ s[l - 1] = "/"
                 /\ CountTo(Starts(s), l - 1) = k + 1
<1>1. PICK N \in Nat : N = Len(s)
  BY LenProperties
<1>2. /\ Starts(s) \in SUBSET (1..N) /\ j \in 1..N /\ s[j] # "/"
      /\ \A i \in 1..N : i \in Starts(s) => i = 1 \/ s[i - 1] = "/"
  BY <1>1, StartsIn
<1>3. PICK w \in Seq(X) : w = SubSeq(s, j, N)
  <2>1. j \in 1..(Len(s) + 1) /\ N \in (j - 1)..Len(s)
    BY <1>1, <1>2
  <2> QED
    BY <2>1, Slice
<1>4. Len(w) = (N - j) + 1 /\ \A i \in 1..((N - j) + 1) : w[i] = s[(j + i) - 1]
  <2>1. j \in 1..(Len(s) + 1) /\ N \in (j - 1)..Len(s)
    BY <1>1, <1>2
  <2> QED
    BY <1>3, <2>1, Slice
<1>5. PICK c : c = Y!Cut(w, "/")
  OBVIOUS
<1>6. \/ /\ \A i \in 1..Len(w) : w[i] # "/"
         /\ c = [left |-> w, rest |-> {}]
      \/ \E i \in 1..Len(w) :
           /\ w[i] = "/" /\ \A m \in 1..(i - 1) : w[m] # "/"
           /\ c = [left |-> SubSeq(w, 1, i - 1), rest |-> {SubSeq(w, i + 1, Len(w))}]
  <2>1. \/ /\ \A i \in 1..Len(w) : w[i] # "/"
           /\ Y!Cut(w, "/") = [left |-> w, rest |-> {}]
        \/ \E i \in 1..Len(w) :
             /\ w[i] = "/" /\ \A m \in 1..(i - 1) : w[m] # "/"
             /\ Y!Cut(w, "/") = [left |-> SubSeq(w, 1, i - 1), rest |-> {SubSeq(w, i + 1, Len(w))}]
    BY CutIs, SMTT(60)
  <2> QED
    BY <1>5, <2>1, Zenon
<1>7. ASSUME \A i \in 1..Len(w) : w[i] # "/", c = [left |-> w, rest |-> {}]
      PROVE  c.left = Word(s, j) /\ c.rest = {} /\ Cardinality(Starts(s)) = k + 1
  <2>1. \A i \in j..N : s[i] # "/"
    <3>1. \A i \in j..N : (i - j) + 1 \in 1..((N - j) + 1) /\ (j + ((i - j) + 1)) - 1 = i
      BY <1>2
    <3> QED
      BY <1>4, <1>7, <3>1
  <2>2. Word(s, j) = w
    <3>1. N \in j..Len(s)
      BY <1>1, <1>2
    <3> QED
      BY <1>1, <1>2, <1>3, <2>1, <3>1, WordIs
  <2>3. CountTo(Starts(s), N) = k + 1
    <3>1. \A i \in (j + 1)..N : i \notin Starts(s)
      <4>1. \A i \in (j + 1)..N : i \in 1..N /\ i # 1 /\ i - 1 \in j..N
        BY <1>2
      <4> QED
        BY <1>2, <2>1, <4>1
    <3>2. j \in 0..N /\ N \in 0..N /\ j <= N
      BY <1>2
    <3>3. CountTo(Starts(s), j) = CountTo(Starts(s), N)
      BY <1>2, <3>1, <3>2, CountSame
    <3> QED
      BY <3>3
  <2>4. CountTo(Starts(s), N) = Cardinality(Starts(s))
    <3>1. 0 \in 0..N
      OBVIOUS
    <3> QED
      BY <1>2, <3>1, CountFinite
  <2>5. c.left = w /\ c.rest = {}
    BY <1>7
  <2> QED
    BY <2>2, <2>3, <2>4, <2>5
<1>8. ASSUME NEW i \in 1..Len(w),
             w[i] = "/", \A m \in 1..(i - 1) : w[m] # "/",
             c = [left |-> SubSeq(w, 1, i - 1), rest |-> {SubSeq(w, i + 1, Len(w))}]
      PROVE  /\ c.left = Word(s, j)
             /\ \E l \in 1..(Len(s) + 1) :
                  /\ c.rest = {SubSeq(s, l, Len(s))}
                  /\ s[l - 1] = "/"
                  /\ CountTo(Starts(s), l - 1) = k + 1
  <2>1. i # 1
    <3>1. w[1] = s[j]
      <4>1. 1 \in 1..((N - j) + 1) /\ (j + 1) - 1 = j
        BY <1>2
      <4> QED
        BY <1>4, <4>1
    <3> QED
      BY <1>2, <1>8, <3>1
  <2>2. PICK e \in j..N : e = (j + i) - 2 /\ e + 1 \in j..N /\ e + 1 = (j + i) - 1
    BY <1>2, <1>4, <2>1
  <2>3. s[e + 1] = "/" /\ \A n \in j..e : s[n] # "/"
    <3>1. s[e + 1] = w[i]
      BY <1>4, <2>2
    <3>2. \A n \in j..e : /\ (n - j) + 1 \in 1..(i - 1) /\ (n - j) + 1 \in 1..((N - j) + 1)
                          /\ (j + ((n - j) + 1)) - 1 = n
      BY <1>2, <1>4, <2>2
    <3> QED
      BY <1>4, <1>8, <3>1, <3>2
  <2>4. SubSeq(w, 1, i - 1) = SubSeq(s, j, e)
    <3>1. SubSeq(SubSeq(s, j, N), 1, i - 1) = SubSeq(s, (j + 1) - 1, (j + (i - 1)) - 1)
      <4>1. PICK b \in Nat : b = i - 1 /\ b \in (1 - 1)..((N - j) + 1)
        BY <1>2, <1>4
      <4>2. /\ j \in 1..(Len(s) + 1) /\ N \in (j - 1)..Len(s)
            /\ 1 \in 1..((N - j) + 2)
        BY <1>1, <1>2
      <4>3. SubSeq(SubSeq(s, j, N), 1, b) = SubSeq(s, (j + 1) - 1, (j + b) - 1)
        BY <4>1, <4>2, SliceOfSlice
      <4> QED
        BY <4>1, <4>3
    <3>2. (j + 1) - 1 = j /\ (j + (i - 1)) - 1 = e
      BY <1>2, <2>2
    <3> QED
      BY <1>3, <3>1, <3>2
  <2>5. Word(s, j) = SubSeq(s, j, e)
    <3>1. e \in j..Len(s)
      BY <1>1, <2>2
    <3> QED
      BY <1>1, <1>2, <2>3, <3>1, WordIs
  <2>6. SubSeq(w, i + 1, Len(w)) = SubSeq(s, e + 2, N)
    <3>1. PICK a \in Nat : a = i + 1 /\ a \in 1..((N - j) + 2)
      BY <1>2, <1>4
    <3>2. SubSeq(SubSeq(s, j, N), a, (N - j) + 1) = SubSeq(s, (j + a) - 1, N)
      <4>1. /\ j \in 1..(Len(s) + 1) /\ N \in (j - 1)..Len(s) /\ (j + ((N - j) + 1)) - 1 = N
        BY <1>1, <1>2
      <4>2. PICK b \in (a - 1)..((N - j) + 1) : b = (N - j) + 1
        BY <1>2, <3>1
      <4>3. SubSeq(SubSeq(s, j, N), a, b) = SubSeq(s, (j + a) - 1, (j + b) - 1)
        BY <3>1, <4>1, <4>2, SliceOfSlice
      <4> QED
        BY <4>1, <4>2, <4>3
    <3>3. (j + a) - 1 = e + 2
      BY <1>2, <2>2, <3>1
    <3> QED
      BY <1>3, <1>4, <3>1, <3>2, <3>3
  <2>7. CountTo(Starts(s), e + 1) = k + 1
    <3>1. \A n \in (j + 1)..(e + 1) : n \notin Starts(s)
      <4>1. \A n \in (j + 1)..(e + 1) : n \in 1..N /\ n # 1 /\ n - 1 \in j..e
        BY <1>2, <2>2
      <4> QED
        BY <1>2, <2>3, <4>1
    <3>2. PICK f \in 0..N : f = e + 1
      BY <1>2, <2>2
    <3>3. j \in 0..N /\ j <= f
      BY <1>2, <2>2, <3>2
    <3>4. CountTo(Starts(s), j) = CountTo(Starts(s), f)
      BY <1>2, <3>1, <3>2, <3>3, CountSame
    <3> QED
      BY <3>2, <3>4
  <2>8. PICK l \in 1..(N + 1) : l = e + 2 /\ l - 1 = e + 1
    BY <1>2, <2>2
  <2>9. c.left = SubSeq(w, 1, i - 1) /\ c.rest = {SubSeq(w, i + 1, Len(w))}
    BY <1>8
  <2>10. /\ c.rest = {SubSeq(s, l, Len(s))} /\ s[l - 1] = "/"
         /\ CountTo(Starts(s), l - 1) = k + 1
    BY <1>1, <2>3, <2>6, <2>7, <2>8, <2>9
  <2> QED
    BY <1>1, <2>4, <2>5, <2>9, <2>10
<1>9. /\ c.left = Word(s, j)
      /\ \/ c.rest = {} /\ Cardinality(Starts(s)) = k + 1
         \/ \E l \in 1..(Len(s) + 1) :
              /\ c.rest = {SubSeq(s, l, Len(s))}
              /\ s[l - 1] = "/"
              /\ CountTo(Starts(s), l - 1) = k + 1
  <2>1. CASE \E i \in 1..Len(w) :
           /\ w[i] = "/" /\ \A m \in 1..(i - 1) : w[m] # "/"
           /\ c = [left |-> SubSeq(w, 1, i - 1), rest |-> {SubSeq(w, i + 1, Len(w))}]
    BY <1>8, <2>1
  <2>2. CASE (\A i \in 1..Len(w) : w[i] # "/") /\ c = [left |-> w, rest |-> {}]
    BY <1>7, <2>2
  <2> QED
    BY <1>6, <2>1, <2>2
<1> QED
  BY <1>1, <1>3, <1>5, <1>9, Zenon

\* A sequence of k + 1 things is one of k with one more.
LEMMA MoreOfThem ==
  ASSUME NEW k \in Nat, NEW F(_)
  PROVE  Append([n \in 1..k |-> F(n)], F(k + 1)) = [n \in 1..(k + 1) |-> F(n)]
OBVIOUS

LEMMA PartStep ==
  ASSUME NEW X, "/" \in X, NEW s \in Seq(X), NEW k \in Nat, NEW p, PathAt(s, k, p)
  PROVE  PathAt(s, k + 1, Y!Part(p))
<1> DEFINE S == Starts(s)
           q == Y!Part(p)
           count == Cardinality(S)
           Words(n) == [i \in 1..(IF n < count THEN n ELSE count) |-> Word(s, Nth(S, i))]
<1> HIDE DEF q
<1>0. PICK N \in Nat : N = Len(s)
  BY LenProperties
<1>1. S \in SUBSET (1..N) /\ \A i \in 1..N : i \in S <=> s[i] # "/" /\ (i = 1 \/ s[i - 1] = "/")
  BY <1>0, StartsIn
<1>2. count \in Nat /\ CountTo(S, N) = count
  <2>1. 0 \in 0..N
    OBVIOUS
  <2> QED
    BY <1>1, <2>1, CountFinite
<1>3. CASE p.path = {} /\ k >= count
  <2>1. q = [p EXCEPT !.path = {}]
    BY <1>3 DEF q, Y!Part, Y!Null
  <2>2. q.path = {} /\ q.parts = p.parts /\ q = [path |-> q.path, parts |-> q.parts]
    BY <2>1 DEF PathAt
  <2>3. Words(k + 1) = Words(k)
    BY <1>2, <1>3
  <2>4. k + 1 >= count
    BY <1>2, <1>3
  <2> QED
    BY <2>2, <2>3, <2>4 DEF PathAt, q
<1>4. ASSUME NEW l \in 1..(Len(s) + 1),
             p.path = {SubSeq(s, l, Len(s))}, l = 1 \/ s[l - 1] = "/",
             CountTo(S, l - 1) = k
      PROVE  PathAt(s, k + 1, q)
  <2>0. l \in 1..(N + 1) /\ N \in (l - 1)..N /\ l - 1 \in 0..N
    BY <1>0
  <2>1. PICK w \in Seq(X) : w = SubSeq(s, l, N)
    BY <1>0, <2>0, Slice
  <2>2. Len(w) = (N - l) + 1 /\ \A i \in 1..((N - l) + 1) : w[i] = s[(l + i) - 1]
    BY <1>0, <2>0, <2>1, Slice
  <2>3. DOMAIN w = 1..((N - l) + 1)
    BY <2>2, LenProperties
  <2>4. Y!The(p.path) = w /\ p.path # {}
    BY <1>0, <1>4, <2>1 DEF Y!The
  <2> DEFINE First == {i \in DOMAIN w : w[i] # "/" /\ \A j \in 1..(i - 1) : w[j] = "/"}
  <2>5. p.parts = Words(k) /\ p = [path |-> p.path, parts |-> p.parts]
    BY DEF PathAt
  <2>6. CASE First = {}
    <3>1. q = [p EXCEPT !.path = {}]
      BY <2>4, <2>6, Zenon DEF q, Y!Part, Y!Null
    <3>2. q.path = {} /\ q.parts = p.parts /\ q = [path |-> q.path, parts |-> q.parts]
      BY <2>5, <3>1
    <3>3. \A i \in 1..((N - l) + 1) : w[i] = "/"
      <4> DEFINE Other == {i \in 1..((N - l) + 1) : w[i] # "/"}
      <4>1. SUFFICES ASSUME Other # {} PROVE FALSE
        OBVIOUS
      <4>2. PICK m \in Other : \A i \in Other : m <= i
        <5>1. Other \in SUBSET Nat
          OBVIOUS
        <5> HIDE DEF Other
        <5> QED
          BY <4>1, <5>1, LeastOf
      <4>3. \A j \in 1..(m - 1) : j \in 1..((N - l) + 1) /\ ~(m <= j)
        BY <2>0
      <4>4. m \in First
        BY <2>3, <4>2, <4>3
      <4> QED
        BY <2>6, <4>4
    <3>4. \A i \in ((l - 1) + 1)..N : i \notin S
      <4> SUFFICES ASSUME NEW i \in ((l - 1) + 1)..N
                   PROVE  i \notin S
        OBVIOUS
      <4>1. PICK n \in 1..((N - l) + 1) : n = (i - l) + 1 /\ (l + n) - 1 = i /\ i \in 1..N
        BY <2>0
      <4>2. s[i] = "/"
        BY <2>2, <3>3, <4>1
      <4> QED
        BY <1>1, <4>1, <4>2
    <3>5. CountTo(S, l - 1) = CountTo(S, N)
      <4>1. PICK a \in 0..N : a = l - 1 /\ a <= N /\ N \in 0..N
        BY <2>0
      <4> QED
        BY <1>1, <3>4, <4>1, CountSame
    <3>6. k = count
      BY <1>2, <1>4, <3>5
    <3>7. Words(k + 1) = Words(k) /\ k + 1 >= count
      BY <3>6
    <3> QED
      BY <2>5, <3>2, <3>7 DEF PathAt
  <2>7. CASE First # {}
    <3>1. PICK i : i \in First /\ i = Y!The(First)
      BY <2>7 DEF Y!The
    <3>2. i \in 1..((N - l) + 1) /\ w[i] # "/" /\ \A j \in 1..(i - 1) : w[j] = "/"
      BY <2>3, <3>1
    <3>3. PICK j \in 1..N : j = (l + i) - 1
      BY <2>0, <3>2
    <3>4. j \in S
      <4>1. s[j] # "/"
        BY <2>2, <3>2, <3>3
      <4>2. CASE i = 1
        BY <1>1, <1>4, <2>0, <3>3, <4>1, <4>2
      <4>3. CASE i # 1
        <5>1. PICK m \in 1..(i - 1) : m = i - 1 /\ m \in 1..((N - l) + 1) /\ (l + m) - 1 = j - 1
          BY <2>0, <3>2, <3>3, <4>3
        <5>2. s[j - 1] = "/"
          BY <2>2, <3>2, <5>1
        <5> QED
          BY <1>1, <4>1, <5>2
      <4> QED
        BY <4>2, <4>3
    <3>5. CountTo(S, j) = k + 1
      <4>1. PICK b \in 0..N : b = j - 1
        BY <3>3
      <4>2. PICK a \in 0..N : a = l - 1 /\ a <= b
        BY <2>0, <3>2, <3>3, <4>1
      <4>3. \A m \in (a + 1)..b : m \notin S
        <5> SUFFICES ASSUME NEW m \in (a + 1)..b
                     PROVE  m \notin S
          OBVIOUS
        <5>1. PICK n \in 1..(i - 1) : n = (m - l) + 1
          BY <2>0, <3>2, <3>3, <4>1, <4>2
        <5>2. n \in 1..((N - l) + 1) /\ (l + n) - 1 = m /\ m \in 1..N
          BY <2>0, <3>2, <3>3, <4>1, <4>2, <5>1
        <5>3. s[m] = "/"
          BY <2>2, <3>2, <5>1, <5>2
        <5> QED
          BY <1>1, <5>2, <5>3
      <4>4. CountTo(S, a) = CountTo(S, b)
        BY <1>1, <4>2, <4>3, CountSame, SMTT(60)
      <4>5. CountTo(S, j) = CountTo(S, j - 1) + 1
        BY <1>1, <3>4, CountStep
      <4> QED
        BY <1>4, <4>1, <4>2, <4>4, <4>5
    <3>6. Nth(S, k + 1) = j /\ k + 1 \in 1..count
      BY <1>1, <3>4, <3>5, NthIs
    <3>7. Y!From(w, i) = SubSeq(s, j, N)
      <4>1. PICK e \in (i - 1)..((N - l) + 1) : e = (N - l) + 1
        BY <2>0, <3>2
      <4>2. SubSeq(SubSeq(s, l, N), i, e) = SubSeq(s, (l + i) - 1, (l + e) - 1)
        <5>1. i \in 1..((N - l) + 2) /\ l \in 1..(Len(s) + 1) /\ N \in (l - 1)..Len(s)
          BY <1>0, <2>0, <3>2
        <5> QED
          BY <5>1, SliceOfSlice
      <4>3. (l + e) - 1 = N
        BY <2>0, <4>1
      <4> QED
        BY <2>1, <2>2, <3>3, <4>1, <4>2, <4>3 DEF Y!From
    <3>8. PICK c : c = Y!Cut(SubSeq(s, j, N), "/")
      OBVIOUS
    <3>9. q = [path |-> c.rest, parts |-> Append(p.parts, c.left)]
      <4>1. q = IF p.path = {} \/ First = {} THEN [p EXCEPT !.path = {}]
                ELSE [path |-> Y!Cut(Y!From(w, Y!The(First)), "/").rest,
                      parts |-> Append(p.parts, Y!Cut(Y!From(w, Y!The(First)), "/").left)]
        BY <2>4, Zenon DEF q, Y!Part, Y!Null
      <4>2. Y!Cut(Y!From(w, Y!The(First)), "/") = c
        BY <3>1, <3>7, <3>8, Zenon
      <4> QED
        BY <2>4, <2>7, <4>1, <4>2, Zenon
    <3>10. /\ c.left = Word(s, j)
           /\ \/ c.rest = {} /\ count = k + 1
              \/ \E m \in 1..(Len(s) + 1) :
                   /\ c.rest = {SubSeq(s, m, Len(s))}
                   /\ s[m - 1] = "/"
                   /\ CountTo(S, m - 1) = k + 1
      <4>1. LET d == Y!Cut(SubSeq(s, j, Len(s)), "/") IN
            /\ d.left = Word(s, j)
            /\ \/ d.rest = {} /\ Cardinality(Starts(s)) = k + 1
               \/ \E m \in 1..(Len(s) + 1) :
                    /\ d.rest = {SubSeq(s, m, Len(s))}
                    /\ s[m - 1] = "/"
                    /\ CountTo(Starts(s), m - 1) = k + 1
        BY <3>4, <3>5, PartAt
      <4> QED
        BY <1>0, <3>8, <4>1, Zenon
    <3>11. q.path = c.rest /\ q.parts = Append(p.parts, c.left)
           /\ q = [path |-> q.path, parts |-> q.parts]
      BY <3>9
    <3>12. q.parts = Words(k + 1)
      <4>1. k \in 0..count /\ k + 1 <= count
        BY <1>2, <3>6
      <4>2. Words(k) = [n \in 1..k |-> Word(s, Nth(S, n))]
        BY <1>2, <4>1
      <4>3. Words(k + 1) = [n \in 1..(k + 1) |-> Word(s, Nth(S, n))]
        <5>1. (IF k + 1 < count THEN k + 1 ELSE count) = k + 1
          BY <1>2, <4>1
        <5> QED
          BY <5>1, Zenon
      <4>4. Append([n \in 1..k |-> Word(s, Nth(S, n))], Word(s, Nth(S, k + 1)))
              = [n \in 1..(k + 1) |-> Word(s, Nth(S, n))]
        BY MoreOfThem
      <4> QED
        BY <2>5, <3>6, <3>10, <3>11, <4>2, <4>3, <4>4
    <3>13. k + 1 >= k + 1
      OBVIOUS
    <3> HIDE DEF S, Words
    <3>14. CASE c.rest = {} /\ count = k + 1
      BY <3>11, <3>12, <3>13, <3>14, Zenon DEF PathAt, S, Words
    <3>15. CASE \E m \in 1..(Len(s) + 1) :
                   /\ c.rest = {SubSeq(s, m, Len(s))}
                   /\ s[m - 1] = "/"
                   /\ CountTo(S, m - 1) = k + 1
      BY <3>11, <3>12, <3>15, Zenon DEF PathAt, S, Words
    <3> QED
      BY <3>10, <3>14, <3>15
  <2> QED
    BY <2>6, <2>7
<1> QED
  BY <1>3, <1>4, Zenon DEF PathAt, q

\* yuarel_split_path gives the first words of a path.
LEMMA SplitIs ==
  ASSUME NEW X, "/" \in X, NEW s \in Seq(X), NEW max \in Nat
  PROVE  /\ Cardinality(Starts(s)) \in Nat
         /\ Y!SplitPath(s, max) =
              [n \in 1..(IF Cardinality(Starts(s)) < max THEN Cardinality(Starts(s)) ELSE max) |->
                 Word(s, Nth(Starts(s), n))]
<1>1. PICK N \in Nat : N = Len(s)
  BY LenProperties
<1>2. Cardinality(Starts(s)) \in Nat /\ CountTo(Starts(s), 0) = 0
  <2>1. 0 \in 0..N /\ Starts(s) \in SUBSET (1..N)
    BY <1>1, StartsIn
  <2> QED
    BY <2>1, CountFinite
<1>3. PICK u :
         /\ u[0] = [path |-> {s}, parts |-> <<>>]
         /\ \A n \in 1..max : u[n] = Y!Part(u[n - 1])
         /\ Y!SplitPath(s, max) = u[max].parts
  BY PathTurns
<1> DEFINE Fine == {n \in 0..max : PathAt(s, n, u[n])}
<1>4. 0 \in Fine
  <2>1. s = SubSeq(s, 1, Len(s))
    BY SubSeqFull
  <2>2. u[0].path = {s} /\ u[0].parts = <<>> /\ u[0] = [path |-> u[0].path, parts |-> u[0].parts]
    BY <1>3
  <2>3. (IF 0 < Cardinality(Starts(s)) THEN 0 ELSE Cardinality(Starts(s))) = 0
    BY <1>2
  <2>4. [n \in 1..0 |-> Word(s, Nth(Starts(s), n))] = <<>>
    OBVIOUS
  <2>5. 1 \in 1..(Len(s) + 1) /\ 1 - 1 = 0
    BY <1>1
  <2>6. PathAt(s, 0, u[0])
    BY <1>2, <2>1, <2>2, <2>3, <2>4, <2>5, Zenon DEF PathAt
  <2> QED
    BY <2>6
<1>5. \A n \in 1..max : n - 1 \in Fine => n \in Fine
  <2> SUFFICES ASSUME NEW n \in 1..max, n - 1 \in Fine
               PROVE  n \in Fine
    OBVIOUS
  <2>1. PICK k \in Nat : k = n - 1 /\ k + 1 = n
    OBVIOUS
  <2>2. PathAt(s, k, u[k])
    BY <2>1
  <2>3. PathAt(s, k + 1, Y!Part(u[k]))
    BY <2>2, PartStep
  <2>4. u[n] = Y!Part(u[k])
    BY <1>3, <2>1
  <2> QED
    BY <2>1, <2>3, <2>4
<1>6. PathAt(s, max, u[max])
  <2>1. \A n \in 0..max : n \in Fine
    <3> HIDE DEF Fine
    <3> QED
      BY <1>4, <1>5, UpTo
  <2> QED
    BY <2>1
<1>7. u[max].parts =
        [n \in 1..(IF max < Cardinality(Starts(s)) THEN max ELSE Cardinality(Starts(s))) |->
           Word(s, Nth(Starts(s), n))]
  BY <1>6, Zenon DEF PathAt
<1>8. (IF max < Cardinality(Starts(s)) THEN max ELSE Cardinality(Starts(s)))
        = (IF Cardinality(Starts(s)) < max THEN Cardinality(Starts(s)) ELSE max)
  BY <1>2
<1> QED
  BY <1>2, <1>3, <1>7, <1>8, Zenon

LEMMA UrlPath ==
  ASSUME NEW X, {":", "@", "/", "?", "#"} \subseteq X, NEW s \in Seq(X), MaxParts \in Nat
  PROVE  LET path == Around(<<>>, Y!Parse(s).url.path, <<>>)
             count == Cardinality(Starts(path))
         IN  Y!Path(s) = [n \in 1..(IF count < MaxParts THEN count ELSE MaxParts) |->
                            Word(path, Nth(Starts(path), n))]
<1> DEFINE Want(path) ==
             [n \in 1..(IF Cardinality(Starts(path)) < MaxParts
                        THEN Cardinality(Starts(path)) ELSE MaxParts) |->
                Word(path, Nth(Starts(path), n))]
<1>1. PICK pointer \in Pointers(X) : pointer = Y!Parse(s).url.path
  BY ParseKeeps
<1>2. CASE pointer = {}
  <2>1. Around(<<>>, pointer, <<>>) = <<>>
    BY <1>2 DEF Around
  <2>2. Starts(<<>>) = {}
    BY DEF Starts
  <2>3. Want(<<>>) = <<>>
    <3>1. Cardinality({}) = 0
      BY FS_EmptySet
    <3>2. (IF Cardinality(Starts(<<>>)) < MaxParts
            THEN Cardinality(Starts(<<>>)) ELSE MaxParts) = 0
      <4>1. Cardinality(Starts(<<>>)) = 0
        BY <2>2, <3>1, Zenon
      <4>2. \A c : c = 0 => (IF c < MaxParts THEN c ELSE MaxParts) = 0
        OBVIOUS
      <4> QED
        BY <4>1, <4>2, Zenon
    <3>3. \A n \in 1..0 : FALSE
      OBVIOUS
    <3>4. [n \in 1..0 |-> Word(<<>>, Nth(Starts(<<>>), n))] = <<>>
      BY <3>3
    <3> QED
      BY <3>2, <3>4, Zenon
  <2>4. Y!Path(s) = <<>>
    BY <1>1, <1>2, Zenon DEF Y!Path, Y!Null
  <2> HIDE DEF Want
  <2>5. Y!Path(s) = Want(Around(<<>>, Y!Parse(s).url.path, <<>>))
    BY <1>1, <2>1, <2>3, <2>4, Zenon
  <2> QED
    BY <2>5, Zenon DEF Want
<1>3. CASE pointer # {}
  <2>1. PICK t \in Seq(X) : pointer = {t}
    BY <1>1, <1>3 DEF Pointers
  <2>2. Around(<<>>, pointer, <<>>) = t
    <3>1. Around(<<>>, pointer, <<>>) = (<<>> \o t) \o <<>>
      BY <2>1 DEF Around
    <3>2. \A w \in Seq(X) : <<>> \o w = w /\ w \o <<>> = w
      BY ConcatEmptySeq
    <3> QED
      BY <3>1, <3>2, Zenon
  <2>3. Y!The(pointer) = t
    BY <2>1 DEF Y!The
  <2>4. Y!Path(s) = Y!SplitPath(t, MaxParts)
    BY <1>1, <1>3, <2>3, Zenon DEF Y!Path, Y!Null
  <2>5. Y!SplitPath(t, MaxParts) = Want(t)
    BY SplitIs
  <2> HIDE DEF Want
  <2>6. Y!Path(s) = Want(Around(<<>>, Y!Parse(s).url.path, <<>>))
    BY <1>1, <2>2, <2>4, <2>5, Zenon
  <2> QED
    BY <2>6, Zenon DEF Want
<1> QED
  BY <1>2, <1>3

\* The pieces of s between separators.
LEMMA PieceAt ==
  ASSUME NEW X, NEW s \in Seq(X), NEW ch
  PROVE  LET E == PieceEnds(s, ch) IN
         /\ E \in SUBSET (1..(Len(s) + 1)) /\ Cardinality(E) \in Nat \ {0}
         /\ \A m \in 1..Cardinality(E) :
              /\ PieceStart(s, ch, m) \in 1..(Len(s) + 1)
              /\ Nth(E, m) \in PieceStart(s, ch, m)..(Len(s) + 1)
              /\ \A i \in PieceStart(s, ch, m)..(Nth(E, m) - 1) : i \in 1..Len(s) /\ s[i] # ch
              /\ m = Cardinality(E) <=> Nth(E, m) = Len(s) + 1
              /\ m # Cardinality(E) => s[Nth(E, m)] = ch /\ PieceStart(s, ch, m + 1) = Nth(E, m) + 1
<1> DEFINE E == PieceEnds(s, ch)
           count == Cardinality(E)
<1>1. PICK N \in Nat : N = Len(s) + 1 /\ N - 1 = Len(s) /\ N >= 1 /\ N \in 1..N /\ 0 \in 0..N
  BY LenProperties
<1>2. E \in SUBSET (1..N) /\ N \in E /\ \A i \in 1..N : i \in E <=> i = N \/ s[i] = ch
  <2>1. DOMAIN s = 1..(N - 1)
    BY <1>1, LenProperties
  <2>2. E = {i \in 1..(N - 1) : s[i] = ch} \cup {N}
    BY <1>1, <2>1 DEF PieceEnds
  <2> QED
    BY <1>1, <2>2
<1> HIDE DEF E
<1>3. count \in Nat /\ CountTo(E, 0) = 0 /\ CountTo(E, N) = count
  BY <1>1, <1>2, CountFinite
<1>4. count \in 1..count /\ Nth(E, count) = N
  BY <1>2, <1>3, NthIs
<1>5. ASSUME NEW m \in 1..count
      PROVE  /\ PieceStart(s, ch, m) \in 1..(Len(s) + 1)
             /\ Nth(E, m) \in PieceStart(s, ch, m)..(Len(s) + 1)
             /\ \A i \in PieceStart(s, ch, m)..(Nth(E, m) - 1) : i \in 1..Len(s) /\ s[i] # ch
             /\ m = count <=> Nth(E, m) = Len(s) + 1
             /\ m # count => s[Nth(E, m)] = ch /\ PieceStart(s, ch, m + 1) = Nth(E, m) + 1
  <2>1. PICK e \in E : e = Nth(E, m) /\ CountTo(E, e) = m
    BY <1>2, NthCovers
  <2>2. e \in 1..N
    BY <1>2
  <2>3. m = count <=> e = N
    <3>1. CASE m = count
      BY <1>4, <2>1, <3>1
    <3>2. CASE m # count
      <4>1. m < count
        BY <1>3, <3>2
      <4>2. Nth(E, m) < Nth(E, count)
        BY <1>2, <1>4, <4>1, NthOrder
      <4> QED
        BY <1>4, <2>1, <2>2, <3>2, <4>2
    <3> QED
      BY <3>1, <3>2
  <2>4. m # count => s[e] = ch
    BY <1>2, <2>2, <2>3
  <2>5. m # count => PieceStart(s, ch, m + 1) = e + 1
    <3>1. m + 1 # 1 /\ (m + 1) - 1 = m
      OBVIOUS
    <3> QED
      BY <2>1, <3>1, Zenon DEF PieceStart, E
  <2>6. PICK a \in 0..N : a + 1 = PieceStart(s, ch, m) /\ a < e /\ CountTo(E, a) = m - 1
    <3>1. CASE m = 1
      <4>1. PieceStart(s, ch, m) = 1
        BY <3>1, Zenon DEF PieceStart
      <4> QED
        BY <1>1, <1>3, <2>2, <3>1, <4>1
    <3>2. CASE m # 1
      <4>1. PICK k \in 1..count : k = m - 1 /\ k < m
        BY <1>3, <3>2
      <4>2. PICK a \in E : a = Nth(E, k) /\ CountTo(E, a) = k
        BY <1>2, NthCovers
      <4>3. Nth(E, k) < Nth(E, m)
        BY <1>2, <4>1, NthOrder
      <4>4. PieceStart(s, ch, m) = a + 1
        BY <3>2, <4>1, <4>2, Zenon DEF PieceStart, E
      <4>5. a \in 0..N
        BY <1>2
      <4> QED
        BY <2>1, <4>1, <4>2, <4>3, <4>4, <4>5
    <3> QED
      BY <3>1, <3>2
  <2>7. \A i \in (a + 1)..(e - 1) : i \in 1..(N - 1) /\ s[i] # ch
    <3> SUFFICES ASSUME NEW i \in (a + 1)..(e - 1)
                 PROVE  i \in 1..(N - 1) /\ s[i] # ch
      OBVIOUS
    <3>1. i \in 1..(N - 1) /\ i \in 1..N /\ a \in 0..N /\ i \in 0..N /\ e \in 0..N /\ a < i /\ i < e
      BY <2>2, <2>6
    <3>2. i \notin E
      <4> SUFFICES ASSUME i \in E
                   PROVE  FALSE
        OBVIOUS
      <4>1. CountTo(E, a) < CountTo(E, i)
        BY <1>2, <3>1, CountGrows
      <4>2. CountTo(E, i) < CountTo(E, e)
        BY <1>2, <3>1, CountGrows
      <4>3. CountTo(E, i) \in Nat
        BY <1>2, <3>1, CountFinite
      <4> QED
        BY <2>1, <2>6, <4>1, <4>2, <4>3
    <3> QED
      BY <1>2, <3>1, <3>2
  <2>8. PieceStart(s, ch, m) \in 1..N /\ e \in PieceStart(s, ch, m)..N
    BY <2>2, <2>6
  <2> HIDE DEF count
  <2> QED
    BY <1>1, <2>1, <2>3, <2>4, <2>5, <2>6, <2>7, <2>8
<1> QED
  BY <1>1, <1>2, <1>3, <1>4, <1>5 DEF E

\* Cutting what is left of s from a piece on gives that piece, and what is left
\* from the next one on.
LEMMA PieceCut ==
  ASSUME NEW X, NEW s \in Seq(X), NEW ch, NEW m \in 1..Cardinality(PieceEnds(s, ch))
  PROVE  LET c == Y!Cut(SubSeq(s, PieceStart(s, ch, m), Len(s)), ch) IN
         /\ c.left = Piece(s, ch, m)
         /\ c.rest = IF m = Cardinality(PieceEnds(s, ch)) THEN {}
                     ELSE {SubSeq(s, Nth(PieceEnds(s, ch), m) + 1, Len(s))}
<1>1. PICK N \in Nat : N = Len(s)
  BY LenProperties
<1>2. PICK a, e, last :
         /\ a \in 1..(N + 1) /\ e \in a..(N + 1) /\ last \in BOOLEAN
         /\ a = PieceStart(s, ch, m) /\ e = Nth(PieceEnds(s, ch), m)
         /\ last <=> m = Cardinality(PieceEnds(s, ch))
         /\ \A i \in a..(e - 1) : s[i] # ch
         /\ last <=> e = N + 1
         /\ ~last => s[e] = ch
  <2>1. /\ PieceStart(s, ch, m) \in 1..(Len(s) + 1)
        /\ Nth(PieceEnds(s, ch), m) \in PieceStart(s, ch, m)..(Len(s) + 1)
        /\ \A i \in PieceStart(s, ch, m)..(Nth(PieceEnds(s, ch), m) - 1) : s[i] # ch
        /\ m = Cardinality(PieceEnds(s, ch)) <=> Nth(PieceEnds(s, ch), m) = Len(s) + 1
        /\ m # Cardinality(PieceEnds(s, ch)) => s[Nth(PieceEnds(s, ch), m)] = ch
    BY PieceAt
  <2>2. PICK a, e : a = PieceStart(s, ch, m) /\ e = Nth(PieceEnds(s, ch), m)
    OBVIOUS
  <2>3. PICK last \in BOOLEAN : last <=> m = Cardinality(PieceEnds(s, ch))
    OBVIOUS
  <2> WITNESS a, e, last
  <2> QED
    BY <1>1, <2>1, <2>2, <2>3, Zenon
<1>0. a \in 1..(N + 1) /\ e \in a..(N + 1)
  BY <1>2
<1>3. PICK w \in Seq(X) : w = SubSeq(s, a, N)
  <2>1. a \in 1..(Len(s) + 1) /\ N \in (a - 1)..Len(s)
    BY <1>0, <1>1
  <2> QED
    BY <2>1, Slice
<1>4. Len(w) = (N - a) + 1 /\ \A i \in 1..((N - a) + 1) : w[i] = s[(a + i) - 1]
  <2>1. a \in 1..(Len(s) + 1) /\ N \in (a - 1)..Len(s)
    BY <1>0, <1>1
  <2> QED
    BY <1>3, <2>1, Slice
<1>5. \A i \in 1..(e - a) : w[i] # ch
  <2> SUFFICES ASSUME NEW i \in 1..(e - a)
               PROVE  w[i] # ch
    OBVIOUS
  <2>1. PICK n \in a..(e - 1) : n = (a + i) - 1 /\ i \in 1..((N - a) + 1)
    BY <1>0
  <2> QED
    BY <1>2, <1>4, <2>1
<1>6. ~last => (e - a) + 1 \in 1..Len(w) /\ w[(e - a) + 1] = ch
  <2> SUFFICES ASSUME ~last
               PROVE  (e - a) + 1 \in 1..Len(w) /\ w[(e - a) + 1] = ch
    OBVIOUS
  <2>0. e # N + 1 /\ s[e] = ch
    BY <1>2, Zenon
  <2>1. PICK i \in 1..((N - a) + 1) : i = (e - a) + 1 /\ (a + i) - 1 = e
    BY <1>0, <2>0
  <2> QED
    BY <1>4, <2>0, <2>1
<1>7. PICK c : c = Y!Cut(w, ch)
  OBVIOUS
<1>8. \/ /\ \A i \in 1..Len(w) : w[i] # ch
         /\ c = [left |-> w, rest |-> {}]
      \/ \E i \in 1..Len(w) :
           /\ w[i] = ch /\ \A n \in 1..(i - 1) : w[n] # ch
           /\ c = [left |-> SubSeq(w, 1, i - 1), rest |-> {SubSeq(w, i + 1, Len(w))}]
  <2>1. \/ /\ \A i \in 1..Len(w) : w[i] # ch
           /\ Y!Cut(w, ch) = [left |-> w, rest |-> {}]
        \/ \E i \in 1..Len(w) :
             /\ w[i] = ch /\ \A n \in 1..(i - 1) : w[n] # ch
             /\ Y!Cut(w, ch) = [left |-> SubSeq(w, 1, i - 1), rest |-> {SubSeq(w, i + 1, Len(w))}]
    BY CutIs
  <2> QED
    BY <1>7, <2>1, Zenon
<1>9. Piece(s, ch, m) = SubSeq(s, a, e - 1)
  BY <1>2, Zenon DEF Piece
<1>10. CASE last
  <2>1. e - 1 = N /\ Len(w) = e - a
    BY <1>0, <1>2, <1>4, <1>10
  <2>2. c = [left |-> w, rest |-> {}]
    BY <1>5, <1>8, <2>1
  <2>3. c.left = SubSeq(s, a, e - 1) /\ c.rest = {}
    BY <1>3, <2>1, <2>2
  <2> QED
    BY <1>1, <1>2, <1>3, <1>7, <1>9, <1>10, <2>3, Zenon
<1>11. CASE ~last
  <2>1. PICK f \in 1..Len(w) : f = (e - a) + 1 /\ w[f] = ch /\ \A n \in 1..(f - 1) : w[n] # ch
    BY <1>0, <1>5, <1>6, <1>11
  <2>2. c.left = SubSeq(w, 1, f - 1) /\ c.rest = {SubSeq(w, f + 1, Len(w))}
    <3>1. PICK i \in 1..Len(w) :
            /\ w[i] = ch /\ \A n \in 1..(i - 1) : w[n] # ch
            /\ c = [left |-> SubSeq(w, 1, i - 1), rest |-> {SubSeq(w, i + 1, Len(w))}]
      BY <1>8, <2>1
    <3>2. i = f
      <4>1. i \in 1..(f - 1) \/ f \in 1..(i - 1) \/ i = f
        BY <1>4
      <4> QED
        BY <2>1, <3>1, <4>1
    <3> QED
      BY <3>1, <3>2
  <2>3. SubSeq(w, 1, f - 1) = SubSeq(s, a, e - 1)
    <3>0. f \in 1..((N - a) + 1) /\ f = (e - a) + 1
      BY <1>4, <2>1
    <3>1. /\ a \in 1..(Len(s) + 1) /\ N \in (a - 1)..Len(s) /\ 1 \in 1..((N - a) + 2)
          /\ f - 1 \in (1 - 1)..((N - a) + 1) /\ (a + 1) - 1 = a /\ (a + (f - 1)) - 1 = e - 1
      <4>1. a \in 1..(N + 1) /\ N \in (a - 1)..N /\ 1 \in 1..((N - a) + 2)
        BY <1>0
      <4>2. f - 1 \in (1 - 1)..((N - a) + 1)
        BY <1>0, <3>0
      <4>3. (a + 1) - 1 = a /\ (a + (f - 1)) - 1 = e - 1
        BY <1>0, <3>0
      <4> QED
        BY <1>1, <4>1, <4>2, <4>3, Zenon
    <3>2. PICK b : b = f - 1
      OBVIOUS
    <3>3. SubSeq(SubSeq(s, a, N), 1, b) = SubSeq(s, (a + 1) - 1, (a + b) - 1)
      BY <3>1, <3>2, SliceOfSlice
    <3> QED
      BY <1>3, <3>1, <3>2, <3>3
  <2>4. SubSeq(w, f + 1, Len(w)) = SubSeq(s, e + 1, N)
    <3>1. /\ a \in 1..(Len(s) + 1) /\ N \in (a - 1)..Len(s) /\ f + 1 \in 1..((N - a) + 2)
          /\ Len(w) \in ((f + 1) - 1)..((N - a) + 1)
          /\ (a + (f + 1)) - 1 = e + 1 /\ (a + Len(w)) - 1 = N
      BY <1>0, <1>1, <1>4, <2>1
    <3>2. PICK b, d : b = f + 1 /\ d = Len(w)
      OBVIOUS
    <3>3. SubSeq(SubSeq(s, a, N), b, d) = SubSeq(s, (a + b) - 1, (a + d) - 1)
      BY <3>1, <3>2, SliceOfSlice
    <3> QED
      BY <1>3, <3>1, <3>2, <3>3
  <2>5. c.left = SubSeq(s, a, e - 1) /\ c.rest = {SubSeq(s, e + 1, N)}
    BY <2>2, <2>3, <2>4
  <2> QED
    BY <1>1, <1>2, <1>3, <1>7, <1>9, <1>11, <2>5, Zenon
<1> QED
  BY <1>10, <1>11

\* The turns of yuarel_parse_query.
LEMMA QueryTurns ==
  ASSUME NEW query, query # <<>>, NEW max \in Nat \ {0}
  PROVE  \E u :
           /\ u[1] = <<query>>
           /\ \A n \in 2..max : u[n] = Y!CutLast(u[n - 1])
           /\ Y!ParseQuery(query, max) = [i \in DOMAIN u[max] |-> Y!Param(u[max][i])]
<1> DEFINE Step(p) == Y!CutLast(p)
           Start == <<query>>
           F(g, m) == [n \in 1..m |-> IF n = 1 THEN Start ELSE Step(g[n - 1])]
           Upto == {m \in 0..max : \E g : g = F(g, m)}
           G == CHOOSE g : g = F(g, max)
<1>1. Y!ParseQuery(query, max) = [i \in DOMAIN G[max] |-> Y!Param(G[max][i])]
  BY Zenon DEF Y!ParseQuery
<1> HIDE DEF Step, Start
<1>2. 0 \in Upto
  <2>1. F(<<>>, 0) = F(F(<<>>, 0), 0)
    OBVIOUS
  <2> HIDE DEF F
  <2> QED
    BY <2>1
<1>3. ASSUME NEW m \in 1..max, m - 1 \in Upto
      PROVE  m \in Upto
  <2>1. PICK g : g = F(g, m - 1)
    BY <1>3
  <2> DEFINE h == F(g, m)
  <2>2. \A n \in 1..m : n = 1 \/ h[n - 1] = g[n - 1]
    BY <2>1
  <2> HIDE DEF h
  <2>3. \A n \in 1..m : (IF n = 1 THEN Start ELSE Step(g[n - 1]))
                            = (IF n = 1 THEN Start ELSE Step(h[n - 1]))
    BY <2>2
  <2>4. F(g, m) = F(h, m)
    BY <2>3
  <2> HIDE DEF F, h
  <2> QED
    BY <2>4 DEF h
<1>4. max \in Upto
  <2> HIDE DEF Upto
  <2>1. \A m \in 1..max : m - 1 \in Upto => m \in Upto
    BY <1>3
  <2>2. \A m \in 0..max : m \in Upto
    BY <1>2, <2>1, UpTo
  <2> QED
    BY <2>2
<1>5. G = F(G, max)
  <2> HIDE DEF F
  <2> QED
    BY <1>4
<1>6. G[1] = Start /\ \A n \in 2..max : G[n] = Step(G[n - 1])
  <2> HIDE DEF G
  <2> QED
    BY <1>5
<1> HIDE DEF G
<1> QED
  BY <1>1, <1>6, Zenon DEF Start, Step

\* Piece i of the first k, the last of which has what is left.
PieceOf(s, k, i) == IF i < k THEN Piece(s, "&", i)
                    ELSE SubSeq(s, PieceStart(s, "&", i), Len(s))
Pieces(s) == Cardinality(PieceEnds(s, "&"))

\* What n turns leave of a query.
TextsAt(s, n, texts) ==
  texts = [i \in 1..(IF n < Pieces(s) THEN n ELSE Pieces(s)) |->
             PieceOf(s, IF n < Pieces(s) THEN n ELSE Pieces(s), i)]

LEMMA TextsStep ==
  ASSUME NEW X, NEW s \in Seq(X), NEW n \in Nat \ {0}, NEW texts, TextsAt(s, n, texts)
  PROVE  TextsAt(s, n + 1, Y!CutLast(texts))
<1>1. Pieces(s) \in Nat \ {0}
  BY PieceAt DEF Pieces
<1>2. PICK k \in 1..Pieces(s) : k = (IF n < Pieces(s) THEN n ELSE Pieces(s))
  BY <1>1
<1>3. texts = [i \in 1..k |-> PieceOf(s, k, i)]
  BY <1>2 DEF TextsAt
<1>4. Len(texts) = k
  BY <1>2, <1>3
<1>5. texts[k] = SubSeq(s, PieceStart(s, "&", k), Len(s))
  <2>1. k \in 1..k /\ ~(k < k)
    BY <1>1
  <2> QED
    BY <1>3, <2>1 DEF PieceOf
<1>6. PICK c : c = Y!Cut(texts[k], "&")
  OBVIOUS
<1>7. /\ c.left = Piece(s, "&", k)
      /\ c.rest = IF k = Pieces(s) THEN {}
                  ELSE {SubSeq(s, Nth(PieceEnds(s, "&"), k) + 1, Len(s))}
  <2>1. LET d == Y!Cut(SubSeq(s, PieceStart(s, "&", k), Len(s)), "&") IN
        /\ d.left = Piece(s, "&", k)
        /\ d.rest = IF k = Cardinality(PieceEnds(s, "&")) THEN {}
                    ELSE {SubSeq(s, Nth(PieceEnds(s, "&"), k) + 1, Len(s))}
    BY PieceCut DEF Pieces
  <2> QED
    BY <1>5, <1>6, <2>1, Zenon DEF Pieces
<1>8. Y!CutLast(texts) = IF c.rest = {} THEN texts
                         ELSE Append([texts EXCEPT ![k] = c.left], Y!The(c.rest))
  BY <1>4, <1>6, Zenon DEF Y!CutLast, Y!Null
<1>9. CASE k = Pieces(s)
  <2>1. Y!CutLast(texts) = texts
    BY <1>7, <1>8, <1>9, Zenon
  <2>2. (IF n + 1 < Pieces(s) THEN n + 1 ELSE Pieces(s)) = k
    BY <1>1, <1>2, <1>9
  <2> QED
    BY <1>3, <2>1, <2>2, Zenon DEF TextsAt
<1>10. CASE k # Pieces(s)
  <2>1. k = n /\ (IF n + 1 < Pieces(s) THEN n + 1 ELSE Pieces(s)) = k + 1
    BY <1>1, <1>2, <1>10
  <2>2. PieceStart(s, "&", k + 1) = Nth(PieceEnds(s, "&"), k) + 1
    BY <1>10, PieceAt DEF Pieces
  <2>3. PICK w : w = SubSeq(s, PieceStart(s, "&", k + 1), Len(s))
    OBVIOUS
  <2>4. c.rest = {w}
    BY <1>7, <1>10, <2>2, <2>3, Zenon
  <2>5. c.rest # {} /\ Y!The(c.rest) = w
    BY <2>4 DEF Y!The
  <2>6. Y!CutLast(texts) = Append([texts EXCEPT ![k] = Piece(s, "&", k)], w)
    BY <1>7, <1>8, <2>5, Zenon
  <2>7. \A i \in 1..(k + 1) : PieceOf(s, k + 1, i) =
          IF i = k + 1 THEN w ELSE IF i = k THEN Piece(s, "&", k) ELSE PieceOf(s, k, i)
    <3> SUFFICES ASSUME NEW i \in 1..(k + 1)
                 PROVE  PieceOf(s, k + 1, i) =
                          IF i = k + 1 THEN w ELSE IF i = k THEN Piece(s, "&", k) ELSE PieceOf(s, k, i)
      OBVIOUS
    <3>1. /\ i = k + 1 => ~(i < k + 1)
          /\ i # k + 1 => i < k + 1
          /\ i # k + 1 /\ i # k => i < k
      BY <1>1
    <3> QED
      BY <2>3, <3>1, Zenon DEF PieceOf
  <2>8. Append([texts EXCEPT ![k] = Piece(s, "&", k)], w)
          = [i \in 1..(k + 1) |-> IF i = k + 1 THEN w
                                  ELSE IF i = k THEN Piece(s, "&", k) ELSE PieceOf(s, k, i)]
    <3>1. PICK p : p = Piece(s, "&", k)
      OBVIOUS
    <3>2. [texts EXCEPT ![k] = p] = [i \in 1..k |-> IF i = k THEN p ELSE PieceOf(s, k, i)]
      BY <1>3
    <3>3. Append([i \in 1..k |-> IF i = k THEN p ELSE PieceOf(s, k, i)], w)
            = [i \in 1..(k + 1) |-> IF i = k + 1 THEN w ELSE IF i = k THEN p ELSE PieceOf(s, k, i)]
      BY <1>1
    <3> QED
      BY <3>1, <3>2, <3>3, Zenon
  <2>9. [i \in 1..(k + 1) |-> PieceOf(s, k + 1, i)]
          = [i \in 1..(k + 1) |-> IF i = k + 1 THEN w
                                  ELSE IF i = k THEN Piece(s, "&", k) ELSE PieceOf(s, k, i)]
    BY <2>7, Zenon
  <2> QED
    BY <2>1, <2>6, <2>8, <2>9, Zenon DEF TextsAt
<1> QED
  BY <1>9, <1>10

\* yuarel_parse_query splits the pieces it has room for.
LEMMA TextsAre ==
  ASSUME NEW X, NEW s \in Seq(X), s # <<>>, NEW max \in Nat \ {0}
  PROVE  \E texts : /\ TextsAt(s, max, texts)
                    /\ Y!ParseQuery(s, max) = [i \in DOMAIN texts |-> Y!Param(texts[i])]
<1>1. PICK u : /\ u[1] = <<s>>
               /\ \A n \in 2..max : u[n] = Y!CutLast(u[n - 1])
               /\ Y!ParseQuery(s, max) = [i \in DOMAIN u[max] |-> Y!Param(u[max][i])]
  BY QueryTurns, ZenonT(60)
<1> DEFINE Fine == {n \in 0..max : n = 0 \/ TextsAt(s, n, u[n])}
<1>2. 0 \in Fine
  OBVIOUS
<1>3. TextsAt(s, 1, u[1])
  <2>1. Pieces(s) \in Nat \ {0} /\ 1 \in 1..Pieces(s)
    BY PieceAt DEF Pieces
  <2>2. (IF 1 < Pieces(s) THEN 1 ELSE Pieces(s)) = 1
    BY <2>1
  <2>3. PieceOf(s, 1, 1) = s
    <3>1. PieceStart(s, "&", 1) = 1
      BY Zenon DEF PieceStart
    <3>2. SubSeq(s, 1, Len(s)) = s
      BY SubSeqFull
    <3>3. ~(1 < 1)
      OBVIOUS
    <3> QED
      BY <3>1, <3>2, <3>3, Zenon DEF PieceOf
  <2>4. \A x : <<x>> = [i \in 1..1 |-> x]
    OBVIOUS
  <2>5. [i \in 1..1 |-> PieceOf(s, 1, i)] = [i \in 1..1 |-> s]
    <3>1. \A i \in 1..1 : i = 1
      OBVIOUS
    <3>2. \A i \in 1..1 : PieceOf(s, 1, i) = s
      BY <2>3, <3>1, Zenon
    <3> QED
      BY <3>2, Zenon
  <2> QED
    BY <1>1, <2>2, <2>4, <2>5, Zenon DEF TextsAt
<1>4. \A n \in 1..max : n - 1 \in Fine => n \in Fine
  <2> SUFFICES ASSUME NEW n \in 1..max, n - 1 \in Fine
               PROVE  n \in Fine
    OBVIOUS
  <2>1. CASE n = 1
    BY <1>3, <2>1
  <2>2. CASE n # 1
    <3>1. PICK k \in Nat \ {0} : k = n - 1 /\ k + 1 = n /\ n \in 2..max
      BY <2>2
    <3>2. TextsAt(s, k, u[k])
      BY <3>1
    <3>3. TextsAt(s, k + 1, Y!CutLast(u[k]))
      BY <3>2, TextsStep
    <3>4. u[n] = Y!CutLast(u[k])
      BY <1>1, <3>1
    <3> QED
      BY <3>1, <3>3, <3>4
  <2> QED
    BY <2>1, <2>2
<1>5. TextsAt(s, max, u[max])
  <2>1. \A n \in 0..max : n \in Fine
    <3> HIDE DEF Fine
    <3> QED
      BY <1>2, <1>4, UpTo
  <2> QED
    BY <2>1
<1> QED
  BY <1>1, <1>5, Zenon

\* Of the parameters with the same key the first is kept.
Kept(c, key) == {n \in 1..c : \A m \in 1..(n - 1) : key[m] # key[n]}

Stores(c, key, val, params) ==
  /\ DOMAIN params = 1..c
  /\ \A i \in 1..c : params[i].key = key[i] /\ Y!Text(params[i].val) = val[i]

StoredAs(S, key, val, params) ==
  Y!Store(params) = [k \in {key[n] : n \in S} |-> val[CHOOSE n \in S : key[n] = k]]

LEMMA StoreKeeps ==
  \A c \in Nat : \A key, val, params, S :
    Stores(c, key, val, params) /\ S = Kept(c, key) => StoredAs(S, key, val, params)
<1> SUFFICES ASSUME NEW c \in Nat, NEW key, NEW val, NEW params, NEW S,
                    Stores(c, key, val, params), S = Kept(c, key)
             PROVE  StoredAs(S, key, val, params)
  BY Zenon
<1>0. DOMAIN params = 1..c /\ \A i \in 1..c : params[i].key = key[i] /\ Y!Text(params[i].val) = val[i]
  BY Zenon DEF Stores
<1> DEFINE Keys == {key[n] : n \in S}
           At(k) == CHOOSE i \in DOMAIN params :
                      params[i].key = k /\ \A j \in 1..(i - 1) : params[j].key # k
<1>1. \A i \in 1..c : \A j \in 1..(i - 1) : j \in 1..c
  OBVIOUS
<1>2. \A n \in S : n \in 1..c /\ \A m \in 1..(n - 1) : key[m] # key[n]
  BY Zenon DEF Kept
<1>3. {params[i].key : i \in DOMAIN params} = Keys
  <2>1. \A i \in 1..c : \E n \in S : key[n] = key[i]
    <3> SUFFICES ASSUME NEW i \in 1..c
                 PROVE  \E n \in S : key[n] = key[i]
      OBVIOUS
    <3> DEFINE P == {j \in 1..c : key[j] = key[i]}
    <3>1. PICK n \in P : \A j \in P : n <= j
      <4>1. P \in SUBSET Nat /\ P # {}
        OBVIOUS
      <4> HIDE DEF P
      <4> QED
        BY <4>1, LeastOf
    <3>2. \A m \in 1..(n - 1) : m \in 1..c /\ ~(n <= m)
      OBVIOUS
    <3>3. \A m \in 1..(n - 1) : key[m] # key[n]
      BY <3>1, <3>2
    <3> QED
      BY <3>3 DEF Kept
  <2> QED
    BY <1>0, <1>2, <2>1, SMTT(60)
<1>4. ASSUME NEW k \in Keys
      PROVE  Y!Text(params[At(k)].val) = val[CHOOSE n \in S : key[n] = k]
  <2>1. PICK n \in S : key[n] = k
    OBVIOUS
  <2>2. n \in 1..c /\ \A m \in 1..(n - 1) : key[m] # k
    BY <1>2, <2>1
  <2>3. \A i \in 1..c : i # n /\ key[i] = k => n \in 1..(i - 1)
    BY <2>2
  <2>4. (CHOOSE i \in S : key[i] = k) = n
    <3>1. \A i \in S : key[i] = k => i = n
      BY <1>2, <2>1, <2>3
    <3> QED
      BY <2>1, <3>1
  <2>5. At(k) = n
    <3> DEFINE First(i) == params[i].key = k /\ \A j \in 1..(i - 1) : params[j].key # k
    <3>1. First(n)
      BY <1>0, <1>1, <2>1, <2>2
    <3>2. \A i \in DOMAIN params : First(i) => i = n
      BY <1>0, <2>1, <2>2, <2>3
    <3> HIDE DEF First
    <3>3. (CHOOSE i \in DOMAIN params : First(i)) = n
      BY <1>0, <2>2, <3>1, <3>2
    <3> QED
      BY <3>3 DEF First
  <2> HIDE DEF At
  <2> QED
    BY <1>0, <2>2, <2>4, <2>5
<1>5. Y!Store(params) = [k \in {params[i].key : i \in DOMAIN params} |-> Y!Text(params[At(k)].val)]
  BY Zenon DEF Y!Store
<1> HIDE DEF At
<1>6. Y!Store(params) = [k \in Keys |-> Y!Text(params[At(k)].val)]
  BY <1>3, <1>5, Zenon
<1> HIDE DEF Keys
<1>7. [k \in Keys |-> Y!Text(params[At(k)].val)]
        = [k \in Keys |-> val[CHOOSE n \in S : key[n] = k]]
  BY <1>4, Zenon
<1> QED
  BY <1>6, <1>7, Zenon DEF Keys, StoredAs

\* A parameter is split at its first =.
LEMMA ParamIs ==
  ASSUME NEW X, NEW s \in Seq(X)
  PROVE  /\ Y!Param(s).key = Piece(s, "=", 1)
         /\ Y!Text(Y!Param(s).val) = SubSeq(s, Len(Piece(s, "=", 1)) + 2, Len(s))
<1>1. PICK N \in Nat : N = Len(s)
  BY LenProperties
<1>2. /\ Cardinality(PieceEnds(s, "=")) \in Nat \ {0}
      /\ 1 \in 1..Cardinality(PieceEnds(s, "="))
      /\ PieceStart(s, "=", 1) = 1
  <2>1. Cardinality(PieceEnds(s, "=")) \in Nat \ {0}
    BY PieceAt
  <2>2. PieceStart(s, "=", 1) = 1
    BY Zenon DEF PieceStart
  <2> QED
    BY <2>1, <2>2
<1>3. PICK e : e \in 1..(N + 1) /\ e = Nth(PieceEnds(s, "="), 1)
  BY <1>1, <1>2, PieceAt
<1>4. 1 = Cardinality(PieceEnds(s, "=")) <=> e = N + 1
  BY <1>1, <1>2, <1>3, PieceAt
<1>5. Piece(s, "=", 1) = SubSeq(s, 1, e - 1) /\ Len(Piece(s, "=", 1)) = e - 1
  <2>1. Piece(s, "=", 1) = SubSeq(s, 1, e - 1)
    BY <1>2, <1>3, Zenon DEF Piece
  <2>2. PICK b \in (1 - 1)..Len(s) : b = e - 1
    BY <1>1, <1>3
  <2>3. Len(SubSeq(s, 1, b)) = (b - 1) + 1
    <3>1. 1 \in 1..(Len(s) + 1)
      BY <1>1
    <3> QED
      BY <3>1, Slice
  <2> QED
    BY <1>3, <2>1, <2>2, <2>3
<1>6. PICK c : c = Y!Cut(s, "=")
  OBVIOUS
<1>7. c.left = Piece(s, "=", 1)
      /\ c.rest = IF 1 = Cardinality(PieceEnds(s, "=")) THEN {}
                  ELSE {SubSeq(s, e + 1, Len(s))}
  <2>1. LET d == Y!Cut(SubSeq(s, PieceStart(s, "=", 1), Len(s)), "=") IN
        /\ d.left = Piece(s, "=", 1)
        /\ d.rest = IF 1 = Cardinality(PieceEnds(s, "=")) THEN {}
                    ELSE {SubSeq(s, Nth(PieceEnds(s, "="), 1) + 1, Len(s))}
    BY <1>2, PieceCut
  <2>2. SubSeq(s, PieceStart(s, "=", 1), Len(s)) = s
    BY <1>2, SubSeqFull
  <2> QED
    BY <1>3, <1>6, <2>1, <2>2, Zenon
<1>8. Y!Param(s) = [key |-> c.left, val |-> c.rest]
  BY <1>6, Zenon DEF Y!Param
<1>9. Y!Param(s).key = c.left /\ Y!Param(s).val = c.rest
  BY <1>8
<1>10. (e - 1) + 2 = e + 1
  BY <1>3
<1>11. Y!Text(c.rest) = SubSeq(s, e + 1, Len(s))
  <2>1. CASE e = N + 1
    <3>1. c.rest = {}
      BY <1>4, <1>7, <2>1, Zenon
    <3>2. Y!Text(c.rest) = <<>>
      BY <3>1, Zenon DEF Y!Text, Y!Null
    <3>3. SubSeq(s, e + 1, Len(s)) = <<>>
      <4>1. e + 1 \in Int /\ Len(s) \in Int /\ e + 1 > Len(s)
        BY <1>1, <2>1
      <4> QED
        BY <4>1, SubSeqEmpty
    <3> QED
      BY <3>2, <3>3
  <2>2. CASE e # N + 1
    <3>1. PICK w : w = SubSeq(s, e + 1, Len(s))
      OBVIOUS
    <3>2. c.rest = {w}
      BY <1>4, <1>7, <2>2, <3>1, Zenon
    <3>3. c.rest # {} /\ Y!The(c.rest) = w
      BY <3>2 DEF Y!The
    <3> QED
      BY <3>1, <3>3, Zenon DEF Y!Text, Y!Null
  <2> QED
    BY <2>1, <2>2
<1> QED
  BY <1>5, <1>7, <1>9, <1>10, <1>11

\* The query of an URL that is a query of the root.
LEMMA QueryIs ==
  ASSUME NEW X, NEW s \in Seq(X), Len(s) >= 2, s[1] = "/", s[2] = "?",
         \A i \in 1..Len(s) : s[i] # "#"
  PROVE  Y!Parse(s).url.query = {SubSeq(s, 3, Len(s))}
<1>1. PICK N \in Nat : N = Len(s) /\ 2 \in 1..N /\ 1 \in 1..N
  BY LenProperties
<1>2. PICK f : f = Y!Cut(s, "#")
  OBVIOUS
<1>3. f = [left |-> s, rest |-> {}]
  <2>1. \/ /\ \A i \in 1..Len(s) : s[i] # "#"
           /\ Y!Cut(s, "#") = [left |-> s, rest |-> {}]
        \/ \E i \in 1..Len(s) :
             /\ s[i] = "#" /\ \A j \in 1..(i - 1) : s[j] # "#"
             /\ Y!Cut(s, "#") = [left |-> SubSeq(s, 1, i - 1), rest |-> {SubSeq(s, i + 1, Len(s))}]
    BY CutIs
  <2> QED
    BY <1>2, <2>1, Zenon
<1>4. f.left = s /\ f.rest = {}
  BY <1>3
<1>5. PICK q : q = Y!Cut(s, "?")
  OBVIOUS
<1>6. q = [left |-> SubSeq(s, 1, 2 - 1), rest |-> {SubSeq(s, 2 + 1, Len(s))}]
  <2>1. \/ /\ \A i \in 1..Len(s) : s[i] # "?"
           /\ q = [left |-> s, rest |-> {}]
        \/ \E i \in 1..Len(s) :
             /\ s[i] = "?" /\ \A j \in 1..(i - 1) : s[j] # "?"
             /\ q = [left |-> SubSeq(s, 1, i - 1), rest |-> {SubSeq(s, i + 1, Len(s))}]
    <3>1. \/ /\ \A i \in 1..Len(s) : s[i] # "?"
             /\ Y!Cut(s, "?") = [left |-> s, rest |-> {}]
          \/ \E i \in 1..Len(s) :
               /\ s[i] = "?" /\ \A j \in 1..(i - 1) : s[j] # "?"
               /\ Y!Cut(s, "?") = [left |-> SubSeq(s, 1, i - 1), rest |-> {SubSeq(s, i + 1, Len(s))}]
      BY CutIs, ZenonT(60)
    <3> QED
      BY <1>5, <3>1, Zenon
  <2>2. 2 \in 1..Len(s) /\ s[2] = "?"
    BY <1>1
  <2>3. PICK i \in 1..Len(s) :
             /\ s[i] = "?" /\ \A j \in 1..(i - 1) : s[j] # "?"
             /\ q = [left |-> SubSeq(s, 1, i - 1), rest |-> {SubSeq(s, i + 1, Len(s))}]
    BY <2>1, <2>2, Zenon
  <2>4. i = 2
    <3>1. i = 1 \/ i = 2 \/ 2 \in 1..(i - 1)
      BY <1>1
    <3>2. "/" # "?"
      OBVIOUS
    <3> QED
      BY <2>2, <2>3, <3>1, <3>2
  <2> QED
    BY <2>3, <2>4, Zenon
<1>7. SubSeq(s, 1, 1) = <<"/">>
  BY <1>1, SubSeqOne
<1>8. q.left = <<"/">> /\ q.rest = {SubSeq(s, 3, Len(s))}
  BY <1>6, <1>7
<1>9. PICK url : url = [Y!NoUrl EXCEPT !.fragment = f.rest, !.query = q.rest]
  OBVIOUS
<1>10. url.query = q.rest
  BY <1>9 DEF Y!NoUrl
<1>11. Y!Parse(s) = Y!Main(url, <<"/">>)
  BY <1>2, <1>4, <1>5, <1>8, <1>9, Zenon DEF Y!Parse
<1>12. PICK r : r = Y!Cut(<<"/">>, "/")
  OBVIOUS
<1>13. Y!Main(url, <<"/">>) = [ok |-> TRUE, url |-> [url EXCEPT !.path = r.rest]]
  <2>1. <<"/">> # <<>> /\ Head(<<"/">>) = "/"
    OBVIOUS
  <2> QED
    BY <1>12, <2>1, Zenon DEF Y!Main
<1>14. [url EXCEPT !.path = r.rest].query = url.query
  BY <1>9 DEF Y!NoUrl
<1>15. Y!Parse(s).url = [url EXCEPT !.path = r.rest]
  BY <1>11, <1>13
<1> QED
  BY <1>8, <1>10, <1>14, <1>15, Zenon

\* The parameters that are stored are those of the query.
LEMMA StoredWords ==
  ASSUME NEW X, NEW t \in Seq(X), t # <<>>, MaxQueries \in Nat \ {0}
  PROVE  LET pieces == Cardinality(PieceEnds(t, "&"))
             count == IF pieces < MaxQueries THEN pieces ELSE MaxQueries
             text(n) == IF n < count THEN Piece(t, "&", n)
                        ELSE SubSeq(t, PieceStart(t, "&", n), Len(t))
             key(n) == Piece(text(n), "=", 1)
             val(n) == SubSeq(text(n), Len(key(n)) + 2, Len(text(n)))
             kept == {n \in 1..count : \A m \in 1..(n - 1) : key(m) # key(n)}
         IN  Y!Store(Y!ParseQuery(t, MaxQueries))
               = [k \in {key(n) : n \in kept} |-> val(CHOOSE n \in kept : key(n) = k)]
<1> DEFINE pieces == Cardinality(PieceEnds(t, "&"))
           count == IF pieces < MaxQueries THEN pieces ELSE MaxQueries
           text(n) == IF n < count THEN Piece(t, "&", n)
                      ELSE SubSeq(t, PieceStart(t, "&", n), Len(t))
           key(n) == Piece(text(n), "=", 1)
           val(n) == SubSeq(text(n), Len(key(n)) + 2, Len(text(n)))
           kept == {n \in 1..count : \A m \in 1..(n - 1) : key(m) # key(n)}
           keys == [n \in 1..count |-> key(n)]
           vals == [n \in 1..count |-> val(n)]
<1>1. pieces \in Nat \ {0} /\ pieces = Pieces(t)
  <2>1. pieces \in Nat \ {0}
    BY PieceAt
  <2> QED
    BY <2>1, Zenon DEF Pieces
<1>2. /\ count \in Nat \ {0} /\ count \in Nat /\ count <= pieces
      /\ count = (IF MaxQueries < pieces THEN MaxQueries ELSE pieces)
  BY <1>1
<1> HIDE DEF pieces, count
<1>3. \A n : text(n) = PieceOf(t, count, n)
  BY Zenon DEF PieceOf
<1>4. \A n \in 1..count : text(n) \in Seq(X)
  <2> SUFFICES ASSUME NEW n \in 1..count
               PROVE  PieceOf(t, count, n) \in Seq(X)
    BY <1>3, Zenon
  <2>1. PICK m \in Nat : m = Len(t)
    BY LenProperties
  <2>2. PICK a, e : a = PieceStart(t, "&", n) /\ e = Nth(PieceEnds(t, "&"), n)
    OBVIOUS
  <2>3. a \in 1..(m + 1) /\ e \in a..(m + 1)
    <3>1. n \in 1..Cardinality(PieceEnds(t, "&"))
      BY <1>1, <1>2 DEF pieces
    <3>2. /\ PieceStart(t, "&", n) \in 1..(Len(t) + 1)
          /\ Nth(PieceEnds(t, "&"), n) \in PieceStart(t, "&", n)..(Len(t) + 1)
      BY <3>1, PieceAt
    <3> QED
      BY <2>1, <2>2, <3>2, Zenon
  <2>4. a \in 1..(Len(t) + 1) /\ e - 1 \in (a - 1)..Len(t) /\ Len(t) \in (a - 1)..Len(t)
    BY <2>1, <2>3
  <2>5. SubSeq(t, a, e - 1) \in Seq(X)
    <3>1. PICK b \in (a - 1)..Len(t) : b = e - 1
      BY <2>4
    <3>2. SubSeq(t, a, b) \in Seq(X)
      BY <2>4, Slice
    <3> QED
      BY <3>1, <3>2
  <2>6. SubSeq(t, a, Len(t)) \in Seq(X)
    BY <2>4, Slice
  <2> QED
    BY <2>2, <2>5, <2>6, Zenon DEF PieceOf, Piece
<1> HIDE DEF text
<1>5. PICK params : params = Y!ParseQuery(t, MaxQueries)
  OBVIOUS
<1>6. DOMAIN params = 1..count /\ \A i \in 1..count : params[i] = Y!Param(text(i))
  <2>1. PICK texts : /\ TextsAt(t, MaxQueries, texts)
                     /\ Y!ParseQuery(t, MaxQueries) = [i \in DOMAIN texts |-> Y!Param(texts[i])]
    BY TextsAre
  <2>2. texts = [i \in 1..count |-> PieceOf(t, count, i)]
    <3>1. PICK c : c = (IF MaxQueries < Pieces(t) THEN MaxQueries ELSE Pieces(t))
      OBVIOUS
    <3>2. texts = [i \in 1..c |-> PieceOf(t, c, i)]
      BY <2>1, <3>1 DEF TextsAt
    <3>3. c = count
      BY <1>1, <1>2, <3>1
    <3> QED
      BY <3>2, <3>3
  <2>3. DOMAIN texts = 1..count /\ \A i \in 1..count : texts[i] = text(i)
    BY <1>3, <2>2
  <2> QED
    BY <1>5, <2>1, <2>3
<1>7. \A i \in 1..count : params[i].key = key(i) /\ Y!Text(params[i].val) = val(i)
  <2> SUFFICES ASSUME NEW i \in 1..count
               PROVE  params[i].key = key(i) /\ Y!Text(params[i].val) = val(i)
    OBVIOUS
  <2>1. PICK w \in Seq(X) : w = text(i)
    BY <1>4
  <2>2. /\ Y!Param(w).key = Piece(w, "=", 1)
        /\ Y!Text(Y!Param(w).val) = SubSeq(w, Len(Piece(w, "=", 1)) + 2, Len(w))
    BY ParamIs
  <2> QED
    BY <1>6, <2>1, <2>2, Zenon
<1> HIDE DEF key, val
<1>8. \A n \in 1..count : keys[n] = key(n) /\ vals[n] = val(n)
  OBVIOUS
<1> HIDE DEF keys, vals
<1>9. kept = Kept(count, keys)
  <2>1. \A n \in 1..count : \A m \in 1..(n - 1) : m \in 1..count
    BY <1>2
  <2> QED
    BY <1>8, <2>1 DEF Kept
<1>10. kept \in SUBSET (1..count)
  OBVIOUS
<1> HIDE DEF kept
<1>11. Y!Store(params) = [k \in {keys[n] : n \in kept} |-> vals[CHOOSE n \in kept : keys[n] = k]]
  <2>1. \A i \in 1..count : params[i].key = keys[i] /\ Y!Text(params[i].val) = vals[i]
    BY <1>7, <1>8
  <2>2. Stores(count, keys, vals, params)
    BY <1>6, <2>1, Zenon DEF Stores
  <2>3. StoredAs(kept, keys, vals, params)
    BY <1>2, <1>9, <2>2, StoreKeeps, Zenon
  <2> QED
    BY <2>3, Zenon DEF StoredAs
<1>12. {keys[n] : n \in kept} = {key(n) : n \in kept}
  BY <1>8, <1>10
<1> DEFINE Left(k) == vals[CHOOSE n \in kept : keys[n] = k]
           Right(k) == val(CHOOSE n \in kept : key(n) = k)
<1>13. \A k \in {key(n) : n \in kept} : Left(k) = Right(k)
  <2> SUFFICES ASSUME NEW k \in {key(n) : n \in kept}
               PROVE  Left(k) = Right(k)
    OBVIOUS
  <2>1. \A n \in kept : keys[n] = k <=> key(n) = k
    BY <1>8, <1>10
  <2>2. (CHOOSE n \in kept : keys[n] = k) = (CHOOSE n \in kept : key(n) = k)
    BY <2>1
  <2>3. (CHOOSE n \in kept : key(n) = k) \in kept
    OBVIOUS
  <2> QED
    BY <1>8, <1>10, <2>2, <2>3
<1>14. Y!Store(params) = [k \in {key(n) : n \in kept} |-> Right(k)]
  <2>1. Y!Store(params) = [k \in {keys[n] : n \in kept} |-> Left(k)]
    BY <1>11
  <2> HIDE DEF Left, Right
  <2> QED
    BY <1>12, <1>13, <2>1, Zenon
<1> QED
  BY <1>5, <1>14, Zenon DEF pieces, count, text, key, val, kept

\* The parameters REST_URL keeps.
LEMMA UrlQuery ==
  ASSUME NEW X, NEW s \in Seq(X), Len(s) >= 2, s[1] = "/", s[2] = "?",
         \A i \in 1..Len(s) : s[i] # "#", MaxQueries \in Nat \ {0}
  PROVE  LET query == SubSeq(s, 3, Len(s)) IN
         /\ query \in Seq(X)
         /\ query = <<>> => Y!Queries(s) = <<>>
         /\ query # <<>> => Y!Queries(s) = Y!Store(Y!ParseQuery(query, MaxQueries))
<1>1. PICK N \in Nat : N = Len(s) /\ N >= 2
  BY LenProperties
<1>2. PICK t \in Seq(X) : t = SubSeq(s, 3, Len(s))
  <2>1. 3 \in 1..(Len(s) + 1) /\ Len(s) \in (3 - 1)..Len(s)
    BY <1>1
  <2> QED
    BY <2>1, Slice
<1>3. Y!Queries(s) = Y!Store(Y!ParseQuery(t, MaxQueries))
  <2>1. Y!Parse(s).url.query = {t}
    BY <1>2, QueryIs
  <2>2. {t} # {} /\ Y!The({t}) = t
    BY DEF Y!The
  <2> QED
    BY <2>1, <2>2, Zenon DEF Y!Queries, Y!Null
<1>4. ASSUME t = <<>>
      PROVE  Y!Queries(s) = <<>>
  <2>1. Y!ParseQuery(t, MaxQueries) = <<>>
    BY <1>4, Zenon DEF Y!ParseQuery
  <2>2. Y!Store(<<>>) = <<>>
    <3>1. DOMAIN <<>> = {}
      OBVIOUS
    <3> DEFINE F(k) == Y!Text(<<>>[CHOOSE i \in DOMAIN <<>> :
                          <<>>[i].key = k /\ \A j \in 1..(i - 1) : <<>>[j].key # k].val)
    <3>2. Y!Store(<<>>) = [k \in {<<>>[i].key : i \in DOMAIN <<>>} |-> F(k)]
      BY Zenon DEF Y!Store
    <3> HIDE DEF F
    <3>3. {<<>>[i].key : i \in DOMAIN <<>>} = {}
      BY <3>1
    <3>4. [k \in {} |-> F(k)] = <<>>
      OBVIOUS
    <3> QED
      BY <3>2, <3>3, <3>4, Zenon
  <2> QED
    BY <1>3, <2>1, <2>2, Zenon
<1> QED
  BY <1>2, <1>3, <1>4, Zenon

\* Taking an URL apart in place loses nothing of it, up to the limits of parts and
\* parameters, for every URL of any length over any alphabet (yuarel_parse,
\* yuarel_split_path, yuarel_parse_query, on_message_complete).
THEOREM UrlCorrect == Spec => []UrlKept
<1>1. CodecInputs => UrlParts
  <2> SUFFICES ASSUME CodecInputs, codec \in {"url", "absolute"}
               PROVE  LET r == Y!Parse(input)
                          path == Around(<<>>, r.url.path, <<>>)
                          count == Cardinality(Starts(path))
                      IN  /\ r.ok => Whole(r.url) = input
                          /\ Y!Path(input) = [n \in 1..(IF count < MaxParts THEN count ELSE MaxParts) |->
                                                Word(path, Nth(Starts(path), n))]
    BY Zenon DEF UrlParts
  <2>1. PICK X : X = Format[codec].alphabet \cup Marks
    OBVIOUS
  <2>2. input \in Seq(X) /\ {":", "@", "/", "?", "#"} \subseteq X
    BY <2>1 DEF CodecInputs, Marks
  <2>3. Y!Parse(input).ok => Whole(Y!Parse(input).url) = input
    BY <2>2, ParseKeeps
  <2>4. LET path == Around(<<>>, Y!Parse(input).url.path, <<>>)
            count == Cardinality(Starts(path))
        IN  Y!Path(input) = [n \in 1..(IF count < MaxParts THEN count ELSE MaxParts) |->
                               Word(path, Nth(Starts(path), n))]
    BY <2>2, UrlPath, SizesAssumption
  <2> QED
    BY <2>3, <2>4, Zenon
<1>2. CodecInputs => QueryParts
  <2> SUFFICES ASSUME CodecInputs, codec = "query"
               PROVE  QueryParts
    BY DEF QueryParts
  <2>1. PICK X : X = Format[codec].alphabet \cup Marks
    OBVIOUS
  <2>2. /\ input \in Seq(X) /\ Len(input) >= 2 /\ input[1] = "/" /\ input[2] = "?"
        /\ \A i \in 1..Len(input) : input[i] # "#"
    BY <2>1 DEF CodecInputs
  <2>3. LET query == SubSeq(input, 3, Len(input)) IN
        /\ query \in Seq(X)
        /\ query = <<>> => Y!Queries(input) = <<>>
        /\ query # <<>> => Y!Queries(input) = Y!Store(Y!ParseQuery(query, MaxQueries))
    BY <2>2, UrlQuery, SizesAssumption
  <2> DEFINE query == SubSeq(input, 3, Len(input))
             pieces == Cardinality(PieceEnds(query, "&"))
             count == IF pieces < MaxQueries THEN pieces ELSE MaxQueries
             text(n) == IF n < count THEN Piece(query, "&", n)
                        ELSE SubSeq(query, PieceStart(query, "&", n), Len(query))
             key(n) == Piece(text(n), "=", 1)
             val(n) == SubSeq(text(n), Len(key(n)) + 2, Len(text(n)))
             kept == {n \in 1..count : \A m \in 1..(n - 1) : key(m) # key(n)}
             want == [k \in {key(n) : n \in kept} |-> val(CHOOSE n \in kept : key(n) = k)]
  <2>4. ASSUME query # <<>>
        PROVE  Y!Store(Y!ParseQuery(query, MaxQueries)) = want
    <3> HIDE DEF query
    <3>1. query \in Seq(X)
      BY <2>3 DEF query
    <3> QED
      BY <2>4, <3>1, StoredWords, SizesAssumption, ZenonT(60)
  <2> HIDE DEF want
  <2>5. Y!Queries(input) = IF query = <<>> THEN <<>> ELSE want
    BY <2>3, <2>4, Zenon
  <2> QED
    BY <2>5, Zenon DEF QueryParts, want
<1> QED
  BY <1>1, <1>2, CodecInputsHold, PTL DEF UrlKept
-----------------------------------------------------------------------------
(* Digests.                                                                *)

\* Products and quotients.
LEMMA TimesNat ==
  \A a, b \in Nat : a * b \in Nat
OBVIOUS

LEMMA TimesSum ==
  \A a, b \in Int : \A c \in Int : (a + b) * c = a * c + b * c /\ 1 * c = c /\ 0 * c = 0
OBVIOUS

LEMMA Quotient ==
  ASSUME NEW a \in Nat, NEW m \in Nat \ {0}
  PROVE  /\ a \div m \in Nat /\ a % m \in 0..(m - 1)
         /\ a = (a \div m) * m + (a % m)
OBVIOUS

LEMMA TimesOrder ==
  ASSUME NEW a \in Nat, NEW b \in Nat, NEW m \in Nat \ {0}, a < b
  PROVE  a * m + m <= b * m
<1>1. (b - a) - 1 \in Nat
  OBVIOUS
<1>2. ((b - a) - 1) * m \in Nat
  BY <1>1, TimesNat
<1> QED
  BY <1>2

LEMMA QuotientIs ==
  ASSUME NEW m \in Nat \ {0}, NEW q \in Nat, NEW r \in 0..(m - 1)
  PROVE  (q * m + r) \div m = q /\ (q * m + r) % m = r /\ q * m + r \in Nat
<1>1. PICK a \in Nat : a = q * m + r
  <2>1. q * m \in Nat
    BY TimesNat
  <2> QED
    BY <2>1
<1>2. PICK p \in Nat, t \in 0..(m - 1) : p = a \div m /\ t = a % m /\ a = p * m + t
  BY Quotient
<1>3. q * m \in Nat /\ p * m \in Nat
  BY TimesNat
<1>4. p = q
  <2>1. p < q => p * m + m <= q * m
    BY TimesOrder
  <2>2. q < p => q * m + m <= p * m
    BY TimesOrder
  <2> QED
    BY <1>1, <1>2, <1>3, <2>1, <2>2
<1> QED
  BY <1>1, <1>2, <1>3, <1>4

\* An octet of the padded message.
PadOctet(m, total, i) ==
  IF i <= Len(m) THEN m[i] ELSE IF i = Len(m) + 1 THEN 128
  ELSE IF i <= total - LengthBytes THEN 0
  ELSE ((8 * Len(m)) \div 256 ^ (total - i)) % 256

\* How many blocks are padded with.
More(r) == IF r < BlockSize - LengthBytes THEN 1 ELSE 2

LEMMA PaddedIs ==
  ASSUME NEW m \in Seq(Nat), NEW b \in Nat, NEW r \in 0..(BlockSize - 1),
         Len(m) = b * BlockSize + r
  PROVE  Padded(m) = [n \in 1..(b + More(r)) |->
                        [i \in 1..BlockSize |->
                           PadOctet(m, (b + More(r)) * BlockSize, (n - 1) * BlockSize + i)]]
<1>1. PICK B \in Nat \ {0}, L \in Nat : B = BlockSize /\ L = LengthBytes /\ L < B
  BY SizesAssumption DEF Octets
<1>2. PICK size \in Nat : size = Len(m) /\ size = b * B + r
  BY <1>1, LenProperties
<1>3. PICK k \in Nat : k = b + More(r) /\ k = (IF r < B - L THEN b + 1 ELSE b + 2)
  BY <1>1 DEF More
<1>4. PICK p \in Nat : p = b * B
  BY TimesNat
<1>5. k * B = p + (IF r < B - L THEN B ELSE 2 * B) /\ k * B \in Nat
  <2>1. (b + 1) * B = p + B /\ (b + 2) * B = p + 2 * B
    BY <1>4
  <2> QED
    BY <1>3, <2>1, TimesNat
<1>6. PICK total \in Nat : total = k * B
  BY <1>5
<1> DEFINE Window == (size + 1 + L)..(size + L + B)
<1>7. total \in Window
  BY <1>1, <1>2, <1>4, <1>5, <1>6
<1>8. total % B = 0 /\ total \div B = k
  <2>1. 0 \in 0..(B - 1) /\ k * B + 0 = total
    BY <1>6
  <2> QED
    BY <2>1, QuotientIs
<1>9. ASSUME NEW t \in Window, t % B = 0
      PROVE  t = total
  <2>1. t \in Nat
    OBVIOUS
  <2>2. PICK q \in Nat : t = q * B
    <3>1. t \div B \in Nat /\ t % B \in 0..(B - 1) /\ t = (t \div B) * B + (t % B)
      BY <2>1, Quotient
    <3>2. t = (t \div B) * B + 0
      BY <1>9, <3>1, Zenon
    <3>3. PICK q \in Nat : q = t \div B
      BY <3>1
    <3>4. t = q * B + 0
      BY <3>2, <3>3, Zenon
    <3> QED
      BY <3>4
  <2>3. q < k => q * B + B <= k * B
    BY TimesOrder
  <2>4. k < q => k * B + B <= q * B
    BY TimesOrder
  <2>5. total + B > t /\ t + B > total
    BY <1>7, <2>1
  <2> QED
    BY <1>6, <2>1, <2>2, <2>3, <2>4, <2>5
<1> HIDE DEF Window
<1>10. (CHOOSE t \in Window : t % B = 0) = total
  BY <1>7, <1>8, <1>9
<1>11. (CHOOSE t \in (Len(m) + 1 + LengthBytes)..(Len(m) + LengthBytes + BlockSize) :
          t % BlockSize = 0) = total
  BY <1>1, <1>2, <1>10, Zenon DEF Window
<1> DEFINE Chosen == CHOOSE t \in (Len(m) + 1 + LengthBytes)..(Len(m) + LengthBytes + BlockSize) :
                       t % BlockSize = 0
<1>12. Padded(m) = [n \in 1..(Chosen \div BlockSize) |->
                      [i \in 1..BlockSize |-> PadOctet(m, Chosen, (n - 1) * BlockSize + i)]]
  BY Zenon DEF Padded, PadOctet
<1>13. Chosen = total
  BY <1>11, Zenon
<1> HIDE DEF Chosen
<1> DEFINE Blocks(t, c) == [n \in 1..c |->
                              [i \in 1..BlockSize |-> PadOctet(m, t, (n - 1) * BlockSize + i)]]
<1>14. Padded(m) = Blocks(Chosen, Chosen \div BlockSize)
  BY <1>12, Zenon
<1> HIDE DEF Blocks
<1>15. Padded(m) = Blocks((b + More(r)) * BlockSize, b + More(r))
  BY <1>1, <1>3, <1>6, <1>8, <1>13, <1>14, Zenon
<1> QED
  BY <1>15, Zenon DEF Blocks

LEMMA FunSeq ==
  ASSUME NEW W, NEW c \in Nat, NEW h \in [1..c -> W]
  PROVE  h \in Seq(W) /\ Len(h) = c
<1>1. h \in Seq(W)
  BY SeqDef
<1>2. Len(h) \in Nat /\ 1..Len(h) = 1..c
  BY <1>1, LenProperties
<1>3. \A n \in Nat : n >= 1 => n \in 1..n
  OBVIOUS
<1> QED
  BY <1>1, <1>2, <1>3

\* A sequence, perhaps one more, and some more.
LEMMA JoinSeqs ==
  ASSUME NEW W, NEW b \in Nat, NEW h \in Seq(W), Len(h) = b, NEW s \in Seq(W)
  PROVE  h \o s = [n \in 1..(b + Len(s)) |-> IF n <= b THEN h[n] ELSE s[n - b]]
<1>1. /\ h \o s \in Seq(W) /\ Len(h \o s) = Len(h) + Len(s)
      /\ \A i \in 1..(Len(h) + Len(s)) : (h \o s)[i] = IF i <= Len(h) THEN h[i] ELSE s[i - Len(h)]
  BY ConcatProperties
<1>2. PICK w \in Seq(W) : w = h \o s
  BY <1>1
<1>3. Len(w) = b + Len(s) /\ \A i \in 1..(b + Len(s)) : w[i] = IF i <= b THEN h[i] ELSE s[i - b]
  BY <1>1, <1>2
<1>4. w = [n \in 1..(b + Len(s)) |-> w[n]]
  BY <1>3
<1> QED
  BY <1>2, <1>3, <1>4

LEMMA FunIsSeq ==
  ASSUME NEW W, NEW b \in Nat, NEW h, DOMAIN h = 1..b, h = [n \in 1..b |-> h[n]],
         \A n \in 1..b : h[n] \in W
  PROVE  h \in Seq(W) /\ Len(h) = b
<1>1. h \in [1..b -> W]
  OBVIOUS
<1> QED
  BY <1>1, FunSeq

LEMMA JoinOne ==
  ASSUME NEW b \in Nat, NEW h, DOMAIN h = 1..b, h = [n \in 1..b |-> h[n]], NEW x
  PROVE  h \o <<x>> = [n \in 1..(b + 1) |-> IF n <= b THEN h[n] ELSE x]
<1>1. PICK W : W = {h[n] : n \in 1..b} \cup {x}
  OBVIOUS
<1>2. \A n \in 1..b : h[n] \in W
  BY <1>1
<1>3. h \in Seq(W) /\ Len(h) = b
  BY <1>2, FunIsSeq
<1>4. PICK s \in Seq(W) : s = <<x>> /\ Len(s) = 1 /\ s[1] = x
  <2>1. x \in W
    BY <1>1
  <2>2. <<x>> \in Seq(W)
    BY <2>1
  <2>3. Len(<<x>>) = 1 /\ <<x>>[1] = x
    OBVIOUS
  <2> QED
    BY <2>2, <2>3
<1>5. h \o s = [n \in 1..(b + Len(s)) |-> IF n <= b THEN h[n] ELSE s[n - b]]
  BY <1>3, JoinSeqs, SMTT(60)
<1>6. \A n \in 1..(b + 1) : ~(n <= b) => n - b = 1
  OBVIOUS
<1>7. [n \in 1..(b + Len(s)) |-> IF n <= b THEN h[n] ELSE s[n - b]]
        = [n \in 1..(b + 1) |-> IF n <= b THEN h[n] ELSE x]
  BY <1>4, <1>6
<1> QED
  BY <1>4, <1>5, <1>7

LEMMA JoinNone ==
  ASSUME NEW b \in Nat, NEW h, DOMAIN h = 1..b, h = [n \in 1..b |-> h[n]]
  PROVE  h \o <<>> = h
<1>1. PICK W : W = {h[n] : n \in 1..b}
  OBVIOUS
<1>2. \A n \in 1..b : h[n] \in W
  BY <1>1
<1>3. h \in Seq(W) /\ Len(h) = b
  BY <1>2, FunIsSeq
<1> QED
  BY <1>3, ConcatEmptySeq

LEMMA JoinMore ==
  ASSUME NEW b \in Nat, NEW h, DOMAIN h = 1..b, h = [n \in 1..b |-> h[n]],
         NEW c \in Nat, NEW t, DOMAIN t = 1..c, t = [n \in 1..c |-> t[n]]
  PROVE  h \o t = [n \in 1..(b + c) |-> IF n <= b THEN h[n] ELSE t[n - b]]
<1>1. PICK W : W = {h[n] : n \in 1..b} \cup {t[n] : n \in 1..c}
  OBVIOUS
<1>2. (\A n \in 1..b : h[n] \in W) /\ (\A n \in 1..c : t[n] \in W)
  BY <1>1
<1>3. h \in Seq(W) /\ Len(h) = b
  BY <1>2, FunIsSeq
<1>4. t \in Seq(W) /\ Len(t) = c
  BY <1>2, FunIsSeq
<1>5. h \o t = [n \in 1..(b + Len(t)) |-> IF n <= b THEN h[n] ELSE t[n - b]]
  BY <1>3, <1>4, JoinSeqs, SMTT(60)
<1> QED
  BY <1>4, <1>5

LEMMA SeqFun ==
  ASSUME NEW X, NEW w \in Seq(X), NEW c \in Nat, Len(w) = c
  PROVE  w = [i \in 1..c |-> w[i]]
<1>1. DOMAIN w = 1..c
  BY LenProperties
<1>2. PICK n \in Nat : w \in [1..n -> X]
  BY SeqDef
<1>3. w = [i \in DOMAIN w |-> w[i]]
  BY <1>2
<1> QED
  BY <1>1, <1>3, Zenon

\* Block n of a message.
Block(m, n) == [i \in 1..BlockSize |-> m[(n - 1) * BlockSize + i]]

\* What the state of the hash is after the b blocks and r octets of m.
Taken(s, m, b, r) ==
  /\ Len(m) = b * BlockSize + r
  /\ s = [hash |-> s.hash, buffer |-> s.buffer, bufferSize |-> r, numBytes |-> b * BlockSize]
  /\ s.hash = [n \in 1..b |-> Block(m, n)]
  /\ DOMAIN s.buffer = 1..BlockSize
  /\ \A i \in 1..r : s.buffer[i] = m[b * BlockSize + i]

\* A digest is that of the message, and asking for it changes nothing of the state
\* that counts.
LEMMA DigestIs ==
  ASSUME NEW m \in Seq(Nat), NEW b \in Nat, NEW r \in 0..(BlockSize - 1),
         NEW s, Taken(s, m, b, r)
  PROVE  D!GetHash(s).digest = Padded(m) /\ Taken(D!GetHash(s).state, m, b, r)
<1>1. PICK B \in Nat \ {0}, L \in Nat : B = BlockSize /\ L = LengthBytes /\ L < B
  BY SizesAssumption DEF Octets
<1>2. PICK p \in Nat : p = b * B
  BY TimesNat
<1>3. PICK size \in Nat : size = Len(m) /\ size = p + r
  BY <1>1, <1>2, LenProperties DEF Taken
<1>4. /\ s.hash = [n \in 1..b |-> Block(m, n)] /\ s.bufferSize = r /\ s.numBytes = p
      /\ DOMAIN s.buffer = 1..B /\ \A i \in 1..r : s.buffer[i] = m[p + i]
      /\ s = [hash |-> s.hash, buffer |-> s.buffer, bufferSize |-> r, numBytes |-> p]
  BY <1>1, <1>2 DEF Taken
<1>5. PICK q \in Nat : q = D!PaddedLength(s) /\ q = (IF r < B - L THEN B - L ELSE 2 * B - L)
  <2>1. PICK bits \in Nat : bits = s.bufferSize * 8 + 1 /\ bits = r * 8 + 1
    BY <1>4
  <2>2. PICK low \in Nat : low = bits % (B * 8) /\ low = bits
    <3>1. bits \in 0..(B * 8 - 1) /\ B * 8 \in Nat \ {0}
      BY <1>1, <2>1
    <3>2. PICK e \in Nat \ {0} : e = B * 8
      BY <3>1
    <3>3. (0 * e + bits) % e = bits
      BY <3>1, <3>2, QuotientIs, SMTT(60)
    <3>4. 0 * e + bits = bits
      BY <3>1, <3>2
    <3> QED
      BY <3>2, <3>3, <3>4
  <2>10. low = r * 8 + 1 /\ bits = r * 8 + 1
    BY <2>1, <2>2, Zenon
  <2>3. D!PaddedLength(s) = (IF low <= (B - L) * 8 THEN bits + (B - L) * 8 - low
                            ELSE bits + B * 8 + (B - L) * 8 - low) \div 8
    BY <1>1, <2>1, <2>2, Zenon DEF D!PaddedLength
  <2>4. PICK z \in Nat : z = B - L /\ r \in Nat /\ (B - L) * 8 = z * 8
    BY <1>1
  <2>5. PICK w \in Nat : w = (IF r < z THEN z ELSE B + z)
    <3>1. z \in Nat /\ B + z \in Nat
      BY <2>4
    <3> QED
      BY <3>1, Zenon
  <2>6. (IF low <= (B - L) * 8 THEN bits + (B - L) * 8 - low
         ELSE bits + B * 8 + (B - L) * 8 - low) = w * 8
    <3>1. PICK y \in Nat : y = (B - L) * 8 /\ y = z * 8
      BY <2>4
    <3>2. low <= y <=> r < z
      BY <2>10, <2>4, <3>1
    <3>3. bits + y - low = z * 8 /\ bits + B * 8 + y - low = (B + z) * 8
      BY <2>10, <3>1
    <3> QED
      BY <2>5, <3>1, <3>2, <3>3, Zenon
  <2>7. (w * 8) \div 8 = w
    OBVIOUS
  <2>8. w = (IF r < B - L THEN B - L ELSE 2 * B - L)
    BY <1>1, <2>4, <2>5
  <2>9. D!PaddedLength(s) = w
    BY <2>3, <2>6, <2>7, Zenon
  <2> QED
    BY <2>8, <2>9
<1>6. PICK k \in {1, 2} : k = More(r) /\ k = (IF q <= B THEN 1 ELSE 2) /\ q + L = k * B
  BY <1>1, <1>5 DEF More
<1>7. PICK total \in Nat : total = (b + k) * B /\ total = p + k * B /\ total - L = p + q
  <2>1. (b + k) * B = p + k * B
    BY <1>2, TimesSum
  <2> QED
    BY <1>6, <2>1
<1>8. \A i \in 1..(k * B) : D!Padding(s, i) = PadOctet(m, total, p + i)
  <2> SUFFICES ASSUME NEW i \in 1..(k * B)
               PROVE  D!Padding(s, i) = PadOctet(m, total, p + i)
    OBVIOUS
  <2>1. i \in Nat /\ i >= 1
    BY <1>6
  <2>2. CASE i <= r
    <3>1. D!Padding(s, i) = s.buffer[i]
      BY <1>4, <2>2, SMTT(60) DEF D!Padding
    <3>2. PadOctet(m, total, p + i) = m[p + i]
      BY <1>3, <2>1, <2>2 DEF PadOctet
    <3> QED
      BY <1>4, <2>1, <2>2, <3>1, <3>2, SMTT(60)
  <2>3. CASE i = r + 1
    <3>1. D!Padding(s, i) = 128
      BY <1>4, <2>1, <2>3 DEF D!Padding
    <3>2. PadOctet(m, total, p + i) = 128
      BY <1>3, <2>1, <2>3 DEF PadOctet
    <3> QED
      BY <3>1, <3>2
  <2>4. CASE i > r + 1 /\ i <= q
    <3>1. D!Padding(s, i) = 0
      BY <1>4, <1>5, <2>1, <2>4 DEF D!Padding
    <3>2. PadOctet(m, total, p + i) = 0
      BY <1>1, <1>3, <1>7, <2>1, <2>4 DEF PadOctet
    <3> QED
      BY <3>1, <3>2
  <2>5. CASE i > r + 1 /\ ~(i <= q)
    <3>1. D!Padding(s, i) = D!LengthOctet(s, i - q)
      BY <1>4, <1>5, <2>1, <2>5, SMTT(60) DEF D!Padding
    <3>2. D!LengthOctet(s, i - q) = ((8 * (p + r)) \div 256 ^ (L - (i - q))) % 256
      BY <1>1, <1>4, Zenon DEF D!LengthOctet
    <3>3. ~(p + i <= Len(m)) /\ p + i # Len(m) + 1 /\ ~(p + i <= total - LengthBytes)
      BY <1>1, <1>3, <1>7, <2>1, <2>5
    <3>4. PadOctet(m, total, p + i) = ((8 * Len(m)) \div 256 ^ (total - (p + i))) % 256
      BY <3>3, Zenon DEF PadOctet
    <3>5. total - (p + i) = L - (i - q) /\ Len(m) = p + r
      BY <1>3, <1>7, <2>1
    <3> QED
      BY <3>1, <3>2, <3>4, <3>5, ZenonT(60)
  <2> QED
    BY <2>1, <2>2, <2>3, <2>4, <2>5
<1>9. PICK first : first = [i \in 1..B |-> D!Padding(s, i)]
  OBVIOUS
<1>10. PICK extra : extra = [i \in 1..B |-> D!Padding(s, B + i)]
  OBVIOUS
<1>11. /\ D!GetHash(s).digest = (s.hash \o <<first>>) \o (IF q > B THEN <<extra>> ELSE <<>>)
       /\ D!GetHash(s).state = [s EXCEPT !.buffer = first]
  <2>1. D!GetHash(s) = [digest |-> (s.hash \o <<first>>) \o (IF q > B THEN <<extra>> ELSE <<>>),
                        state |-> [s EXCEPT !.buffer = first]]
    BY <1>1, <1>5, <1>9, <1>10, Zenon DEF D!GetHash
  <2>3. PICK x, y : /\ x = (s.hash \o <<first>>) \o (IF q > B THEN <<extra>> ELSE <<>>)
                    /\ y = [s EXCEPT !.buffer = first]
    OBVIOUS
  <2>4. D!GetHash(s) = [digest |-> x, state |-> y]
    BY <2>1, <2>3, Zenon
  <2>5. D!GetHash(s).digest = x /\ D!GetHash(s).state = y
    BY <2>4
  <2> QED
    BY <2>3, <2>5, Zenon
<1>12. first = [i \in 1..B |-> PadOctet(m, total, p + i)]
  <2>1. \A i \in 1..B : i \in 1..(k * B)
    BY <1>6
  <2>2. \A i \in 1..B : D!Padding(s, i) = PadOctet(m, total, p + i)
    BY <1>8, <2>1
  <2> QED
    BY <1>9, <2>2, Zenon
<1>13. k = 2 => extra = [i \in 1..B |-> PadOctet(m, total, (p + B) + i)]
  <2> SUFFICES ASSUME k = 2
               PROVE  extra = [i \in 1..B |-> PadOctet(m, total, (p + B) + i)]
    OBVIOUS
  <2>1. \A i \in 1..B : B + i \in 1..(k * B) /\ p + (B + i) = (p + B) + i
    OBVIOUS
  <2>2. \A i \in 1..B : D!Padding(s, B + i) = PadOctet(m, total, (p + B) + i)
    <3> SUFFICES ASSUME NEW i \in 1..B
                 PROVE  D!Padding(s, B + i) = PadOctet(m, total, (p + B) + i)
      OBVIOUS
    <3>1. D!Padding(s, B + i) = PadOctet(m, total, p + (B + i))
      BY <1>8, <2>1
    <3> QED
      BY <2>1, <3>1
  <2> QED
    BY <1>10, <2>2, Zenon
<1> DEFINE Out(n) == [i \in 1..B |-> PadOctet(m, total, (n - 1) * B + i)]
<1>14. Padded(m) = [n \in 1..(b + k) |-> Out(n)]
  <2> DEFINE Form(t, c, z) == [n \in 1..c |-> [i \in 1..z |-> PadOctet(m, t, (n - 1) * z + i)]]
  <2>1. Len(m) = b * BlockSize + r
    BY <1>1, <1>2, <1>3
  <2>2. Padded(m) = Form((b + More(r)) * BlockSize, b + More(r), BlockSize)
    BY <2>1, PaddedIs
  <2> HIDE DEF Form
  <2>3. Padded(m) = Form(total, b + k, B)
    BY <1>1, <1>6, <1>7, <2>2, Zenon
  <2> QED
    BY <2>3, Zenon DEF Form
<1>15. \A n \in 1..b : Block(m, n) = Out(n)
  <2> SUFFICES ASSUME NEW n \in 1..b
               PROVE  Block(m, n) = Out(n)
    OBVIOUS
  <2>1. \A i \in 1..B : PadOctet(m, total, (n - 1) * B + i) = m[(n - 1) * B + i]
    <3>1. PICK a \in Nat : a = n - 1 /\ a < b
      OBVIOUS
    <3>2. a * B + B <= b * B /\ a * B \in Nat
      BY <3>1, TimesOrder, TimesNat
    <3>3. \A i \in 1..B : (n - 1) * B + i <= Len(m)
      BY <1>2, <1>3, <3>1, <3>2
    <3> QED
      BY <3>3, Zenon DEF PadOctet
  <2> QED
    BY <1>1, <2>1, Zenon DEF Block
<1>16. Out(b + 1) = first /\ (k = 2 => Out(b + 2) = extra)
  <2>1. ((b + 1) - 1) * B = p /\ ((b + 2) - 1) * B = p + B
    <3>1. (b + 1) * B = p + B
      BY <1>2, TimesSum
    <3>2. (b + 1) - 1 = b /\ (b + 2) - 1 = b + 1
      OBVIOUS
    <3> QED
      BY <1>2, <3>1, <3>2, Zenon
  <2> QED
    BY <1>12, <1>13, <2>1, Zenon
<1> HIDE DEF Out
<1>17. D!GetHash(s).digest = Padded(m)
  <2>1. PICK h : h = s.hash
    OBVIOUS
  <2>2. DOMAIN h = 1..b /\ h = [n \in 1..b |-> h[n]] /\ \A n \in 1..b : h[n] = Out(n)
    BY <1>4, <1>15, <2>1
  <2>3. PICK h1 : h1 = h \o <<first>>
    OBVIOUS
  <2>4. h1 = [n \in 1..(b + 1) |-> IF n <= b THEN h[n] ELSE first]
    BY <2>2, <2>3, JoinOne, SMTT(60)
  <2>5. h1 = [n \in 1..(b + 1) |-> Out(n)]
    <3>1. \A n \in 1..(b + 1) : (IF n <= b THEN h[n] ELSE first) = Out(n)
      <4>1. \A n \in 1..(b + 1) : n \in 1..b \/ n = b + 1
        OBVIOUS
      <4>2. \A n \in 1..b : n <= b
        OBVIOUS
      <4>3. ~(b + 1 <= b)
        OBVIOUS
      <4> QED
        BY <1>16, <2>2, <4>1, <4>2, <4>3
    <3> QED
      BY <2>4, <3>1
  <2>6. CASE k = 1
    <3>1. ~(q > B)
      BY <1>6, <2>6
    <3>2. D!GetHash(s).digest = h1 \o <<>>
      BY <1>11, <2>1, <2>3, <3>1, Zenon
    <3>3. h1 \o <<>> = h1
      <4>1. PICK c \in Nat : c = b + 1
        OBVIOUS
      <4>2. DOMAIN h1 = 1..c /\ h1 = [n \in 1..c |-> h1[n]]
        BY <2>5, <4>1
      <4> QED
        BY <4>2, JoinNone
    <3> QED
      BY <1>14, <2>5, <2>6, <3>2, <3>3
  <2>7. CASE k = 2
    <3>1. q > B
      BY <1>5, <1>6, <2>7
    <3>2. D!GetHash(s).digest = h1 \o <<extra>>
      BY <1>11, <2>1, <2>3, <3>1, Zenon
    <3>3. PICK c \in Nat : c = b + 1 /\ c + 1 = b + 2
      OBVIOUS
    <3>4. DOMAIN h1 = 1..c /\ h1 = [n \in 1..c |-> h1[n]] /\ \A n \in 1..c : h1[n] = Out(n)
      BY <2>5, <3>3
    <3>5. h1 \o <<extra>> = [n \in 1..(c + 1) |-> IF n <= c THEN h1[n] ELSE extra]
      BY <3>4, JoinOne, SMTT(60)
    <3>6. \A n \in 1..(c + 1) : (IF n <= c THEN h1[n] ELSE extra) = Out(n)
      <4>1. \A n \in 1..(c + 1) : n \in 1..c \/ n = c + 1
        OBVIOUS
      <4>2. \A n \in 1..c : n <= c
        OBVIOUS
      <4>3. ~(c + 1 <= c) /\ Out(c + 1) = extra
        BY <1>16, <2>7, <3>3
      <4> QED
        BY <3>4, <4>1, <4>2, <4>3
    <3>7. [n \in 1..(c + 1) |-> IF n <= c THEN h1[n] ELSE extra] = [n \in 1..(b + k) |-> Out(n)]
      BY <2>7, <3>3, <3>6
    <3> QED
      BY <1>14, <3>2, <3>5, <3>7, Zenon
  <2> QED
    BY <2>6, <2>7
<1>18. Taken(D!GetHash(s).state, m, b, r)
  <2>1. PICK t : t = [s EXCEPT !.buffer = first]
    OBVIOUS
  <2>2. t.hash = s.hash /\ t.buffer = first
        /\ t = [hash |-> t.hash, buffer |-> t.buffer, bufferSize |-> r, numBytes |-> p]
    BY <1>4, <2>1
  <2>3. DOMAIN first = 1..B
    BY <1>9
  <2>4. \A i \in 1..r : first[i] = m[p + i]
    <3>1. \A i \in 1..r : i \in 1..B /\ p + i <= Len(m)
      BY <1>1, <1>3
    <3>2. \A i \in 1..r : first[i] = PadOctet(m, total, p + i)
      BY <1>12, <3>1
    <3> QED
      BY <3>1, <3>2, ZenonT(60) DEF PadOctet
  <2>5. Taken(t, m, b, r)
    BY <1>1, <1>2, <1>3, <1>4, <2>2, <2>3, <2>4, Zenon DEF Taken
  <2> QED
    BY <1>11, <2>1, <2>5
<1> QED
  BY <1>17, <1>18

\* A function that is a sequence of so many, and such functions joined.
Listed(h, b) == DOMAIN h = 1..b /\ h = [n \in 1..b |-> h[n]]
WithOne(h, b, x) == [n \in 1..(b + 1) |-> IF n <= b THEN h[n] ELSE x]
WithMore(h, b, c, t) == [n \in 1..(b + c) |-> IF n <= b THEN h[n] ELSE t[n - b]]

LEMMA ListedJoins ==
  /\ \A b \in Nat : \A h, x : Listed(h, b) => h \o <<x>> = WithOne(h, b, x)
  /\ \A b, c \in Nat : \A h, t :
       Listed(h, b) /\ Listed(t, c) => h \o t = WithMore(h, b, c, t)
<1>1. ASSUME NEW b \in Nat, NEW h, NEW x, Listed(h, b)
      PROVE  h \o <<x>> = WithOne(h, b, x)
  BY <1>1, JoinOne DEF Listed, WithOne
<1>2. ASSUME NEW b \in Nat, NEW c \in Nat, NEW h, NEW t, Listed(h, b), Listed(t, c)
      PROVE  h \o t = WithMore(h, b, c, t)
  BY <1>2, JoinMore, SMTT(60) DEF Listed, WithMore
<1> QED
  BY <1>1, <1>2

\* A buffer with octets of data after the first z.
FilledWith(f, buffer, z, t) ==
  /\ DOMAIN f = 1..BlockSize /\ f = [i \in 1..BlockSize |-> f[i]]
  /\ \A i \in 1..BlockSize : /\ i <= z => f[i] = buffer[i]
                             /\ i > z /\ i <= z + Len(t) => f[i] = t[i - z]

LEMMA Filled ==
  ASSUME NEW buffer, NEW z \in Nat, NEW t \in Seq(Nat)
  PROVE  FilledWith(D!Fill(buffer, z + 1, t), buffer, z, t)
<1>1. PICK n \in Nat : n = Len(t)
  BY LenProperties
<1>2. PICK f : f = D!Fill(buffer, z + 1, t)
  OBVIOUS
<1>3. f = [i \in 1..BlockSize |-> IF i \in (z + 1)..((z + 1) + n - 1) THEN t[i - (z + 1) + 1]
                                  ELSE buffer[i]]
  BY <1>1, <1>2 DEF D!Fill
<1>4. DOMAIN f = 1..BlockSize /\ f = [i \in 1..BlockSize |-> f[i]]
  BY <1>3
<1>5. \A i \in 1..BlockSize : /\ i <= z => f[i] = buffer[i]
                              /\ i > z /\ i <= z + n => f[i] = t[i - z]
  <2> SUFFICES ASSUME NEW i \in 1..BlockSize
               PROVE  /\ i <= z => f[i] = buffer[i]
                      /\ i > z /\ i <= z + n => f[i] = t[i - z]
    OBVIOUS
  <2>1. f[i] = IF i \in (z + 1)..((z + 1) + n - 1) THEN t[i - (z + 1) + 1] ELSE buffer[i]
    BY <1>3
  <2>2. i <= z => i \notin (z + 1)..((z + 1) + n - 1)
    OBVIOUS
  <2>3. i > z /\ i <= z + n => i \in (z + 1)..((z + 1) + n - 1) /\ i - (z + 1) + 1 = i - z
    OBVIOUS
  <2> QED
    BY <2>1, <2>2, <2>3, Zenon
<1> QED
  BY <1>1, <1>2, <1>4, <1>5, Zenon DEF FilledWith

\* A slice of so many octets after the first u.
LEMMA SliceFrom ==
  ASSUME NEW d \in Seq(Nat), NEW u \in Nat, NEW v \in Nat, u <= v, v <= Len(d)
  PROVE  LET t == SubSeq(d, u + 1, v) IN
         t \in Seq(Nat) /\ Len(t) = v - u /\ \A i \in 1..(v - u) : t[i] = d[u + i]
<1>1. PICK a \in 1..(Len(d) + 1) : a = u + 1
  BY LenProperties
<1>2. v \in (a - 1)..Len(d) /\ (v - a) + 1 = v - u
  BY <1>1, LenProperties
<1>3. \A i \in 1..(v - u) : (a + i) - 1 = u + i
  BY <1>1
<1>4. PICK t : t = SubSeq(d, a, v)
  OBVIOUS
<1>5. /\ t \in Seq(Nat) /\ Len(t) = (v - a) + 1
      /\ \A i \in 1..((v - a) + 1) : t[i] = d[(a + i) - 1]
  BY <1>2, <1>4, Slice, SMTT(60)
<1> QED
  BY <1>1, <1>2, <1>3, <1>4, <1>5

\* What is added is taken after what was.
LEMMA AddTakes ==
  ASSUME NEW m \in Seq(Nat), NEW b \in Nat, NEW r \in 0..(BlockSize - 1),
         NEW s, Taken(s, m, b, r), NEW d \in Seq(Nat)
  PROVE  \E b2 \in Nat, r2 \in 0..(BlockSize - 1) : Taken(D!Add(s, d), m \o d, b2, r2)
<1>1. PICK B \in Nat \ {0} : B = BlockSize /\ r \in Nat /\ r < B
  BY SizesAssumption DEF Octets
<1>2. PICK p \in Nat : p = b * B
  BY TimesNat
<1>3. /\ s.hash = [n \in 1..b |-> Block(m, n)] /\ s.bufferSize = r /\ s.numBytes = p
      /\ DOMAIN s.buffer = 1..B /\ \A i \in 1..r : s.buffer[i] = m[p + i]
  BY <1>1, <1>2 DEF Taken
<1>4. PICK size \in Nat : size = Len(m) /\ size = p + r
  BY <1>1, <1>2, LenProperties DEF Taken
<1>5. PICK L \in Nat : L = Len(d)
  BY LenProperties
<1>6. PICK M \in Seq(Nat) : /\ M = m \o d /\ Len(M) = size + L
                            /\ \A i \in 1..(size + L) :
                                 /\ i <= size => M[i] = m[i]
                                 /\ i > size => M[i] = d[i - size]
  <2>1. /\ m \o d \in Seq(Nat) /\ Len(m \o d) = Len(m) + Len(d)
        /\ \A i \in 1..(Len(m) + Len(d)) : (m \o d)[i] = IF i <= Len(m) THEN m[i] ELSE d[i - Len(m)]
    BY ConcatProperties
  <2>2. PICK w : w = m \o d
    OBVIOUS
  <2>3. /\ w \in Seq(Nat) /\ Len(w) = size + L
        /\ \A i \in 1..(size + L) : w[i] = IF i <= size THEN m[i] ELSE d[i - size]
    BY <1>4, <1>5, <2>1, <2>2, Zenon
  <2>4. ASSUME NEW i \in 1..(size + L)
        PROVE  /\ i <= size => w[i] = m[i]
               /\ i > size => w[i] = d[i - size]
    <3>1. i > size => ~(i <= size)
      OBVIOUS
    <3> QED
      BY <2>3, <3>1, Zenon
  <2> QED
    BY <2>2, <2>3, <2>4, Zenon
<1>7. PICK F \in Nat : F = (IF r = 0 THEN 0 ELSE IF L < B - r THEN L ELSE B - r)
  <2>1. B - r \in Nat
    BY <1>1
  <2> QED
    BY <2>1
<1>8. F <= L /\ r + F <= B /\ (r + F # B => F = L \/ (F = 0 /\ r = 0))
  BY <1>1, <1>7
<1>9. PICK q \in {0, 1} : q = (IF r + F = B THEN 1 ELSE 0)
  OBVIOUS
<1>10. PICK c \in Nat, e \in 0..(B - 1), g \in Nat :
          c = (L - F) \div B /\ g = c * B /\ L = F + g + e
  <2>1. PICK a \in Nat : a = L - F
    BY <1>8
  <2>2. a \div B \in Nat /\ a % B \in 0..(B - 1) /\ a = (a \div B) * B + (a % B)
    BY Quotient
  <2>3. PICK c \in Nat : c = a \div B
    BY <2>2
  <2>4. PICK g \in Nat : g = c * B
    BY TimesNat
  <2>5. PICK e \in 0..(B - 1) : e = a % B
    BY <2>2
  <2>6. a = g + e
    BY <2>2, <2>3, <2>4, <2>5, Zenon
  <2>7. L = F + g + e
    BY <2>1, <2>6
  <2> QED
    BY <2>1, <2>3, <2>4, <2>7, Zenon
<1>40. e \in Nat /\ e < B /\ L = F + g + e
  BY <1>10
<1>11. F = L => c = 0 /\ g = 0 /\ e = 0
  <2> SUFFICES ASSUME F = L
               PROVE  c = 0 /\ g = 0 /\ e = 0
    OBVIOUS
  <2>1. g = 0 /\ e = 0
    BY <1>40
  <2>2. c # 0 => 0 * B + B <= c * B
    BY TimesOrder
  <2> QED
    BY <1>10, <2>1, <2>2
<1>12. PICK z \in Nat : z = (IF r + F = B THEN 0 ELSE r + F)
  BY <1>1
<1>13. PICK Q \in Nat : Q = q * B /\ Q = (IF r + F = B THEN B ELSE 0)
  BY <1>9
<1>41. Q + z = r + F
  BY <1>1, <1>12, <1>13
<1>14. z = 0 \/ (Q = 0 /\ q = 0 /\ c = 0 /\ g = 0 /\ e = 0)
  BY <1>8, <1>9, <1>11, <1>12, <1>1, <1>13
<1>15. PICK b2 \in Nat : b2 = b + q + c
  BY <1>9
<1>16. PICK r2 \in 0..(B - 1) : r2 = z + e
  BY <1>8, <1>40, <1>12, <1>14, <1>1
<1>17. PICK P \in Nat : P = b2 * B /\ P = p + Q + g /\ p + (c + q) * B = P
  <2>1. (b + q + c) * B = b * B + q * B + c * B /\ (c + q) * B = c * B + q * B
    BY <1>9
  <2>2. g = c * B
    BY <1>10
  <2> QED
    BY <1>2, <1>13, <1>15, <2>1, <2>2
<1>18. Len(M) = P + r2
  BY <1>4, <1>6, <1>40, <1>41, <1>16, <1>17
<1>19. PICK t \in Seq(Nat) : t = SubSeq(d, 1, F) /\ Len(t) = F /\ \A i \in 1..F : t[i] = d[i]
  <2>1. /\ SubSeq(d, 0 + 1, F) \in Seq(Nat) /\ Len(SubSeq(d, 0 + 1, F)) = F - 0
        /\ \A i \in 1..(F - 0) : SubSeq(d, 0 + 1, F)[i] = d[0 + i]
    BY <1>5, <1>8, SliceFrom, SMTT(60)
  <2>2. 0 + 1 = 1 /\ F - 0 = F /\ \A i \in 1..F : 0 + i = i
    BY <1>8
  <2> QED
    BY <2>1, <2>2
<1>20. PICK f : f = D!Fill(s.buffer, r + 1, t)
  OBVIOUS
<1>21. f = [i \in 1..B |-> f[i]] /\ \A i \in 1..(r + F) : f[i] = M[p + i]
  <2>1. f = [i \in 1..B |-> f[i]]
        /\ \A i \in 1..B : /\ i <= r => f[i] = s.buffer[i]
                           /\ i > r /\ i <= r + F => f[i] = t[i - r]
    <3>1. /\ f = [i \in 1..BlockSize |-> f[i]]
          /\ \A i \in 1..BlockSize : /\ i <= r => f[i] = s.buffer[i]
                                     /\ i > r /\ i <= r + Len(t) => f[i] = t[i - r]
      <4>1. FilledWith(f, s.buffer, r, t)
        BY <1>1, <1>20, Filled, Zenon
      <4> QED
        BY <4>1, Zenon DEF FilledWith
    <3> QED
      BY <1>1, <1>19, <3>1, Zenon
  <2>2. ASSUME NEW i \in 1..(r + F)
        PROVE  f[i] = M[p + i]
    <3>1. i \in 1..B /\ p + i \in 1..(size + L)
      BY <1>1, <1>4, <1>8
    <3>2. CASE i <= r
      <4>1. i \in 1..r /\ p + i <= size
        BY <1>1, <1>4, <1>8, <3>2
      <4>2. f[i] = s.buffer[i] /\ s.buffer[i] = m[p + i]
        BY <1>3, <2>1, <3>1, <3>2, <4>1, Zenon
      <4>3. M[p + i] = m[p + i]
        BY <1>6, <3>1, <4>1, Zenon
      <4> QED
        BY <4>2, <4>3, Zenon
    <3>3. CASE ~(i <= r)
      <4>1. i > r /\ i <= r + F /\ i - r \in 1..F /\ p + i > size /\ (p + i) - size = i - r
        BY <1>1, <1>4, <1>8, <3>3
      <4>2. f[i] = t[i - r] /\ t[i - r] = d[i - r]
        BY <1>19, <2>1, <3>1, <4>1, Zenon
      <4>3. M[p + i] = d[i - r]
        BY <1>6, <3>1, <4>1, Zenon
      <4> QED
        BY <4>2, <4>3, Zenon
    <3> QED
      BY <3>2, <3>3
  <2> QED
    BY <2>1, <2>2
<1>22. PICK kept \in Seq(Nat) : /\ kept = SubSeq(d, F + g + 1, L) /\ Len(kept) = e
                                /\ \A i \in 1..e : kept[i] = d[(F + g) + i]
  <2>1. PICK u \in Nat : u = F + g /\ u <= L /\ L - u = e
    BY <1>40
  <2>2. L <= Len(d)
    BY <1>5
  <2>3. /\ SubSeq(d, u + 1, L) \in Seq(Nat) /\ Len(SubSeq(d, u + 1, L)) = L - u
        /\ \A i \in 1..(L - u) : SubSeq(d, u + 1, L)[i] = d[u + i]
    BY <2>1, <2>2, SliceFrom, SMTT(60)
  <2> QED
    BY <2>1, <2>3, Zenon
<1>23. PICK last : last = D!Fill(f, z + 1, kept)
  OBVIOUS
<1>24. DOMAIN last = 1..B /\ \A i \in 1..r2 : last[i] = M[P + i]
  <2>1. DOMAIN last = 1..B
        /\ \A i \in 1..B : /\ i <= z => last[i] = f[i]
                           /\ i > z /\ i <= z + e => last[i] = kept[i - z]
    <3>1. /\ DOMAIN last = 1..BlockSize
          /\ \A i \in 1..BlockSize : /\ i <= z => last[i] = f[i]
                                     /\ i > z /\ i <= z + Len(kept) => last[i] = kept[i - z]
      <4>1. FilledWith(last, f, z, kept)
        BY <1>23, Filled, Zenon
      <4> QED
        BY <4>1, Zenon DEF FilledWith
    <3> QED
      BY <1>1, <1>22, <3>1, Zenon
  <2>2. ASSUME NEW i \in 1..r2
        PROVE  last[i] = M[P + i]
    <3>0. i \in 1..B /\ i <= z + e
      BY <1>16
    <3>1. PICK j \in Nat : j = P + i
      OBVIOUS
    <3>4. j = p + Q + g + i
      BY <1>17, <3>1
    <3>2. CASE i <= z
      <4>1. Q = 0 /\ g = 0 /\ z = r + F
        BY <1>14, <1>41, <3>0, <3>2
      <4>2. i \in 1..(r + F) /\ j = p + i
        BY <3>0, <3>2, <3>4, <4>1
      <4> QED
        BY <1>21, <2>1, <3>0, <3>1, <3>2, <4>2, Zenon
    <3>3. CASE ~(i <= z)
      <4>1. i > z /\ i - z \in 1..e
        BY <1>40, <3>0, <3>3
      <4>2. j - size = (F + g) + (i - z)
        BY <1>4, <1>41, <3>0, <3>4
      <4>3. j > size /\ j \in 1..(size + L)
        BY <1>40, <4>1, <4>2
      <4> QED
        <5>1. last[i] = kept[i - z] /\ kept[i - z] = d[(F + g) + (i - z)]
          BY <1>22, <2>1, <3>0, <4>1, Zenon
        <5>2. M[j] = d[j - size]
          BY <1>6, <4>3, Zenon
        <5> QED
          BY <3>1, <4>2, <5>1, <5>2, Zenon
    <3> QED
      BY <3>2, <3>3
  <2> QED
    BY <2>1, <2>2
<1>25. PICK more : more = [n \in 1..c |-> SubSeq(d, F + (n - 1) * B + 1, F + n * B)]
  OBVIOUS
<1>26. \A n \in 1..c : more[n] = Block(M, (b + q) + n)
  <2> SUFFICES ASSUME NEW n \in 1..c
               PROVE  more[n] = Block(M, (b + q) + n)
    OBVIOUS
  <2>0. PICK k \in Nat : k = n - 1 /\ k < c /\ n = k + 1
    OBVIOUS
  <2>1. PICK v \in Nat : v = (n - 1) * B /\ n * B = v + B /\ v + B <= g /\ v = k * B
    <3>2. k * B + B <= c * B /\ k * B \in Nat /\ (k + 1) * B = k * B + 1 * B /\ 1 * B = B
      BY <2>0, TimesOrder, TimesNat, TimesSum
    <3>3. PICK v \in Nat : v = k * B
      BY <3>2
    <3>4. v + B <= g /\ n * B = v + B
      BY <1>10, <2>0, <3>2, <3>3
    <3> QED
      BY <2>0, <3>3, <3>4
  <2>2. PICK u \in Nat : u = F + v /\ u <= u + B /\ u + B <= L
    <3>0. v + B <= g
      BY <2>1
    <3>1. F + v \in Nat /\ F + v + B <= L
      BY <1>40, <3>0
    <3> QED
      BY <3>1
  <2>3. PICK w \in Seq(Nat) : w = SubSeq(d, u + 1, u + B) /\ Len(w) = B
                              /\ \A i \in 1..B : w[i] = d[u + i]
    <3>1. PICK x \in Nat : x = u + B /\ x - u = B /\ u <= x /\ x <= L
      BY <2>2
    <3>2. /\ SubSeq(d, u + 1, x) \in Seq(Nat) /\ Len(SubSeq(d, u + 1, x)) = x - u
          /\ \A i \in 1..(x - u) : SubSeq(d, u + 1, x)[i] = d[u + i]
      BY <1>5, <3>1, SliceFrom
    <3> QED
      BY <3>1, <3>2, Zenon
  <2>4. more[n] = w
    <3>1. F + (n - 1) * B + 1 = u + 1 /\ F + n * B = u + B
      <4>1. PICK y, x : y = (n - 1) * B /\ x = n * B /\ y = v /\ x = v + B
        BY <2>1
      <4>2. F + y + 1 = u + 1 /\ F + x = u + B
        BY <2>2, <4>1
      <4> QED
        BY <4>1, <4>2, Zenon
    <3> QED
      BY <1>25, <2>3, <3>1
  <2>5. PICK a \in Nat : a = (((b + q) + n) - 1) * B /\ a = p + Q + v
    <3>1. ((b + q) + n) - 1 = (b + q) + k
      BY <1>9, <2>0
    <3>2. ((b + q) + k) * B = b * B + q * B + k * B
      BY <1>9
    <3>3. ((b + q) + k) * B = p + Q + v
      BY <1>2, <1>13, <2>1, <3>2, Zenon
    <3>4. p + Q + v \in Nat
      OBVIOUS
    <3> QED
      BY <3>1, <3>3, <3>4, Zenon
  <2>6. z = 0
    <3>1. c # 0
      OBVIOUS
    <3> QED
      BY <1>14, <3>1, Zenon
  <2>7. \A i \in 1..B : M[a + i] = d[u + i]
    <3> SUFFICES ASSUME NEW i \in 1..B
                 PROVE  M[a + i] = d[u + i]
      OBVIOUS
    <3>1. PICK x \in Nat : x = a + i /\ i \in Nat /\ i >= 1 /\ i <= B
      OBVIOUS
    <3>2. Q = r + F
      BY <1>41, <2>6
    <3>3. x = size + (u + i)
      BY <1>4, <2>2, <2>5, <3>1, <3>2
    <3>4. x > size /\ x \in 1..(size + L) /\ x - size = u + i
      BY <2>2, <3>1, <3>3
    <3> QED
      BY <1>6, <3>1, <3>4
  <2>8. w = [i \in 1..B |-> w[i]]
    <3>1. Len(w) = B
      BY <2>3, Zenon
    <3> HIDE <2>3, <2>7
    <3> QED
      BY <3>1, SeqFun
  <2>9. w = [i \in 1..B |-> M[a + i]]
    BY <2>3, <2>7, <2>8
  <2>10. Block(M, (b + q) + n) = [i \in 1..B |-> M[a + i]]
    BY <1>1, <2>5, Zenon DEF Block
  <2> QED
    BY <2>4, <2>9, <2>10, Zenon
<1>27. \A n \in 1..b : s.hash[n] = Block(M, n)
  <2> SUFFICES ASSUME NEW n \in 1..b
               PROVE  Block(m, n) = Block(M, n)
    BY <1>3
  <2>1. PICK k \in Nat : k = n - 1 /\ k < b
    OBVIOUS
  <2>2. PICK v \in Nat : v = k * B /\ v + B <= p
    BY <1>2, <2>1, TimesOrder, TimesNat
  <2>3. \A i \in 1..B : v + i \in 1..(size + L) /\ v + i <= size
    <3>1. v + B <= size
      BY <1>4, <2>2
    <3> QED
      BY <3>1
  <2>4. \A i \in 1..B : m[v + i] = M[v + i]
    BY <1>6, <2>3
  <2>5. [i \in 1..B |-> m[v + i]] = [i \in 1..B |-> M[v + i]]
    BY <2>4, Zenon
  <2>6. \A x : Block(x, n) = [i \in 1..B |-> x[v + i]]
    BY <1>1, <2>1, <2>2, Zenon DEF Block
  <2> QED
    BY <2>5, <2>6, Zenon
<1>28. q = 1 => f = Block(M, b + 1)
  <2> SUFFICES ASSUME q = 1
               PROVE  f = Block(M, b + 1)
    OBVIOUS
  <2>1. r + F = B
    BY <1>9
  <2>2. (b + 1) - 1 = b
    OBVIOUS
  <2>3. Block(M, b + 1) = [i \in 1..B |-> M[p + i]]
    BY <1>1, <1>2, <2>2, Zenon DEF Block
  <2>4. \A i \in 1..B : f[i] = M[p + i]
    BY <1>21, <2>1
  <2> QED
    BY <1>21, <2>3, <2>4, Zenon
<1>29. PICK h : h = s.hash \o (IF r + F = B THEN <<f>> ELSE <<>>)
  OBVIOUS
<1>30. h = [n \in 1..(b + q) |-> Block(M, n)]
  <2>1. PICK a : a = s.hash
    OBVIOUS
  <2>2. DOMAIN a = 1..b /\ a = [n \in 1..b |-> a[n]] /\ \A n \in 1..b : a[n] = Block(M, n)
    BY <1>3, <1>27, <2>1
  <2>3. /\ a \o <<f>> = [n \in 1..(b + 1) |-> IF n <= b THEN a[n] ELSE f]
        /\ a \o <<>> = a
    <3>1. a \o <<f>> = [n \in 1..(b + 1) |-> IF n <= b THEN a[n] ELSE f]
      <4>1. DOMAIN a = 1..b /\ a = [n \in 1..b |-> a[n]]
        BY <2>2, Zenon
      <4> QED
        <5>1. Listed(a, b)
          BY <4>1, Zenon DEF Listed
        <5>2. a \o <<f>> = WithOne(a, b, f)
          BY <5>1, ListedJoins, SMTT(60)
        <5> QED
          BY <5>2, Zenon DEF WithOne
    <3>2. a \o <<>> = a
      BY <2>2, JoinNone
    <3> QED
      BY <3>1, <3>2, Zenon
  <2>4. CASE r + F = B
    <3>1. q = 1
      BY <1>9, <2>4
    <3>2. h = a \o <<f>>
      BY <1>29, <2>1, <2>4, Zenon
    <3>3. \A n \in 1..(b + 1) : (IF n <= b THEN a[n] ELSE f) = Block(M, n)
      <4>1. \A n \in 1..(b + 1) : (n \in 1..b /\ n <= b) \/ (n = b + 1 /\ ~(n <= b))
        OBVIOUS
      <4> QED
        BY <1>28, <2>2, <3>1, <4>1
    <3>4. [n \in 1..(b + 1) |-> IF n <= b THEN a[n] ELSE f] = [n \in 1..(b + 1) |-> Block(M, n)]
      BY <3>3
    <3> QED
      BY <2>3, <3>1, <3>2, <3>4, Zenon
  <2>5. CASE r + F # B
    <3>1. q = 0 /\ b + q = b
      BY <1>9, <2>5
    <3>2. h = a
      BY <1>29, <2>1, <2>3, <2>5, Zenon
    <3> QED
      BY <2>2, <3>1, <3>2
  <2> QED
    BY <2>4, <2>5
<1>31. h \o more = [n \in 1..b2 |-> Block(M, n)]
  <2>1. PICK a \in Nat : a = b + q /\ b2 = a + c
    BY <1>9, <1>15
  <2>2. DOMAIN h = 1..a /\ h = [n \in 1..a |-> h[n]] /\ \A n \in 1..a : h[n] = Block(M, n)
    BY <1>30, <2>1
  <2>3. more = [n \in 1..c |-> more[n]]
    BY <1>25
  <2>4. h \o more = [n \in 1..(a + c) |-> IF n <= a THEN h[n] ELSE more[n - a]]
    <3>1. DOMAIN more = 1..c
      BY <1>25
    <3> QED
      <4>1. DOMAIN h = 1..a /\ h = [n \in 1..a |-> h[n]]
        BY <2>2, Zenon
      <4> QED
        <5>1. Listed(h, a) /\ Listed(more, c)
          BY <2>3, <3>1, <4>1, Zenon DEF Listed
        <5>2. h \o more = WithMore(h, a, c, more)
          BY <5>1, ListedJoins, SMTT(60)
        <5> QED
          BY <5>2, Zenon DEF WithMore
  <2>5. \A n \in 1..(a + c) : (IF n <= a THEN h[n] ELSE more[n - a]) = Block(M, n)
    <3>1. \A n \in 1..(a + c) : \/ n \in 1..a /\ n <= a
                                \/ n - a \in 1..c /\ a + (n - a) = n /\ ~(n <= a)
      OBVIOUS
    <3>2. \A n \in 1..c : more[n] = Block(M, a + n)
      BY <1>26, <2>1
    <3> QED
      BY <2>2, <3>1, <3>2
  <2>6. [n \in 1..(a + c) |-> IF n <= a THEN h[n] ELSE more[n - a]]
          = [n \in 1..(a + c) |-> Block(M, n)]
    BY <2>5
  <2> QED
    BY <2>1, <2>4, <2>6, Zenon
<1>32. PICK x, y : x = z + Len(kept) /\ y = p + (c + q) * B
  OBVIOUS
<1>33. D!Add(s, d) = [hash |-> h \o more, buffer |-> last, bufferSize |-> x, numBytes |-> y]
  <2> DEFINE fill == IF s.bufferSize = 0 THEN 0
                     ELSE IF Len(d) < BlockSize - s.bufferSize THEN Len(d)
                     ELSE BlockSize - s.bufferSize
             buffer == D!Fill(s.buffer, s.bufferSize + 1, SubSeq(d, 1, fill))
             blocks == (Len(d) - fill) \div BlockSize
             rest == SubSeq(d, fill + blocks * BlockSize + 1, Len(d))
             size2 == IF s.bufferSize + fill = BlockSize THEN 0 ELSE s.bufferSize + fill
  <2>1. fill = F
    BY <1>1, <1>3, <1>5, <1>7, Zenon
  <2>2. buffer = f
    BY <1>3, <1>19, <1>20, <2>1, Zenon
  <2>3. blocks = c
    BY <1>1, <1>5, <1>10, <2>1, Zenon
  <2>4. rest = kept
    <3>1. F + c * BlockSize + 1 = F + g + 1
      BY <1>1, <1>10, Zenon
    <3> QED
      BY <1>5, <1>22, <2>1, <2>3, <3>1, Zenon
  <2>5. size2 = z
    BY <1>1, <1>3, <1>12, <2>1, Zenon
  <2> DEFINE end == [n \in 1..blocks |-> SubSeq(d, fill + (n - 1) * BlockSize + 1, fill + n * BlockSize)]
  <2>6. end = more
    <3> HIDE DEF fill, blocks
    <3>1. fill = F /\ blocks = c /\ BlockSize = B
      BY <1>1, <2>1, <2>3
    <3> DEFINE Form(u, v, w) == [n \in 1..v |-> SubSeq(d, u + (n - 1) * w + 1, u + n * w)]
    <3>2. end = Form(fill, blocks, BlockSize) /\ more = Form(F, c, B)
      BY <1>25, ZenonT(60)
    <3> HIDE DEF Form, end
    <3> QED
      BY <3>1, <3>2, Zenon
  <2> DEFINE hash2 == (s.hash \o (IF s.bufferSize + fill = BlockSize THEN <<buffer>> ELSE <<>>)) \o end
             bytes2 == s.numBytes + (blocks + (IF s.bufferSize + fill = BlockSize THEN 1 ELSE 0)) * BlockSize
  <2>7. D!Add(s, d) = [hash |-> hash2, buffer |-> D!Fill(buffer, size2 + 1, rest),
                       bufferSize |-> size2 + Len(rest), numBytes |-> bytes2]
    BY ZenonT(60) DEF D!Add
  <2> HIDE DEF fill, buffer, blocks, rest, size2, end
  <2>8. hash2 = h \o more
    BY <1>1, <1>3, <1>29, <2>1, <2>2, <2>6, Zenon
  <2>9. bytes2 = y
    <3>1. (IF s.bufferSize + fill = BlockSize THEN 1 ELSE 0) = q
      BY <1>1, <1>3, <1>9, <2>1, Zenon
    <3> QED
      BY <1>1, <1>3, <1>32, <2>3, <3>1, Zenon
  <2> HIDE DEF hash2, bytes2
  <2> QED
    BY <1>23, <1>32, <2>2, <2>4, <2>5, <2>7, <2>8, <2>9, Zenon
<1>34. x = r2 /\ y = P
  BY <1>16, <1>17, <1>22, <1>32, SMTT(60)
<1>35. PICK w : w = D!Add(s, d)
  OBVIOUS
<1>36. PICK k : k = h \o more
  OBVIOUS
<1>37. w = [hash |-> k, buffer |-> last, bufferSize |-> r2, numBytes |-> P]
  BY <1>33, <1>34, <1>35, <1>36, Zenon
<1>38. w.hash = k /\ w.buffer = last
       /\ w = [hash |-> w.hash, buffer |-> w.buffer, bufferSize |-> r2, numBytes |-> P]
  BY <1>37
<1>39. Taken(w, M, b2, r2)
  BY <1>1, <1>17, <1>18, <1>24, <1>31, <1>36, <1>38, Zenon DEF Taken
<1> QED
  BY <1>1, <1>6, <1>35, <1>39

\* The turns of Hashed.
LEMMA HashTurns ==
  ASSUME NEW N \in Nat, N = Len(input)
  PROVE  \E u :
               /\ u[0] = [state |-> D!Reset, size |-> 0]
               /\ \A n \in 1..N : u[n] = IF input[n] = Ask THEN [u[n - 1] EXCEPT !.state = D!GetHash(@).state]
                 ELSE [state |-> D!Add(u[n - 1].state, [i \in 1..input[n] |-> Octet(u[n - 1].size + i)]),
                       size |-> u[n - 1].size + input[n]]
               /\ Hashed = u[N]
<1> DEFINE Step(n, p) == IF input[n] = Ask THEN [p EXCEPT !.state = D!GetHash(@).state]
                 ELSE [state |-> D!Add(p.state, [i \in 1..input[n] |-> Octet(p.size + i)]),
                       size |-> p.size + input[n]]
           Start == [state |-> D!Reset, size |-> 0]
           F(g, m) == [n \in 0..m |-> IF n = 0 THEN Start ELSE Step(n, g[n - 1])]
           Upto == {m \in 0..N : \E g : g = F(g, m)}
           G == CHOOSE g : g = F(g, N)
<1>1. Hashed = G[N]
  BY Zenon DEF Hashed
<1> HIDE DEF Step, Start
<1>2. 0 \in Upto
  <2>1. F(<<>>, 0) = F(F(<<>>, 0), 0)
    OBVIOUS
  <2> HIDE DEF F
  <2> QED
    BY <2>1
<1>3. ASSUME NEW m \in 1..N, m - 1 \in Upto
      PROVE  m \in Upto
  <2>1. PICK g : g = F(g, m - 1)
    BY <1>3
  <2> DEFINE h == F(g, m)
  <2>2. \A n \in 1..m : h[n - 1] = g[n - 1]
    BY <2>1
  <2> HIDE DEF h
  <2>3. \A n \in 0..m : (IF n = 0 THEN Start ELSE Step(n, g[n - 1]))
                            = (IF n = 0 THEN Start ELSE Step(n, h[n - 1]))
    BY <2>2
  <2>4. F(g, m) = F(h, m)
    BY <2>3
  <2> HIDE DEF F, h
  <2> QED
    BY <2>4 DEF h
<1>4. N \in Upto
  <2> HIDE DEF Upto
  <2>1. \A m \in 1..N : m - 1 \in Upto => m \in Upto
    BY <1>3
  <2>2. \A m \in 0..N : m \in Upto
    BY <1>2, <2>1, UpTo
  <2> QED
    BY <2>2
<1>5. G = F(G, N)
  <2> HIDE DEF F
  <2> QED
    BY <1>4
<1>6. G[0] = Start /\ \A n \in 1..N : G[n] = Step(n, G[n - 1])
  <2> HIDE DEF G
  <2> QED
    BY <1>5
<1> HIDE DEF G
<1> QED
  BY <1>1, <1>6, Zenon DEF Start, Step

\* The message of so many octets.
Message(k) == [i \in 1..k |-> Octet(i)]

LEMMA MessageSeq ==
  ASSUME NEW k \in Nat
  PROVE  Message(k) \in Seq(Nat) /\ Len(Message(k)) = k
<1>1. \A i \in 1..k : Octet(i) \in Nat
  BY DEF Octet
<1>2. Message(k) \in [1..k -> Nat]
  BY <1>1 DEF Message
<1> QED
  BY <1>2, FunSeq

LEMMA MessageOn ==
  ASSUME NEW k \in Nat, NEW x \in Nat
  PROVE  /\ [i \in 1..x |-> Octet(k + i)] \in Seq(Nat)
         /\ Message(k) \o [i \in 1..x |-> Octet(k + i)] = Message(k + x)
<1>1. PICK t : t = [i \in 1..x |-> Octet(k + i)]
  OBVIOUS
<1>2. t \in Seq(Nat)
  <2>1. \A i \in 1..x : Octet(k + i) \in Nat
    BY DEF Octet
  <2>2. t \in [1..x -> Nat]
    BY <1>1, <2>1
  <2> QED
    BY <2>2, FunSeq
<1>3. PICK h : h = Message(k)
  OBVIOUS
<1>4. Listed(h, k) /\ Listed(t, x)
  BY <1>1, <1>3 DEF Listed, Message
<1>5. h \o t = WithMore(h, k, x, t)
  BY <1>4, ListedJoins
<1>6. \A n \in 1..(k + x) : (IF n <= k THEN h[n] ELSE t[n - k]) = Octet(n)
  <2> SUFFICES ASSUME NEW n \in 1..(k + x)
               PROVE  (IF n <= k THEN h[n] ELSE t[n - k]) = Octet(n)
    OBVIOUS
  <2>1. CASE n <= k
    BY <1>3, <2>1 DEF Message
  <2>2. CASE ~(n <= k)
    <3>1. n - k \in 1..x /\ k + (n - k) = n
      BY <2>2
    <3>2. t[n - k] = Octet(k + (n - k))
      BY <1>1, <3>1
    <3> QED
      BY <2>2, <3>1, <3>2, Zenon
  <2> QED
    BY <2>1, <2>2
<1>7. WithMore(h, k, x, t) = Message(k + x)
  BY <1>6, Zenon DEF WithMore, Message
<1> QED
  BY <1>1, <1>2, <1>3, <1>5, <1>7, Zenon

\* What is true after each call.
Hashing(p) ==
  /\ p = [state |-> p.state, size |-> p.size] /\ p.size \in Nat
  /\ \E b \in Nat, r \in 0..(BlockSize - 1) : Taken(p.state, Message(p.size), b, r)

LEMMA NothingTaken == Taken(D!Reset, <<>>, 0, 0)
<1>1. PICK B \in Nat \ {0} : B = BlockSize /\ 0 * B = 0
  BY SizesAssumption DEF Octets
<1>2. PICK s : s = [hash |-> <<>>, buffer |-> [i \in 1..B |-> 0], bufferSize |-> 0, numBytes |-> 0]
  OBVIOUS
<1>3. D!Reset = s
  BY <1>1, <1>2, Zenon DEF D!Reset
<1>4. <<>> = [n \in 1..0 |-> Block(<<>>, n)]
  OBVIOUS
<1>5. /\ s = [hash |-> s.hash, buffer |-> s.buffer, bufferSize |-> 0, numBytes |-> 0]
      /\ s.hash = <<>> /\ DOMAIN s.buffer = 1..B
  BY <1>2
<1>6. \A i \in 1..0 : FALSE
  OBVIOUS
<1>7. Len(<<>>) = 0 * B + 0 /\ 0 = 0 * B
  BY <1>1
<1> QED
  BY <1>1, <1>3, <1>4, <1>5, <1>6, <1>7, Zenon DEF Taken

LEMMA HashStarts == Hashing([state |-> D!Reset, size |-> 0])
<1>1. PICK z : z = D!Reset
  OBVIOUS
<1>2. PICK p : p = [state |-> z, size |-> 0]
  OBVIOUS
<1>3. p.state = z /\ p.size = 0 /\ p = [state |-> p.state, size |-> p.size]
  BY <1>2
<1>4. Message(0) = <<>>
  BY DEF Message
<1>5. 0 \in Nat /\ 0 \in 0..(BlockSize - 1)
  BY SizesAssumption DEF Octets
<1>6. Taken(p.state, Message(p.size), 0, 0)
  BY <1>1, <1>3, <1>4, NothingTaken, Zenon
<1> QED
  BY <1>1, <1>2, <1>3, <1>5, <1>6, Zenon DEF Hashing

LEMMA HashGoesOn ==
  ASSUME NEW p, Hashing(p), NEW x \in Nat \cup {Ask}
  PROVE  Hashing(IF x = Ask THEN [p EXCEPT !.state = D!GetHash(@).state]
                 ELSE [state |-> D!Add(p.state, [i \in 1..x |-> Octet(p.size + i)]),
                       size |-> p.size + x])
<1>0. PICK k \in Nat : k = p.size
  BY DEF Hashing
<1>1. PICK s : k = p.size /\ s = p.state /\ p = [state |-> s, size |-> k]
  BY <1>0 DEF Hashing
<1>2. PICK b \in Nat, r \in 0..(BlockSize - 1) : Taken(s, Message(k), b, r)
  BY <1>1 DEF Hashing
<1>3. ASSUME NEW b2 \in Nat, NEW r2 \in 0..(BlockSize - 1), NEW z, NEW j \in Nat,
             Taken(z, Message(j), b2, r2)
      PROVE  Hashing([state |-> z, size |-> j])
  <2>1. PICK u : u = [state |-> z, size |-> j]
    OBVIOUS
  <2>2. u.state = z /\ u.size = j
    BY <2>1
  <2> QED
    BY <1>3, <2>1, <2>2, Zenon DEF Hashing
<1>4. CASE x = Ask
  <2>1. PICK z : z = D!GetHash(s).state
    OBVIOUS
  <2>2. [p EXCEPT !.state = D!GetHash(@).state] = [state |-> z, size |-> k]
    <3>1. [p EXCEPT !.state = z] = [state |-> z, size |-> k]
      BY <1>1
    <3>2. [p EXCEPT !.state = D!GetHash(@).state] = [p EXCEPT !.state = z]
      BY <1>1, <2>1, Zenon
    <3> QED
      BY <3>1, <3>2, Zenon
  <2>3. Taken(z, Message(k), b, r)
    BY <1>2, <2>1, MessageSeq, DigestIs
  <2>4. Hashing([state |-> z, size |-> k])
    BY <1>3, <2>3
  <2> QED
    BY <1>4, <2>2, <2>4, Zenon
<1>5. CASE x # Ask
  <2>1. x \in Nat
    BY <1>5
  <2>2. PICK d \in Seq(Nat) : d = [i \in 1..x |-> Octet(k + i)] /\ Message(k) \o d = Message(k + x)
    BY <2>1, MessageOn
  <2>3. PICK m \in Seq(Nat) : m = Message(k)
    BY MessageSeq
  <2>4. PICK z : z = D!Add(s, d)
    OBVIOUS
  <2>5. Taken(s, m, b, r)
    BY <1>2, <2>3
  <2>6. PICK b2 \in Nat, r2 \in 0..(BlockSize - 1) : Taken(D!Add(s, d), m \o d, b2, r2)
    BY <2>5, AddTakes
  <2>7. Taken(z, Message(k + x), b2, r2)
    BY <2>2, <2>3, <2>4, <2>6, Zenon
  <2>8. PICK j \in Nat : j = k + x
    BY <2>1
  <2>9. Hashing([state |-> z, size |-> j])
    BY <1>3, <2>7, <2>8
  <2> QED
    BY <1>1, <1>5, <2>2, <2>4, <2>8, <2>9, Zenon
<1> QED
  BY <1>4, <1>5

LEMMA HashedIs ==
  ASSUME input \in Seq(Nat \cup {Ask})
  PROVE  Hashing(Hashed)
<1>1. PICK N \in Nat : N = Len(input)
  BY LenProperties
<1>2. PICK u : /\ u[0] = [state |-> D!Reset, size |-> 0]
               /\ \A n \in 1..N :
                    u[n] = IF input[n] = Ask THEN [u[n - 1] EXCEPT !.state = D!GetHash(@).state]
                           ELSE [state |-> D!Add(u[n - 1].state,
                                                 [i \in 1..input[n] |-> Octet(u[n - 1].size + i)]),
                                 size |-> u[n - 1].size + input[n]]
               /\ Hashed = u[N]
  BY <1>1, HashTurns, Zenon
<1> DEFINE Fine == {n \in 0..N : Hashing(u[n])}
<1>3. 0 \in Fine
  BY <1>2, HashStarts
<1>4. \A n \in 1..N : n - 1 \in Fine => n \in Fine
  <2> SUFFICES ASSUME NEW n \in 1..N, Hashing(u[n - 1])
               PROVE  Hashing(u[n])
    OBVIOUS
  <2>1. PICK p : p = u[n - 1] /\ Hashing(p)
    OBVIOUS
  <2>2. PICK x \in Nat \cup {Ask} : x = input[n]
    <3>1. input[n] \in Nat \cup {Ask}
      BY <1>1, ElementOfSeq
    <3> QED
      BY <3>1
  <2>3. Hashing(IF x = Ask THEN [p EXCEPT !.state = D!GetHash(@).state]
                ELSE [state |-> D!Add(p.state, [i \in 1..x |-> Octet(p.size + i)]),
                      size |-> p.size + x])
    BY <2>1, HashGoesOn
  <2> QED
    BY <1>2, <2>1, <2>2, <2>3, Zenon
<1> HIDE DEF Fine
<1>5. N \in Fine
  <2>1. \A n \in 0..N : n \in Fine
    BY <1>3, <1>4, UpTo
  <2> QED
    BY <2>1
<1> QED
  BY <1>2, <1>5 DEF Fine

LEMMA DigestOfAll ==
  ASSUME input \in Seq(Nat \cup {Ask})
  PROVE  D!GetHash(Hashed.state).digest = Padded([i \in 1..Hashed.size |-> Octet(i)])
<1>0. PICK k \in Nat : k = Hashed.size
  BY HashedIs DEF Hashing
<1>1. PICK s : k = Hashed.size /\ s = Hashed.state
  BY <1>0
<1>2. PICK b \in Nat, r \in 0..(BlockSize - 1) : Taken(s, Message(k), b, r)
  BY <1>1, HashedIs DEF Hashing
<1>3. D!GetHash(s).digest = Padded(Message(k))
  BY <1>2, MessageSeq, DigestIs
<1> QED
  BY <1>1, <1>3, Zenon DEF Message

\* The bits of an exclusive or, by what each counts.
Weights == {1, 2, 4, 8, 16, 32, 64, 128}

LEMMA XorDigits ==
  ASSUME NEW a \in 0..255, NEW m \in 0..255
  PROVE  /\ D!Xor(a, m) \in 0..255
         /\ \A n \in Weights : (D!Xor(a, m) \div n) % 2 = (a \div n + m \div n) % 2
<1>1. PICK x0 \in {0, 1} : x0 = (a \div 1 + m \div 1) % 2
  <2>1. (a \div 1 + m \div 1) % 2 \in {0, 1}
    OBVIOUS
  <2> QED
    BY <2>1
<1>2. PICK x1 \in {0, 1} : x1 = (a \div 2 + m \div 2) % 2
  <2>1. (a \div 2 + m \div 2) % 2 \in {0, 1}
    OBVIOUS
  <2> QED
    BY <2>1
<1>3. PICK x2 \in {0, 1} : x2 = (a \div 4 + m \div 4) % 2
  <2>1. (a \div 4 + m \div 4) % 2 \in {0, 1}
    OBVIOUS
  <2> QED
    BY <2>1
<1>4. PICK x3 \in {0, 1} : x3 = (a \div 8 + m \div 8) % 2
  <2>1. (a \div 8 + m \div 8) % 2 \in {0, 1}
    OBVIOUS
  <2> QED
    BY <2>1
<1>5. PICK x4 \in {0, 1} : x4 = (a \div 16 + m \div 16) % 2
  <2>1. (a \div 16 + m \div 16) % 2 \in {0, 1}
    OBVIOUS
  <2> QED
    BY <2>1
<1>6. PICK x5 \in {0, 1} : x5 = (a \div 32 + m \div 32) % 2
  <2>1. (a \div 32 + m \div 32) % 2 \in {0, 1}
    OBVIOUS
  <2> QED
    BY <2>1
<1>7. PICK x6 \in {0, 1} : x6 = (a \div 64 + m \div 64) % 2
  <2>1. (a \div 64 + m \div 64) % 2 \in {0, 1}
    OBVIOUS
  <2> QED
    BY <2>1
<1>8. PICK x7 \in {0, 1} : x7 = (a \div 128 + m \div 128) % 2
  <2>1. (a \div 128 + m \div 128) % 2 \in {0, 1}
    OBVIOUS
  <2> QED
    BY <2>1
<1>9. PICK r \in 0..255 : r = x0 + 2 * x1 + 4 * x2 + 8 * x3 + 16 * x4 + 32 * x5 + 64 * x6 + 128 * x7
  OBVIOUS
<1>10. D!Xor(a, m) = 1 * x0 + 2 * x1 + 4 * x2 + 8 * x3 + 16 * x4 + 32 * x5 + 64 * x6 + 128 * x7
  BY <1>1, <1>2, <1>3, <1>4, <1>5, <1>6, <1>7, <1>8, Zenon DEF D!Xor
<1>11. D!Xor(a, m) = r
  <2> HIDE <1>1, <1>2, <1>3, <1>4, <1>5, <1>6, <1>7, <1>8
  <2> QED
    BY <1>9, <1>10
<1>12. /\ (r \div 1) % 2 = x0 /\ (r \div 2) % 2 = x1 /\ (r \div 4) % 2 = x2 /\ (r \div 8) % 2 = x3
       /\ (r \div 16) % 2 = x4 /\ (r \div 32) % 2 = x5 /\ (r \div 64) % 2 = x6 /\ (r \div 128) % 2 = x7
  <2>1. (r \div 1) % 2 = x0
    <3>1. PICK h \in Nat : h = x0 + 2 * x1 + 4 * x2 + 8 * x3 + 16 * x4 + 32 * x5 + 64 * x6 + 128 * x7
      OBVIOUS
    <3>2. r \div 1 = h
      BY <1>9, <3>1
    <3>3. h % 2 = x0
      BY <3>1
    <3> QED
      BY <3>2, <3>3, Zenon
  <2>2. (r \div 2) % 2 = x1
    <3>1. PICK h \in Nat : h = x1 + 2 * x2 + 4 * x3 + 8 * x4 + 16 * x5 + 32 * x6 + 64 * x7
      OBVIOUS
    <3>2. r \div 2 = h
      BY <1>9, <3>1
    <3>3. h % 2 = x1
      BY <3>1
    <3> QED
      BY <3>2, <3>3, Zenon
  <2>3. (r \div 4) % 2 = x2
    <3>1. PICK h \in Nat : h = x2 + 2 * x3 + 4 * x4 + 8 * x5 + 16 * x6 + 32 * x7
      OBVIOUS
    <3>2. r \div 4 = h
      BY <1>9, <3>1
    <3>3. h % 2 = x2
      BY <3>1
    <3> QED
      BY <3>2, <3>3, Zenon
  <2>4. (r \div 8) % 2 = x3
    <3>1. PICK h \in Nat : h = x3 + 2 * x4 + 4 * x5 + 8 * x6 + 16 * x7
      OBVIOUS
    <3>2. r \div 8 = h
      BY <1>9, <3>1
    <3>3. h % 2 = x3
      BY <3>1
    <3> QED
      BY <3>2, <3>3, Zenon
  <2>5. (r \div 16) % 2 = x4
    <3>1. PICK h \in Nat : h = x4 + 2 * x5 + 4 * x6 + 8 * x7
      OBVIOUS
    <3>2. r \div 16 = h
      BY <1>9, <3>1
    <3>3. h % 2 = x4
      BY <3>1
    <3> QED
      BY <3>2, <3>3, Zenon
  <2>6. (r \div 32) % 2 = x5
    <3>1. PICK h \in Nat : h = x5 + 2 * x6 + 4 * x7
      OBVIOUS
    <3>2. r \div 32 = h
      BY <1>9, <3>1
    <3>3. h % 2 = x5
      BY <3>1
    <3> QED
      BY <3>2, <3>3, Zenon
  <2>7. (r \div 64) % 2 = x6
    <3>1. PICK h \in Nat : h = x6 + 2 * x7
      OBVIOUS
    <3>2. r \div 64 = h
      BY <1>9, <3>1
    <3>3. h % 2 = x6
      BY <3>1
    <3> QED
      BY <3>2, <3>3, Zenon
  <2>8. (r \div 128) % 2 = x7
    <3>1. PICK h \in Nat : h = x7
      OBVIOUS
    <3>2. r \div 128 = h
      BY <1>9, <3>1
    <3>3. h % 2 = x7
      BY <3>1
    <3> QED
      BY <3>2, <3>3, Zenon
  <2> QED
    BY <2>1, <2>2, <2>3, <2>4, <2>5, <2>6, <2>7, <2>8, Zenon
<1>13. /\ (r \div 1) % 2 = (a \div 1 + m \div 1) % 2
       /\ (r \div 2) % 2 = (a \div 2 + m \div 2) % 2
       /\ (r \div 4) % 2 = (a \div 4 + m \div 4) % 2
       /\ (r \div 8) % 2 = (a \div 8 + m \div 8) % 2
       /\ (r \div 16) % 2 = (a \div 16 + m \div 16) % 2
       /\ (r \div 32) % 2 = (a \div 32 + m \div 32) % 2
       /\ (r \div 64) % 2 = (a \div 64 + m \div 64) % 2
       /\ (r \div 128) % 2 = (a \div 128 + m \div 128) % 2
  BY <1>12, <1>1, <1>2, <1>3, <1>4, <1>5, <1>6, <1>7, <1>8, Zenon
<1>14. ASSUME NEW n \in Weights
       PROVE  (r \div n) % 2 = (a \div n + m \div n) % 2
  <2>1. n = 1 \/ n = 2 \/ n = 4 \/ n = 8 \/ n = 16 \/ n = 32 \/ n = 64 \/ n = 128
    BY DEF Weights
  <2> QED
    BY <1>13, <2>1, ZenonT(60)
<1> QED
  BY <1>11, <1>14, Zenon

\* The key masked for the inside, and masked again, is masked for the outside.
LEMMA MaskedTwice ==
  ASSUME NEW a \in 0..255
  PROVE  /\ D!Xor(a, 54) \in Nat /\ D!Xor(a, 92) \in Nat
         /\ D!Xor(D!Xor(a, 54), D!Xor(92, 54)) = D!Xor(a, 92)
<1>1. 54 \in 0..255 /\ 92 \in 0..255
  OBVIOUS
<1>7. /\ D!Xor(a, 54) \in 0..255
      /\ \A n \in Weights : (D!Xor(a, 54) \div n) % 2 = (a \div n + 54 \div n) % 2
  BY <1>1, XorDigits, ZenonT(60)
<1>2. PICK r \in 0..255 : r = D!Xor(a, 54)
  BY <1>7
<1>3. D!Xor(a, 92) \in 0..255
  BY <1>1, XorDigits
<1>4. D!Xor(92, 54) = 106
  <2>1. (92 \div 1 + 54 \div 1) % 2 = 0
    OBVIOUS
  <2>2. (92 \div 2 + 54 \div 2) % 2 = 1
    OBVIOUS
  <2>3. (92 \div 4 + 54 \div 4) % 2 = 0
    OBVIOUS
  <2>4. (92 \div 8 + 54 \div 8) % 2 = 1
    OBVIOUS
  <2>5. (92 \div 16 + 54 \div 16) % 2 = 0
    OBVIOUS
  <2>6. (92 \div 32 + 54 \div 32) % 2 = 1
    OBVIOUS
  <2>7. (92 \div 64 + 54 \div 64) % 2 = 1
    OBVIOUS
  <2>8. (92 \div 128 + 54 \div 128) % 2 = 0
    OBVIOUS
  <2>9. 1 * 0 + 2 * 1 + 4 * 0 + 8 * 1 + 16 * 0 + 32 * 1 + 64 * 1 + 128 * 0 = 106
    OBVIOUS
  <2> QED
    BY <2>1, <2>2, <2>3, <2>4, <2>5, <2>6, <2>7, <2>8, <2>9, ZenonT(60) DEF D!Xor
<1>5. ASSUME NEW n \in Weights
      PROVE  (r \div n + 106 \div n) % 2 = (a \div n + 92 \div n) % 2
  <2>1. (r \div n) % 2 = (a \div n + 54 \div n) % 2
    <3>1. (D!Xor(a, 54) \div n) % 2 = (a \div n + 54 \div n) % 2
      BY <1>7
    <3> QED
      BY <1>2, <3>1, Zenon
  <2>2. CASE n = 1
    <3>1. PICK x \in Nat, y \in Nat : x = a \div 1 /\ y = r \div 1
      OBVIOUS
    <3>2. 54 \div 1 = 54 /\ 106 \div 1 = 106 /\ 92 \div 1 = 92
      OBVIOUS
    <3>3. y % 2 = (x + 54) % 2
      BY <2>1, <2>2, <3>1, <3>2, Zenon
    <3>4. (y + 106) % 2 = (x + 92) % 2
      BY <3>3
    <3> QED
      BY <2>2, <3>1, <3>2, <3>4, Zenon
  <2>3. CASE n = 2
    <3>1. PICK x \in Nat, y \in Nat : x = a \div 2 /\ y = r \div 2
      OBVIOUS
    <3>2. 54 \div 2 = 27 /\ 106 \div 2 = 53 /\ 92 \div 2 = 46
      OBVIOUS
    <3>3. y % 2 = (x + 27) % 2
      BY <2>1, <2>3, <3>1, <3>2, Zenon
    <3>4. (y + 53) % 2 = (x + 46) % 2
      BY <3>3
    <3> QED
      BY <2>3, <3>1, <3>2, <3>4, Zenon
  <2>4. CASE n = 4
    <3>1. PICK x \in Nat, y \in Nat : x = a \div 4 /\ y = r \div 4
      OBVIOUS
    <3>2. 54 \div 4 = 13 /\ 106 \div 4 = 26 /\ 92 \div 4 = 23
      OBVIOUS
    <3>3. y % 2 = (x + 13) % 2
      BY <2>1, <2>4, <3>1, <3>2, Zenon
    <3>4. (y + 26) % 2 = (x + 23) % 2
      BY <3>3
    <3> QED
      BY <2>4, <3>1, <3>2, <3>4, ZenonT(60)
  <2>5. CASE n = 8
    <3>1. PICK x \in Nat, y \in Nat : x = a \div 8 /\ y = r \div 8
      OBVIOUS
    <3>2. 54 \div 8 = 6 /\ 106 \div 8 = 13 /\ 92 \div 8 = 11
      OBVIOUS
    <3>3. y % 2 = (x + 6) % 2
      BY <2>1, <2>5, <3>1, <3>2, Zenon
    <3>4. (y + 13) % 2 = (x + 11) % 2
      BY <3>3
    <3> QED
      BY <2>5, <3>1, <3>2, <3>4, Zenon
  <2>6. CASE n = 16
    <3>1. PICK x \in Nat, y \in Nat : x = a \div 16 /\ y = r \div 16
      OBVIOUS
    <3>2. 54 \div 16 = 3 /\ 106 \div 16 = 6 /\ 92 \div 16 = 5
      OBVIOUS
    <3>3. y % 2 = (x + 3) % 2
      BY <2>1, <2>6, <3>1, <3>2, Zenon
    <3>4. (y + 6) % 2 = (x + 5) % 2
      BY <3>3
    <3> QED
      BY <2>6, <3>1, <3>2, <3>4, Zenon
  <2>7. CASE n = 32
    <3>1. PICK x \in Nat, y \in Nat : x = a \div 32 /\ y = r \div 32
      OBVIOUS
    <3>2. 54 \div 32 = 1 /\ 106 \div 32 = 3 /\ 92 \div 32 = 2
      OBVIOUS
    <3>3. y % 2 = (x + 1) % 2
      BY <2>1, <2>7, <3>1, <3>2, Zenon
    <3>4. (y + 3) % 2 = (x + 2) % 2
      BY <3>3
    <3> QED
      BY <2>7, <3>1, <3>2, <3>4, ZenonT(60)
  <2>8. CASE n = 64
    <3>1. PICK x \in Nat, y \in Nat : x = a \div 64 /\ y = r \div 64
      OBVIOUS
    <3>2. 54 \div 64 = 0 /\ 106 \div 64 = 1 /\ 92 \div 64 = 1
      OBVIOUS
    <3>3. y % 2 = (x + 0) % 2
      BY <2>1, <2>8, <3>1, <3>2, Zenon
    <3>4. (y + 1) % 2 = (x + 1) % 2
      BY <3>3
    <3> QED
      BY <2>8, <3>1, <3>2, <3>4, ZenonT(60)
  <2>9. CASE n = 128
    <3>1. PICK x \in Nat, y \in Nat : x = a \div 128 /\ y = r \div 128
      OBVIOUS
    <3>2. 54 \div 128 = 0 /\ 106 \div 128 = 0 /\ 92 \div 128 = 0
      OBVIOUS
    <3>3. y % 2 = (x + 0) % 2
      BY <2>1, <2>9, <3>1, <3>2, Zenon
    <3>4. (y + 0) % 2 = (x + 0) % 2
      BY <3>3
    <3> QED
      BY <2>9, <3>1, <3>2, <3>4, ZenonT(60)
  <2> QED
    BY <2>2, <2>3, <2>4, <2>5, <2>6, <2>7, <2>8, <2>9 DEF Weights
<1>6. D!Xor(r, 106) = D!Xor(a, 92)
  BY <1>5, ZenonT(60) DEF D!Xor, Weights
<1> QED
  BY <1>2, <1>3, <1>4, <1>6

\* The turns of HashOctet.
HashTurn(u, blocks, i, l) ==
  /\ u[0] = i
  /\ \A n \in 1..l :
       u[n] = (u[n - 1] * 31 + blocks[(n - 1) \div BlockSize + 1][((n - 1) % BlockSize) + 1]) % 251
  /\ HashOctet(blocks, i) = u[l]

LEMMA HashOctetTurns ==
  ASSUME NEW blocks, NEW i, NEW N \in Nat, N = Len(blocks) * BlockSize
  PROVE  \E u : HashTurn(u, blocks, i, N)
<1> DEFINE Step(n, p) == (p * 31 + blocks[(n - 1) \div BlockSize + 1][((n - 1) % BlockSize) + 1]) % 251
           Start == i
           F(g, m) == [n \in 0..m |-> IF n = 0 THEN Start ELSE Step(n, g[n - 1])]
           Upto == {m \in 0..N : \E g : g = F(g, m)}
           G == CHOOSE g : g = F(g, N)
<1>1. HashOctet(blocks, i) = G[N]
  BY Zenon DEF HashOctet
<1> HIDE DEF Step, Start
<1>2. 0 \in Upto
  <2>1. F(<<>>, 0) = F(F(<<>>, 0), 0)
    OBVIOUS
  <2> HIDE DEF F
  <2> QED
    BY <2>1
<1>3. ASSUME NEW m \in 1..N, m - 1 \in Upto
      PROVE  m \in Upto
  <2>1. PICK g : g = F(g, m - 1)
    BY <1>3
  <2> DEFINE h == F(g, m)
  <2>2. \A n \in 1..m : h[n - 1] = g[n - 1]
    BY <2>1
  <2> HIDE DEF h
  <2>3. \A n \in 0..m : (IF n = 0 THEN Start ELSE Step(n, g[n - 1]))
                            = (IF n = 0 THEN Start ELSE Step(n, h[n - 1]))
    BY <2>2
  <2>4. F(g, m) = F(h, m)
    BY <2>3
  <2> HIDE DEF F, h
  <2> QED
    BY <2>4 DEF h
<1>4. N \in Upto
  <2> HIDE DEF Upto
  <2>1. \A m \in 1..N : m - 1 \in Upto => m \in Upto
    BY <1>3
  <2>2. \A m \in 0..N : m \in Upto
    BY <1>2, <2>1, UpTo
  <2> QED
    BY <2>2
<1>5. G = F(G, N)
  <2> HIDE DEF F
  <2> QED
    BY <1>4
<1>6. G[0] = Start /\ \A n \in 1..N : G[n] = Step(n, G[n - 1])
  <2> HIDE DEF G
  <2> QED
    BY <1>5
<1> HIDE DEF G
<1> QED
  BY <1>1, <1>6, Zenon DEF Start, Step, HashTurn

\* An octet of a length is a number.
LEMMA LengthDigit ==
  ASSUME NEW l \in Nat, NEW k \in Nat
  PROVE  ((8 * l) \div 256 ^ k) % 256 \in Nat
OBVIOUS

\* A padded message has a block, and its blocks are of numbers.
LEMMA PaddedBlocks ==
  ASSUME NEW m \in Seq(Nat)
  PROVE  \E c \in Nat \ {0} :
           /\ Len(Padded(m)) = c
           /\ \A n \in 1..c, i \in 1..BlockSize : Padded(m)[n][i] \in Nat
<1>1. PICK B \in Nat \ {0}, L \in Nat : B = BlockSize /\ L = LengthBytes /\ L < B
  BY SizesAssumption DEF Octets
<1>2. PICK size \in Nat : size = Len(m)
  BY LenProperties
<1>3. PICK b \in Nat, r \in 0..(B - 1) : size = b * B + r
  <2>1. size \div B \in Nat /\ size % B \in 0..(B - 1) /\ size = (size \div B) * B + (size % B)
    BY Quotient
  <2>2. PICK b \in Nat : b = size \div B
    BY <2>1
  <2>3. PICK r \in 0..(B - 1) : r = size % B
    BY <2>1
  <2>4. size = b * B + r
    BY <2>1, <2>2, <2>3, Zenon
  <2> QED
    BY <2>4
<1>4. PICK c \in Nat \ {0} : c = b + More(r)
  BY DEF More
<1>5. PICK total \in Nat : total = c * B
  BY TimesNat
<1> DEFINE Out(n) == [i \in 1..B |-> PadOctet(m, total, (n - 1) * B + i)]
<1>6. Padded(m) = [n \in 1..c |-> Out(n)]
  <2> DEFINE Form(t, k, z) == [n \in 1..k |-> [i \in 1..z |-> PadOctet(m, t, (n - 1) * z + i)]]
  <2>1. r \in 0..(BlockSize - 1) /\ Len(m) = b * BlockSize + r
    BY <1>1, <1>2, <1>3
  <2>2. Padded(m) = Form((b + More(r)) * BlockSize, b + More(r), BlockSize)
    BY <2>1, PaddedIs
  <2> HIDE DEF Form
  <2>3. Padded(m) = Form(total, c, B)
    BY <1>1, <1>4, <1>5, <2>2, Zenon
  <2> QED
    BY <2>3, Zenon DEF Form
<1>7. ASSUME NEW n \in 1..c, NEW i \in 1..B
      PROVE  Out(n)[i] \in Nat
  <2>1. PICK a \in Nat : a = n - 1 /\ a < c
    OBVIOUS
  <2>2. PICK v \in Nat : v = (n - 1) * B /\ v + B <= total
    <3>1. a * B + B <= c * B /\ a * B \in Nat
      BY <2>1, TimesOrder, TimesNat
    <3>2. PICK v \in Nat : v = a * B
      BY <3>1
    <3>3. v + B <= total
      BY <1>5, <3>1, <3>2, Zenon
    <3> QED
      BY <2>1, <3>2, <3>3, Zenon
  <2>3. PICK j \in Nat : j = (n - 1) * B + i /\ j >= 1 /\ j <= total
    <3>1. v + i \in Nat /\ v + i >= 1 /\ v + i <= total
      BY <2>2
    <3>2. v + i = (n - 1) * B + i
      BY <2>2, Zenon
    <3> QED
      BY <3>1, <3>2, Zenon
  <2>4. Out(n)[i] = PadOctet(m, total, j)
    BY <2>3
  <2>5. j <= Len(m) => m[j] \in Nat
    BY <1>2, <2>3, ElementOfSeq
  <2>6. ((8 * Len(m)) \div 256 ^ (total - j)) % 256 \in Nat
    <3>1. PICK k \in Nat : k = total - j
      BY <2>3
    <3>2. ((8 * Len(m)) \div 256 ^ k) % 256 \in Nat
      BY <1>2, LengthDigit
    <3> QED
      BY <3>1, <3>2, Zenon
  <2>7. 128 \in Nat /\ 0 \in Nat
    OBVIOUS
  <2> HIDE DEF Out
  <2> QED
    BY <2>4, <2>5, <2>6, <2>7, ZenonT(60) DEF PadOctet
<1>8. Len(Padded(m)) = c
  <2>1. PICK U : U = {Out(n) : n \in 1..c}
    OBVIOUS
  <2>2. PICK h : h = [n \in 1..c |-> Out(n)]
    OBVIOUS
  <2> HIDE DEF Out
  <2>3. h \in [1..c -> U]
    BY <2>1, <2>2
  <2>4. Len(h) = c
    BY <2>3, FunSeq
  <2> QED
    BY <1>6, <2>2, <2>4, Zenon
<1>9. \A n \in 1..c : Padded(m)[n] = Out(n)
  <2> HIDE DEF Out
  <2> QED
    BY <1>6, Zenon
<1> HIDE DEF Out
<1> QED
  BY <1>1, <1>7, <1>8, <1>9, Zenon

\* An octet of a hash is one.
LEMMA HashRange ==
  ASSUME NEW m \in Seq(Nat), NEW i \in Nat
  PROVE  HashOctet(Padded(m), i) \in 0..255
<1>1. PICK B \in Nat \ {0} : B = BlockSize
  BY SizesAssumption DEF Octets
<1>2. PICK t : t = Padded(m)
  OBVIOUS
<1>3. PICK c \in Nat \ {0} : Len(t) = c /\ \A n \in 1..c, j \in 1..B : t[n][j] \in Nat
  BY <1>1, <1>2, PaddedBlocks, Zenon
<1>4. PICK N \in Nat : N = c * B /\ N >= 1
  <2>1. PICK a \in Nat : a = c - 1
    OBVIOUS
  <2>2. (a + 1) * B = a * B + 1 * B /\ 1 * B = B /\ a * B \in Nat
    BY TimesSum, TimesNat
  <2>3. PICK v \in Nat : v = a * B
    BY <2>2
  <2>4. a + 1 = c
    BY <2>1
  <2>5. c * B = v + B
    BY <2>2, <2>3, <2>4, Zenon
  <2>6. v + B \in Nat /\ v + B >= 1
    OBVIOUS
  <2> QED
    BY <2>5, <2>6, Zenon
<1>5. PICK u : HashTurn(u, t, i, N)
  <2>1. N = Len(t) * BlockSize
    BY <1>1, <1>3, <1>4, Zenon
  <2> QED
    BY <1>4, <2>1, HashOctetTurns
<1>6. ASSUME NEW n \in 1..N, u[n - 1] \in Nat
      PROVE  u[n] \in 0..250
  <2>1. PICK a \in Nat : a = n - 1 /\ a < N
    OBVIOUS
  <2>2. PICK q \in Nat, k \in 0..(B - 1) : q = a \div B /\ k = a % B /\ a = q * B + k
    <3>1. a \div B \in Nat /\ a % B \in 0..(B - 1) /\ a = (a \div B) * B + (a % B)
      BY Quotient
    <3>2. PICK q \in Nat : q = a \div B
      BY <3>1
    <3>3. PICK k \in 0..(B - 1) : k = a % B
      BY <3>1
    <3>4. a = q * B + k
      BY <3>1, <3>2, <3>3, Zenon
    <3> QED
      BY <3>2, <3>3, <3>4
  <2>3. q < c
    <3>1. PICK v \in Nat : v = q * B
      BY TimesNat
    <3>2. v <= a
      BY <2>2, <3>1
    <3>3. c < q => c * B + B <= q * B
      BY TimesOrder
    <3>4. c < q => N + B <= v
      BY <1>4, <3>1, <3>3, Zenon
    <3>5. q = c => v = N
      BY <1>4, <3>1, Zenon
    <3> QED
      BY <2>1, <3>2, <3>4, <3>5
  <2>4. q + 1 \in 1..c /\ k + 1 \in 1..B
    BY <2>3
  <2>5. PICK x \in Nat : x = t[q + 1][k + 1]
    BY <1>3, <2>4
  <2>6. PICK y \in Nat : y = u[n - 1]
    BY <1>6
  <2>7. u[n] = (y * 31 + x) % 251
    BY <1>1, <1>5, <2>1, <2>2, <2>5, <2>6, Zenon DEF HashTurn
  <2>8. (y * 31 + x) % 251 \in 0..250
    OBVIOUS
  <2> QED
    BY <2>7, <2>8, Zenon
<1> DEFINE Fine == {n \in 0..N : u[n] \in Nat}
<1>7. 0 \in Fine
  BY <1>5 DEF HashTurn
<1>8. \A n \in 1..N : n - 1 \in Fine => n \in Fine
  <2> SUFFICES ASSUME NEW n \in 1..N, u[n - 1] \in Nat
               PROVE  u[n] \in Nat
    OBVIOUS
  <2>1. u[n] \in 0..250
    BY <1>6
  <2>2. \A z \in 0..250 : z \in Nat
    OBVIOUS
  <2> QED
    BY <2>1, <2>2, Zenon
<1> HIDE DEF Fine
<1>9. \A n \in 0..N : n \in Fine
  BY <1>7, <1>8, UpTo
<1>10. N \in 1..N /\ N - 1 \in 0..N
  BY <1>4
<1>11. u[N - 1] \in Nat
  BY <1>9, <1>10 DEF Fine
<1>12. u[N] \in 0..255
  <2>1. u[N] \in 0..250
    BY <1>6, <1>10, <1>11
  <2>2. PICK z \in 0..250 : z = u[N]
    BY <2>1
  <2>3. z \in 0..255
    OBVIOUS
  <2> QED
    BY <2>2, <2>3
<1> QED
  BY <1>2, <1>5, <1>12, Zenon DEF HashTurn

\* The hash of a message.
HashText(m) == [i \in 1..HashBytes |-> HashOctet(Padded(m), i)]

LEMMA HashTextSeq ==
  ASSUME NEW m \in Seq(Nat)
  PROVE  /\ HashText(m) \in Seq(Nat) /\ Len(HashText(m)) = HashBytes
         /\ \A i \in 1..HashBytes : HashText(m)[i] \in 0..255
<1>1. PICK c \in Nat : c = HashBytes
  BY SizesAssumption
<1>2. PICK h : h = HashText(m)
  OBVIOUS
<1>3. h = [i \in 1..c |-> HashOctet(Padded(m), i)]
  BY <1>1, <1>2, Zenon DEF HashText
<1>4. \A i \in 1..c : h[i] \in 0..255
  <2> SUFFICES ASSUME NEW i \in 1..c
               PROVE  h[i] \in 0..255
    OBVIOUS
  <2>0. i \in Nat
    OBVIOUS
  <2>1. HashOctet(Padded(m), i) \in 0..255
    BY <2>0, HashRange
  <2> QED
    BY <1>3, <2>1
<1>5. h \in [1..c -> Nat]
  <2>1. \A i \in 1..c : h[i] \in Nat
    <3> SUFFICES ASSUME NEW i \in 1..c
                 PROVE  h[i] \in Nat
      OBVIOUS
    <3>1. PICK z \in 0..255 : z = h[i]
      BY <1>4
    <3>2. z \in Nat
      OBVIOUS
    <3> QED
      BY <3>1, <3>2
  <2> QED
    BY <1>3, <2>1
<1>6. h \in Seq(Nat) /\ Len(h) = c
  BY <1>5, FunSeq
<1> QED
  BY <1>1, <1>2, <1>4, <1>6, Zenon

\* The state after a message, cut in whatever pieces.
After(s, m) == \E b \in Nat, r \in 0..(BlockSize - 1) : Taken(s, m, b, r)

LEMMA AfterAdd ==
  ASSUME NEW m \in Seq(Nat), NEW s, After(s, m), NEW d \in Seq(Nat)
  PROVE  After(D!Add(s, d), m \o d)
<1>1. PICK b \in Nat, r \in 0..(BlockSize - 1) : Taken(s, m, b, r)
  BY DEF After
<1>2. \E b2 \in Nat, r2 \in 0..(BlockSize - 1) : Taken(D!Add(s, d), m \o d, b2, r2)
  BY <1>1, AddTakes
<1> QED
  BY <1>2, Zenon DEF After

LEMMA AfterOne ==
  ASSUME NEW d \in Seq(Nat)
  PROVE  After(D!Add(D!Reset, d), d)
<1>1. 0 \in Nat /\ 0 \in 0..(BlockSize - 1)
  BY SizesAssumption DEF Octets
<1>2. After(D!Reset, <<>>)
  BY <1>1, NothingTaken, Zenon DEF After
<1>3. PICK m \in Seq(Nat) : m = <<>>
  BY EmptySeq
<1>4. After(D!Add(D!Reset, d), m \o d)
  BY <1>2, <1>3, AfterAdd
<1>5. <<>> \o d = d
  BY ConcatEmptySeq
<1> QED
  BY <1>3, <1>4, <1>5, Zenon

LEMMA DigestAfter ==
  ASSUME NEW m \in Seq(Nat), NEW s, After(s, m)
  PROVE  D!GetHash(s).digest = Padded(m) /\ D!Digest(s) = HashText(m)
<1>1. PICK b \in Nat, r \in 0..(BlockSize - 1) : Taken(s, m, b, r)
  BY DEF After
<1>2. D!GetHash(s).digest = Padded(m)
  BY <1>1, DigestIs
<1> QED
  BY <1>2, Zenon DEF D!Digest, HashText

\* What counts as the key: itself, or the hash of a longer one.
Short(key) == IF Len(key) <= BlockSize THEN key ELSE HashText(key)
KeyOctet(key, i) == IF i <= Len(Short(key)) THEN Short(key)[i] ELSE 0

LEMMA UsedKeyIs ==
  ASSUME NEW key \in Seq(Nat)
  PROVE  D!UsedKey(key) = [i \in 1..BlockSize |-> KeyOctet(key, i)]
<1>1. D!Digest(D!Add(D!Reset, key)) = HashText(key)
  BY AfterOne, DigestAfter
<1>2. PICK t : t = Short(key)
  OBVIOUS
<1>3. PICK l \in Nat : l = Len(t)
  <2>1. Len(key) \in Nat /\ Len(HashText(key)) \in Nat
    BY HashTextSeq, LenProperties, SizesAssumption
  <2> QED
    BY <1>2, <2>1 DEF Short
<1>4. D!UsedKey(key) = D!Fill([i \in 1..BlockSize |-> 0], 1, t)
  BY <1>1, <1>2, Zenon DEF D!UsedKey, Short
<1>5. D!Fill([i \in 1..BlockSize |-> 0], 1, t)
        = [i \in 1..BlockSize |-> IF i \in 1..(1 + l - 1) THEN t[i - 1 + 1]
                                  ELSE [n \in 1..BlockSize |-> 0][i]]
  BY <1>3, Zenon DEF D!Fill
<1>6. \A i \in 1..BlockSize :
        (IF i \in 1..(1 + l - 1) THEN t[i - 1 + 1] ELSE [n \in 1..BlockSize |-> 0][i])
          = KeyOctet(key, i)
  <2> SUFFICES ASSUME NEW i \in 1..BlockSize
               PROVE  (IF i \in 1..(1 + l - 1) THEN t[i - 1 + 1]
                       ELSE [n \in 1..BlockSize |-> 0][i]) = KeyOctet(key, i)
    OBVIOUS
  <2>1. KeyOctet(key, i) = IF i <= l THEN t[i] ELSE 0
    BY <1>2, <1>3, Zenon DEF KeyOctet
  <2>2. (i \in 1..(1 + l - 1) <=> i <= l) /\ i - 1 + 1 = i
    OBVIOUS
  <2>3. [n \in 1..BlockSize |-> 0][i] = 0
    OBVIOUS
  <2> QED
    BY <2>1, <2>2, <2>3, Zenon
<1> QED
  BY <1>4, <1>5, <1>6, Zenon

\* The numbers up to so many, as a key.
LEMMA KeyOctets ==
  ASSUME NEW a \in Nat, NEW i \in 1..BlockSize
  PROVE  KeyOctet([n \in 1..a |-> n], i) \in 0..255
<1>1. PICK key \in Seq(Nat) : key = [n \in 1..a |-> n] /\ Len(key) = a
  <2>1. [n \in 1..a |-> n] \in [1..a -> Nat]
    OBVIOUS
  <2> QED
    BY <2>1, FunSeq
<1>2. PICK j \in Nat, B \in Nat : j = i /\ B = BlockSize /\ 1 <= j /\ j <= B /\ B <= 255
  BY SizesAssumption DEF Octets
<1>3. CASE a <= B
  <2>1. Short(key) = key
    BY <1>1, <1>2, <1>3, Zenon DEF Short
  <2>2. j <= a => key[j] = j /\ j \in 0..255
    BY <1>1, <1>2
  <2>3. KeyOctet(key, j) = IF j <= a THEN key[j] ELSE 0
    BY <1>1, <2>1, Zenon DEF KeyOctet
  <2>4. KeyOctet(key, j) \in 0..255
    <3>1. PICK x \in 0..255 : x = KeyOctet(key, j)
      <4>1. CASE j <= a
        BY <2>2, <2>3, <4>1
      <4>2. CASE ~(j <= a)
        BY <2>3, <4>2
      <4> QED
        BY <4>1, <4>2
    <3> QED
      BY <3>1
  <2> QED
    BY <1>1, <1>2, <2>4, Zenon
<1>4. CASE ~(a <= B)
  <2>1. Short(key) = HashText(key)
    BY <1>1, <1>2, <1>4, Zenon DEF Short
  <2>2. Len(HashText(key)) = HashBytes /\ HashBytes \in Nat
        /\ \A n \in 1..HashBytes : HashText(key)[n] \in 0..255
    BY HashTextSeq, SizesAssumption
  <2>3. j <= HashBytes => j \in 1..HashBytes
    BY <1>2, <2>2
  <2>4. 0 \in 0..255
    OBVIOUS
  <2> QED
    BY <1>1, <1>2, <2>1, <2>2, <2>3, <2>4, Zenon DEF KeyOctet
<1> QED
  BY <1>3, <1>4

\* The signature of RFC 2104, as HmacExact states it.
Signature(key, data) ==
  LET hash(message) == [i \in 1..HashBytes |-> HashOctet(Padded(message), i)]
      short == IF Len(key) <= BlockSize THEN key ELSE hash(key)
      masked(mask) == [i \in 1..BlockSize |->
                         D!Xor(IF i <= Len(short) THEN short[i] ELSE 0, mask)]
  IN  Padded(masked(92) \o hash(masked(54) \o data))

LEMMA SignatureIs ==
  ASSUME NEW a \in Nat, NEW c \in Nat
  PROVE  LET key == [i \in 1..a |-> i]
             data == [i \in 1..c |-> Octet(i)]
             masked(mask) == [i \in 1..BlockSize |-> D!Xor(KeyOctet(key, i), mask)]
         IN  D!Hmac(data, key) = Padded(masked(92) \o HashText(masked(54) \o data))
<1>1. PICK key \in Seq(Nat) : key = [i \in 1..a |-> i] /\ Len(key) = a
  <2>1. [n \in 1..a |-> n] \in [1..a -> Nat]
    OBVIOUS
  <2> QED
    BY <2>1, FunSeq
<1>2. PICK data \in Seq(Nat) : data = [i \in 1..c |-> Octet(i)]
  BY MessageSeq DEF Message
<1>3. PICK B \in Nat : B = BlockSize
  BY SizesAssumption DEF Octets
<1> DEFINE k(i) == KeyOctet(key, i)
           masked(mask) == [i \in 1..B |-> D!Xor(k(i), mask)]
<1>4. ASSUME NEW i \in 1..B
      PROVE  /\ D!Xor(k(i), 54) \in Nat /\ D!Xor(k(i), 92) \in Nat
             /\ D!Xor(D!Xor(k(i), 54), D!Xor(92, 54)) = D!Xor(k(i), 92)
  <2>1. k(i) \in 0..255
    BY <1>1, <1>3, KeyOctets
  <2> HIDE DEF k
  <2> QED
    BY <2>1, MaskedTwice
<1>5. D!UsedKey(key) = [i \in 1..B |-> k(i)]
  BY <1>3, UsedKeyIs
<1> HIDE DEF k
<1>6. PICK inner \in Seq(Nat) : inner = masked(54)
  <2>1. masked(54) \in [1..B -> Nat]
    BY <1>4
  <2> HIDE DEF masked
  <2> QED
    BY <2>1, FunSeq
<1>7. PICK outer \in Seq(Nat) : outer = masked(92)
  <2>1. masked(92) \in [1..B -> Nat]
    BY <1>4
  <2> HIDE DEF masked
  <2> QED
    BY <2>1, FunSeq
<1>8. D!Masked(D!UsedKey(key), 54) = inner
  <2>1. PICK u : u = D!UsedKey(key)
    OBVIOUS
  <2>2. DOMAIN u = 1..B /\ \A i \in 1..B : u[i] = k(i)
    BY <1>5, <2>1
  <2>3. D!Masked(u, 54) = [i \in 1..B |-> D!Xor(u[i], 54)]
    BY <2>2, Zenon DEF D!Masked
  <2>4. D!Masked(u, 54) = masked(54)
    BY <2>2, <2>3, Zenon
  <2> QED
    BY <1>6, <2>1, <2>4, Zenon
<1>9. D!Masked(inner, D!Xor(92, 54)) = outer
  <2>1. DOMAIN inner = 1..B /\ \A i \in 1..B : inner[i] = D!Xor(k(i), 54)
    BY <1>6
  <2>2. D!Masked(inner, D!Xor(92, 54)) = [i \in 1..B |-> D!Xor(inner[i], D!Xor(92, 54))]
    BY <2>1, Zenon DEF D!Masked
  <2>3. \A i \in 1..B : D!Xor(inner[i], D!Xor(92, 54)) = D!Xor(k(i), 92)
    BY <1>4, <2>1, ZenonT(60)
  <2> QED
    BY <1>7, <2>2, <2>3, ZenonT(60)
<1> HIDE DEF masked
<1>10. PICK text \in Seq(Nat) : text = inner \o data
  BY ConcatProperties
<1>11. PICK inside \in Seq(Nat) : inside = HashText(text)
  BY HashTextSeq
<1>12. D!Digest(D!Add(D!Add(D!Reset, inner), data)) = inside
  <2>1. PICK s : s = D!Add(D!Reset, inner)
    OBVIOUS
  <2>2. After(s, inner)
    BY <2>1, AfterOne
  <2>3. PICK z : z = D!Add(s, data)
    OBVIOUS
  <2>4. After(z, text)
    BY <1>10, <2>2, <2>3, AfterAdd
  <2>5. D!Digest(z) = HashText(text)
    BY <2>4, DigestAfter
  <2> QED
    BY <1>11, <2>1, <2>3, <2>5, Zenon
<1>13. PICK whole \in Seq(Nat) : whole = outer \o inside
  BY ConcatProperties
<1>14. D!GetHash(D!Add(D!Add(D!Reset, outer), inside)).digest = Padded(whole)
  <2>1. PICK s : s = D!Add(D!Reset, outer)
    OBVIOUS
  <2>2. After(s, outer)
    BY <2>1, AfterOne
  <2>3. PICK z : z = D!Add(s, inside)
    OBVIOUS
  <2>4. After(z, whole)
    BY <1>13, <2>2, <2>3, AfterAdd
  <2>5. D!GetHash(z).digest = Padded(whole)
    BY <2>4, DigestAfter
  <2> QED
    BY <2>1, <2>3, <2>5, Zenon
<1>15. D!Hmac(data, key) = Padded(whole)
  BY <1>8, <1>9, <1>12, <1>14, Zenon DEF D!Hmac
<1> QED
  BY <1>1, <1>2, <1>3, <1>6, <1>7, <1>10, <1>11, <1>13, <1>15, Zenon DEF masked, k

\* A digest is that of the whole message, however it was given to add and whenever
\* a digest was asked for in between, and a signature is made of such digests, for
\* blocks, messages and keys of any length (add, getHash, hmac).
THEOREM HashCorrect == Spec => []HashExact
<1>1. CodecInputs => DigestExact
  <2> SUFFICES ASSUME CodecInputs, codec = "hash"
               PROVE  D!GetHash(Hashed.state).digest = Padded([i \in 1..Hashed.size |-> Octet(i)])
    BY Zenon DEF DigestExact
  <2>1. input \in Seq(Nat \cup {Ask})
    BY DEF CodecInputs
  <2> QED
    BY <2>1, DigestOfAll
<1>2. CodecInputs => HmacExact
  <2> SUFFICES ASSUME CodecInputs, codec = "hmac", Len(input) = 2
               PROVE  HmacExact
    BY Zenon DEF HmacExact
  <2>1. input \in Seq(Nat)
    BY DEF CodecInputs
  <2>2. PICK a \in Nat, c \in Nat : a = input[1] /\ c = input[2]
    <3>0. 1 \in 1..2 /\ 2 \in 1..2
      OBVIOUS
    <3>1. input[1] \in Nat /\ input[2] \in Nat
      BY <2>1, <3>0, ElementOfSeq
    <3> QED
      BY <3>1
  <2>3. PICK key : key = [i \in 1..a |-> i]
    OBVIOUS
  <2>4. PICK data : data = [i \in 1..c |-> Octet(i)]
    OBVIOUS
  <2> DEFINE masked(mask) == [i \in 1..BlockSize |-> D!Xor(KeyOctet(key, i), mask)]
  <2>5. D!Hmac(data, key) = Padded(masked(92) \o HashText(masked(54) \o data))
    BY <2>3, <2>4, SignatureIs, Zenon
  <2>6. Signature(key, data) = Padded(masked(92) \o HashText(masked(54) \o data))
    BY Zenon DEF Signature, HashText, KeyOctet, Short
  <2>7. key = [i \in 1..input[1] |-> i] /\ data = [i \in 1..input[2] |-> Octet(i)]
    BY <2>2, <2>3, <2>4, Zenon
  <2>8. D!Hmac(data, key) = Signature(key, data)
    BY <2>5, <2>6, Zenon
  <2>9. D!Hmac([i \in 1..input[2] |-> Octet(i)], [i \in 1..input[1] |-> i])
          = Signature([i \in 1..input[1] |-> i], [i \in 1..input[2] |-> Octet(i)])
    BY <2>7, <2>8, Zenon
  <2> QED
    BY <2>9, Zenon DEF HmacExact, Signature
<1> QED
  BY <1>1, <1>2, CodecInputsHold, PTL DEF HashExact

=============================================================================
