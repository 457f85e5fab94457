------------------------- MODULE TelnetCodecProofs -------------------------
(***************************************************************************)
(* The strings of a telnet message are unpacked in the buffer they came    *)
(* in: none gets lost, none is read past the end, and each is what was     *)
(* meant, for messages of any length.                                      *)
(*                                                                         *)
(* What is written is behind what is read (Copying), so that a string that *)
(* was copied to the front (Unpacked) stands there with a NUL behind it    *)
(* (Stored), and no later string is written over it (StoredStays).         *)
(***************************************************************************)
EXTENDS CodecProofs

-----------------------------------------------------------------------------
(* Copying a string to the front of its buffer.                            *)

\* The turns of the loop that copies a string.
UnpackTurn(b, c, out, stops, esc, N, u) ==
  /\ u[0] = [b |-> b, c |-> c, out |-> out]
  /\ \A n \in 1..N : u[n] = T!Copy(u[n - 1], stops, esc)
  /\ T!Unpack(b, c, out, stops, esc)
       = [b |-> T!Put(u[N].b, u[N].out, T!NUL), c |-> u[N].c, out |-> u[N].out + 1]

LEMMA UnpackTurns ==
  ASSUME NEW b, NEW c, NEW out, NEW stops, NEW esc, NEW N \in Nat, N = Len(b)
  PROVE  \E u : UnpackTurn(b, c, out, stops, esc, N, u)
<1> DEFINE Step(n, p) == T!Copy(p, stops, esc)
           Start == [b |-> b, c |-> c, out |-> out]
           F(g, m) == [n \in 0..m |-> IF n = 0 THEN Start ELSE Step(n, g[n - 1])]
           Upto == {m \in 0..N : \E g : g = F(g, m)}
           G == CHOOSE g : g = F(g, N)
<1>1. T!Unpack(b, c, out, stops, esc)
                    = [b |-> T!Put(G[N].b, G[N].out, T!NUL), c |-> G[N].c, out |-> G[N].out + 1]
  BY Zenon DEF T!Unpack
<1> HIDE DEF Step, Start
<1>2. 0 \in Upto
  <2>1. F(<<>>, 0) = F(F(<<>>, 0), 0)
    OBVIOUS
  <2> HIDE DEF F
  <2> QED
    BY <2>1
<1>3. ASSUME NEW m \in 1..N, m - 1 \in Upto
      PROVE  m \in Upto
  <2>1. PICK g : g = F(g, m - 1)
    BY <1>3
  <2> DEFINE h == F(g, m)
  <2>2. \A n \in 1..m : h[n - 1] = g[n - 1]
    BY <2>1
  <2> HIDE DEF h
  <2>3. \A n \in 0..m : (IF n = 0 THEN Start ELSE Step(n, g[n - 1]))
                            = (IF n = 0 THEN Start ELSE Step(n, h[n - 1]))
    BY <2>2
  <2>4. F(g, m) = F(h, m)
    BY <2>3
  <2> HIDE DEF F, h
  <2> QED
    BY <2>4 DEF h
<1>4. N \in Upto
  <2> HIDE DEF Upto
  <2>1. \A m \in 1..N : m - 1 \in Upto => m \in Upto
    BY <1>3
  <2>2. \A m \in 0..N : m \in Upto
    BY <1>2, <2>1, UpTo
  <2> QED
    BY <2>2
<1>5. G = F(G, N)
  <2> HIDE DEF F
  <2> QED
    BY <1>4
<1>6. G[0] = Start /\ \A n \in 1..N : G[n] = Step(n, G[n - 1])
  <2> HIDE DEF G
  <2> QED
    BY <1>5
<1> HIDE DEF G
<1> QED
  BY <1>1, <1>6, Zenon DEF Start, Step, UnpackTurn

\* Writing an octet within the buffer.
LEMMA PutIs ==
  ASSUME NEW b \in Seq(Octets), NEW i \in 1..Len(b), NEW x \in Octets
  PROVE  /\ T!Put(b, i, x) \in Seq(Octets) /\ Len(T!Put(b, i, x)) = Len(b)
         /\ T!Put(b, i, x)[i] = x
         /\ \A j \in 1..Len(b) : j # i => T!Put(b, i, x)[j] = b[j]
<1>1. PICK N \in Nat : N = Len(b) /\ DOMAIN b = 1..N
  BY LenProperties
<1>2. \A j \in 1..N : b[j] \in Octets
  BY <1>1, ElementOfSeq
<1>3. DOMAIN b \cup {i} = 1..N
  BY <1>1
<1>4. T!Put(b, i, x) = [j \in 1..N |-> IF j = i THEN x ELSE b[j]]
  BY <1>3 DEF T!Put
<1>5. T!Put(b, i, x) \in [1..N -> Octets]
  BY <1>2, <1>4
<1>6. T!Put(b, i, x) \in Seq(Octets) /\ Len(T!Put(b, i, x)) = N
  BY <1>5, FunSeq
<1> QED
  BY <1>1, <1>4, <1>6

\* The positions from c on of the octets that are kept: an esc is not, unless it is
\* literal.
KeptFrom(s, c, esc, lit) == {i \in c..Len(s) : i \in lit \/ s[i] \notin esc}

\* Where one buffer is as another: before out, and from there on.
SameOutside(b, r, low, high) ==
  \A j \in 1..Len(b) : j < low \/ high <= j => r[j] = b[j]

\* The octets of s at the positions of S stand in b one after another from out on.
Laid(s, b, out, S) == \A i \in S : b[(out + CountTo(S, i)) - 1] = s[i]

\* A string is copied from position c of b to out, and p is how far it is: b is as s
\* was from c on.
Copying(s, b, c, out, stops, esc, lit, p) ==
  /\ p.b \in Seq(Octets) /\ Len(p.b) = Len(s)
  /\ p.c \in c..(Len(s) + 1) /\ p.c \notin lit
  /\ \A i \in c..(p.c - 1) : i \in lit \/ s[i] \notin stops
  /\ p.out \in Nat /\ p.out = out + CountTo(KeptFrom(s, c, esc, lit), p.c - 1) /\ p.out < p.c
  /\ \A i \in KeptFrom(s, c, esc, lit) :
       i < p.c => p.b[(out + CountTo(KeptFrom(s, c, esc, lit), i)) - 1] = s[i]
  /\ SameOutside(b, p.b, out, p.out)

\* Where a string may be copied to the front: lit are the octets that are literal.
MayCopy(s, b, c, out, stops, esc, lit) ==
  /\ b \in Seq(Octets) /\ Len(b) = Len(s)
  /\ c \in 1..(Len(s) + 1) /\ out \in 1..(c - 1)
  /\ \A i \in c..Len(s) : b[i] = s[i]
  /\ stops \cap esc = {}
  /\ c \notin lit /\ Len(s) + 1 \notin lit
  /\ \A i \in c..Len(s) : i + 1 \in lit <=> i \notin lit /\ s[i] \in esc

\* One turn of the loop.
LEMMA CopyStep ==
  ASSUME NEW s \in Seq(Octets), NEW b, NEW c, NEW out, NEW stops, NEW esc, NEW lit,
         MayCopy(s, b, c, out, stops, esc, lit),
         NEW p, Copying(s, b, c, out, stops, esc, lit, p),
         p.c <= Len(s), s[p.c] \notin stops
  PROVE  /\ Copying(s, b, c, out, stops, esc, lit, T!Copy(p, stops, esc))
         /\ T!Copy(p, stops, esc).c > p.c
<1>1. PICK N \in Nat : N = Len(s) /\ DOMAIN s = 1..N
  BY LenProperties
<1>2. c \in 1..(N + 1) /\ out \in 1..(c - 1) /\ b \in Seq(Octets) /\ Len(b) = N
  BY <1>1 DEF MayCopy
<1>3. PICK q \in 1..N : q = p.c
  BY <1>1, <1>2 DEF Copying
<1>4. PICK o \in 1..N : o = p.out
  <2>1. PICK k \in Nat : k = CountTo(KeptFrom(s, c, esc, lit), q - 1)
    <3>1. KeptFrom(s, c, esc, lit) \in SUBSET (1..N) /\ q - 1 \in 0..N
      BY <1>1, <1>2, <1>3 DEF KeptFrom
    <3> QED
      BY <3>1, CountFinite
  <2>2. p.out = out + k /\ p.out < q
    BY <1>3, <2>1 DEF Copying
  <2> QED
    BY <1>2, <2>1, <2>2
<1>5. PICK g \in Seq(Octets) : g = p.b /\ Len(g) = N
  BY <1>1 DEF Copying
<1> DEFINE K == KeptFrom(s, c, esc, lit)
<1>6. /\ c <= q /\ q \notin lit /\ o < q /\ o = out + CountTo(K, q - 1)
      /\ \A i \in c..(q - 1) : i \in lit \/ s[i] \notin stops
      /\ \A i \in K : i < q => g[(out + CountTo(K, i)) - 1] = s[i]
      /\ \A j \in 1..N : j < out \/ o <= j => g[j] = b[j]
  BY <1>2, <1>3, <1>4, <1>5, <1>1 DEF Copying, SameOutside
<1>7. K \in SUBSET (1..N) /\ \A i \in 1..N : i \in K <=> c <= i /\ (i \in lit \/ s[i] \notin esc)
  BY <1>1, <1>2 DEF KeptFrom
<1>8. /\ \A i \in c..N : b[i] = s[i]
      /\ c \notin lit /\ N + 1 \notin lit
      /\ \A i \in c..N : i + 1 \in lit <=> i \notin lit /\ s[i] \in esc
  BY <1>1 DEF MayCopy
<1>9. g[q] = s[q]
  BY <1>3, <1>4, <1>6, <1>8, <1>2, SMTT(60)
<1> DEFINE t == IF s[q] \in esc THEN q + 1 ELSE q
<1>10. T!Copy(p, stops, esc) = [b |-> T!Put(g, o, g[t]), c |-> t + 1, out |-> o + 1]
  BY <1>1, <1>3, <1>4, <1>5, <1>9 DEF T!Copy
<1>11. /\ t \in q..N /\ t + 1 \notin lit
       /\ \A i \in q..t : i \in lit \/ s[i] \notin stops
       /\ t \in K /\ \A i \in q..(t - 1) : i \notin K
  <2>1. CASE s[q] \in esc
    <3>1. q + 1 \in lit /\ q \in c..N
      BY <1>3, <1>6, <1>8, <2>1
    <3>2. q + 1 \in c..N
      <4>1. q # N
        BY <1>8, <3>1
      <4> QED
        BY <1>2, <1>3, <3>1, <4>1
    <3>3. (q + 1) + 1 \notin lit
      BY <1>8, <3>1, <3>2
    <3>4. q + 1 \in K /\ q \notin K
      BY <1>6, <1>7, <1>3, <2>1, <3>1, <3>2
    <3>5. \A i \in q..(q + 1) : i = q \/ i = q + 1
      BY <1>3
    <3>6. \A i \in q..((q + 1) - 1) : i = q
      BY <1>3
    <3> QED
      BY <1>3, <2>1, <3>1, <3>2, <3>3, <3>4, <3>5, <3>6, SMTT(60)
  <2>2. CASE s[q] \notin esc
    <3>1. q + 1 \notin lit /\ q \in c..N
      BY <1>3, <1>6, <1>8, <2>2
    <3>2. q \in K
      BY <1>6, <1>7, <1>3, <2>2
    <3>3. \A i \in q..q : i = q
      BY <1>3
    <3>4. \A i \in q..(q - 1) : FALSE
      BY <1>3
    <3> QED
      BY <1>3, <2>2, <3>1, <3>2, <3>3, <3>4, SMTT(60)
  <2> QED
    BY <2>1, <2>2
<1>12. PICK d \in 1..N : d = t /\ q <= d
  BY <1>3, <1>11
<1>13. g[d] = s[d] /\ g[d] \in Octets
  <2>1. g[d] = b[d] /\ b[d] = s[d]
    <3>1. d \in 1..N /\ o <= d /\ d \in c..N
      BY <1>2, <1>3, <1>4, <1>6, <1>12, SMTT(60)
    <3> QED
      BY <1>6, <1>8, <3>1
  <2>2. g[d] \in Octets
    BY <1>5, <1>12, ElementOfSeq
  <2> QED
    BY <2>1, <2>2
<1>14. PICK r \in Seq(Octets) : r = T!Put(g, o, g[d]) /\ Len(r) = N /\ r[o] = s[d]
                              /\ \A j \in 1..N : j # o => r[j] = g[j]
  <2>1. o \in 1..Len(g)
    BY <1>4, <1>5
  <2>2. /\ T!Put(g, o, g[d]) \in Seq(Octets) /\ Len(T!Put(g, o, g[d])) = Len(g)
        /\ T!Put(g, o, g[d])[o] = g[d]
        /\ \A j \in 1..Len(g) : j # o => T!Put(g, o, g[d])[j] = g[j]
    BY <1>13, <2>1, PutIs
  <2> QED
    BY <1>5, <1>13, <2>2, ZenonT(60)
<1> HIDE DEF t, K
<1>15. PICK z : z = T!Copy(p, stops, esc)
  OBVIOUS
<1>16. z.b = r /\ z.c = d + 1 /\ z.out = o + 1
  BY <1>10, <1>12, <1>14, <1>15
<1>17. /\ CountTo(K, d) = CountTo(K, q - 1) + 1 /\ CountTo(K, q - 1) \in Nat
       /\ \A i \in K : i < q => CountTo(K, i) \in Nat /\ CountTo(K, i) <= CountTo(K, q - 1)
  <2>1. CountTo(K, d) = CountTo(K, d - 1) + 1
    BY <1>7, <1>11, <1>12, CountStep
  <2>2. CountTo(K, q - 1) = CountTo(K, d - 1)
    <3>1. q - 1 \in 0..N /\ d - 1 \in 0..N /\ q - 1 <= d - 1
      BY <1>3, <1>12
    <3>2. \A i \in ((q - 1) + 1)..(d - 1) : i \notin K
      BY <1>3, <1>11, <1>12
    <3> QED
      BY <1>7, <3>1, <3>2, CountSame, ZenonT(60)
  <2>3. CountTo(K, q - 1) \in Nat
    <3>1. q - 1 \in 0..N
      BY <1>3
    <3> QED
      BY <1>7, <3>1, CountFinite
  <2>4. ASSUME NEW i \in K, i < q
        PROVE  CountTo(K, i) \in Nat /\ CountTo(K, i) <= CountTo(K, q - 1)
    <3>1. i \in 0..N /\ q - 1 \in 0..N /\ (i = q - 1 \/ i < q - 1)
      BY <1>3, <1>7, <2>4
    <3>2. CountTo(K, i) \in Nat
      BY <1>7, <3>1, CountFinite
    <3>3. i < q - 1 => CountTo(K, i) <= CountTo(K, q - 1)
      BY <1>7, <3>1, CountGrows
    <3> QED
      BY <3>1, <3>2, <3>3, SMTT(60)
  <2> QED
    BY <2>1, <2>2, <2>3, <2>4
<1>18. Copying(s, b, c, out, stops, esc, lit, z)
  <2>1. z.b \in Seq(Octets) /\ Len(z.b) = N
    BY <1>14, <1>16
  <2>2. z.c \in c..(N + 1) /\ z.c \notin lit
    BY <1>2, <1>6, <1>11, <1>12, <1>16
  <2>3. \A i \in c..(z.c - 1) : i \in lit \/ s[i] \notin stops
    <3>1. \A i \in c..(z.c - 1) : i \in c..(q - 1) \/ i \in q..d
      BY <1>2, <1>12, <1>16
    <3> QED
      BY <1>6, <1>11, <1>12, <3>1
  <2>4. z.out \in Nat /\ z.out = out + CountTo(K, z.c - 1) /\ z.out < z.c
    <3>1. z.c - 1 = d
      BY <1>12, <1>16
    <3>2. PICK k \in Nat : k = CountTo(K, q - 1)
      BY <1>17
    <3>3. out \in Int /\ o = out + k /\ CountTo(K, d) = k + 1
      BY <1>2, <1>6, <1>17, <3>2
    <3>4. z.out \in Nat /\ z.out = out + (k + 1) /\ z.out < z.c
      <4>1. o < q /\ q <= d /\ o \in Nat /\ d \in Nat /\ q \in Nat
        BY <1>3, <1>4, <1>6, <1>12
      <4>2. o + 1 = out + (k + 1)
        BY <3>2, <3>3
      <4> QED
        BY <1>16, <4>1, <4>2
    <3> QED
      BY <3>1, <3>3, <3>4
  <2>5. ASSUME NEW i \in K, i < z.c
        PROVE  z.b[(out + CountTo(K, i)) - 1] = s[i]
    <3>1. i < q \/ i = d
      BY <1>7, <1>11, <1>12, <1>16, <2>5
    <3>2. CASE i < q
      <4>1. PICK k \in Nat : k = CountTo(K, i) /\ k <= CountTo(K, q - 1)
        BY <1>17, <3>2
      <4>2. i \in 1..N /\ 0 \in 0..N /\ 0 < i
        BY <1>7
      <4>3. k >= 1
        <5>1. CountTo(K, i) \in 1..Cardinality(K) /\ Cardinality(K) \in Nat
          <6>1. N \in 0..N
            OBVIOUS
          <6> QED
            BY <1>7, <2>5, <6>1, NthIs, CountFinite
        <5> QED
          BY <4>1, <5>1
      <4>4. (out + k) - 1 \in 1..N /\ (out + k) - 1 # o
        BY <1>2, <1>4, <1>6, <1>17, <4>1, <4>3, SMTT(60)
      <4>5. g[(out + k) - 1] = s[i]
        BY <1>6, <2>5, <3>2, <4>1
      <4> QED
        BY <1>14, <1>16, <4>1, <4>4, <4>5
    <3>3. CASE i = d
      <4>1. (out + CountTo(K, d)) - 1 = o
        BY <1>2, <1>6, <1>17, SMTT(60)
      <4> QED
        BY <1>14, <1>16, <3>3, <4>1
    <3> QED
      BY <3>1, <3>2, <3>3
  <2>6. ASSUME NEW j \in 1..N, j < out \/ z.out <= j
        PROVE  z.b[j] = b[j]
    <3>1. j # o /\ (j < out \/ o <= j)
      <4>1. PICK k \in Nat : k = CountTo(K, q - 1)
        BY <1>17
      <4>2. out \in Int /\ out <= o
        BY <1>2, <1>4, <1>6, <4>1
      <4> QED
        BY <1>4, <1>16, <2>6, <4>2
    <3> QED
      BY <1>6, <1>14, <1>16, <3>1
  <2> QED
    BY <1>1, <1>2, <2>1, <2>2, <2>3, <2>4, <2>5, <2>6 DEF Copying, SameOutside, K
<1>19. z.c > p.c
  BY <1>3, <1>12, <1>16
<1> QED
  BY <1>15, <1>18, <1>19

\* The octets from c to e, without it, that are kept.
KeptTo(s, c, e, esc, lit) == {i \in c..(e - 1) : i \in lit \/ s[i] \notin esc}

\* What unpacking a string from c of b to out gives: it ends at the first stop, or at
\* the end; its octets stand from out on, with a NUL after them and before what
\* follows the string, and nothing else of b has changed.
Unpacked(s, b, c, out, stops, esc, lit, r) ==
  LET S == KeptTo(s, c, r.c, esc, lit) IN
  /\ r.c \in c..(Len(s) + 1) /\ r.c \notin lit
  /\ \A i \in c..(r.c - 1) : i \in lit \/ s[i] \notin stops
  /\ r.c <= Len(s) => s[r.c] \in stops
  /\ r.out = out + Cardinality(S) + 1 /\ r.out <= r.c
  /\ r.b \in Seq(Octets) /\ Len(r.b) = Len(s)
  /\ r.b[out + Cardinality(S)] = T!NUL
  /\ Laid(s, r.b, out, S)
  /\ SameOutside(b, r.b, out, r.out)

\* Unpacking a string does that.
LEMMA UnpackIs ==
  ASSUME NEW s \in Seq(Octets), NEW b, NEW c, NEW out, NEW stops, NEW esc, NEW lit,
         MayCopy(s, b, c, out, stops, esc, lit)
  PROVE  Unpacked(s, b, c, out, stops, esc, lit, T!Unpack(b, c, out, stops, esc))
<1>1. PICK N \in Nat : N = Len(s) /\ DOMAIN s = 1..N
  BY LenProperties
<1>2. c \in 1..(N + 1) /\ out \in 1..(c - 1) /\ b \in Seq(Octets) /\ Len(b) = N /\ c \notin lit
  BY <1>1 DEF MayCopy
<1>3. PICK u :
        /\ u[0] = [b |-> b, c |-> c, out |-> out]
        /\ \A n \in 1..N : u[n] = T!Copy(u[n - 1], stops, esc)
        /\ T!Unpack(b, c, out, stops, esc)
             = [b |-> T!Put(u[N].b, u[N].out, T!NUL), c |-> u[N].c, out |-> u[N].out + 1]
  <2>1. N \in Nat /\ N = Len(b)
    BY <1>2
  <2>2. PICK u : UnpackTurn(b, c, out, stops, esc, N, u)
    BY <2>1, UnpackTurns
  <2> QED
    BY <2>2 DEF UnpackTurn
<1> DEFINE K == KeptFrom(s, c, esc, lit)
           Good(p) == Copying(s, b, c, out, stops, esc, lit, p)
           Done(p) == p.c <= N => s[p.c] \in stops
           Going == {n \in 0..N : Good(u[n]) /\ (Done(u[n]) \/ u[n].c >= c + n)}
<1>4. K \in SUBSET (1..N) /\ \A i \in 1..N : i \in K <=> c <= i /\ (i \in lit \/ s[i] \notin esc)
  BY <1>1, <1>2 DEF KeptFrom
<1>5. 0 \in Going
  <2>1. PICK p : p = u[0]
    OBVIOUS
  <2>2. p.b = b /\ p.c = c /\ p.out = out
    BY <1>3, <2>1
  <2>3. CountTo(K, c - 1) = 0
    <3>1. 0 \in 0..N /\ c - 1 \in 0..N /\ 0 <= c - 1
      BY <1>2
    <3>2. \A i \in (0 + 1)..(c - 1) : i \notin K
      BY <1>2, <1>4
    <3> HIDE DEF K
    <3>3. CountTo(K, 0) = CountTo(K, c - 1)
      BY <1>4, <3>1, <3>2, CountSame
    <3>4. CountTo(K, 0) = 0
      BY <1>4, <3>1, CountFinite
    <3> QED
      BY <3>3, <3>4
  <2>4. \A i \in K : ~(i < c)
    BY <1>2, <1>4
  <2>5. c \in c..(N + 1) /\ \A i \in c..(c - 1) : FALSE
    BY <1>2
  <2>6. out \in Nat /\ out < c /\ out = out + 0
    BY <1>2
  <2>7. Good(p)
    BY <1>1, <1>2, <2>2, <2>3, <2>4, <2>5, <2>6 DEF Copying, SameOutside
  <2>8. p.c >= c + 0
    BY <1>2, <2>2
  <2> QED
    BY <2>1, <2>7, <2>8
<1>6. ASSUME NEW n \in 1..N, n - 1 \in Going
      PROVE  n \in Going
  <2>1. PICK p : p = u[n - 1]
    OBVIOUS
  <2>2. u[n] = T!Copy(p, stops, esc) /\ Good(p) /\ (Done(p) \/ p.c >= c + (n - 1))
    BY <1>3, <1>6, <2>1
  <2>3. p.c \in c..(N + 1) /\ p.out < p.c /\ p.c \notin lit
    BY <1>1, <2>2 DEF Copying
  <2>4. CASE p.c <= N /\ s[p.c] \notin stops
    <3>1. Good(u[n]) /\ u[n].c > p.c
      BY <1>1, <2>2, <2>4, CopyStep
    <3>2. u[n].c \in c..(N + 1)
      BY <1>1, <3>1 DEF Copying
    <3>3. u[n].c >= c + n
      BY <1>2, <2>2, <2>3, <2>4, <3>1, <3>2
    <3> HIDE DEF Good
    <3> QED
      BY <3>1, <3>3
  <2>5. CASE p.c = N + 1 \/ s[p.c] \in stops
    <3>1. Done(p)
      BY <1>1, <2>5
    <3>2. T!Copy(p, stops, esc) = p
      <4>1. CASE p.c = N + 1
        <5>1. p.c > Len(p.b)
          BY <1>1, <2>2, <4>1 DEF Copying
        <5> QED
          BY <5>1 DEF T!Copy
      <4>2. CASE p.c # N + 1
        <5>1. PICK q \in 1..N : q = p.c
          BY <1>2, <2>3, <4>2
        <5>2. p.b[q] = b[q] /\ b[q] = s[q]
          <6>1. p.out <= q /\ q \in c..N
            BY <2>2, <2>3, <5>1 DEF Copying
          <6> QED
            BY <1>1, <1>2, <2>2, <5>1, <6>1 DEF Copying, SameOutside, MayCopy
        <5>3. p.b[p.c] \in stops
          BY <2>5, <4>2, <5>1, <5>2
        <5> QED
          BY <5>3 DEF T!Copy
      <4> QED
        BY <4>1, <4>2
    <3> HIDE DEF Good, Done
    <3> QED
      BY <2>2, <3>1, <3>2
  <2> QED
    BY <2>3, <2>4, <2>5
<1>7. N \in Going
  <2> HIDE DEF Going
  <2>1. \A n \in 1..N : n - 1 \in Going => n \in Going
    BY <1>6
  <2>2. \A n \in 0..N : n \in Going
    BY <1>5, <2>1, UpTo
  <2> QED
    BY <2>2
<1>8. PICK p : p = u[N]
  OBVIOUS
<1>9. Good(p) /\ Done(p)
  <2>1. Good(p) /\ (Done(p) \/ p.c >= c + N)
    BY <1>7, <1>8
  <2>2. p.c \in c..(N + 1)
    BY <1>1, <2>1 DEF Copying
  <2>3. p.c >= c + N => ~(p.c <= N)
    BY <1>2, <2>2
  <2> QED
    BY <2>1, <2>3
<1>10. PICK e \in 1..(N + 1) : e = p.c /\ c <= e /\ e \notin lit
  BY <1>1, <1>2, <1>9 DEF Copying
<1>11. PICK k \in Nat : k = CountTo(K, e - 1) /\ p.out = out + k
  <2>1. e - 1 \in 0..N
    BY <1>10
  <2>2. CountTo(K, e - 1) \in Nat
    BY <1>4, <2>1, CountFinite
  <2> QED
    BY <1>9, <1>10, <2>2 DEF Copying
<1>12. PICK g \in Seq(Octets) : g = p.b /\ Len(g) = N
  BY <1>1, <1>9 DEF Copying
<1>13. /\ out + k \in 1..N /\ out + k < e
       /\ \A i \in c..(e - 1) : i \in lit \/ s[i] \notin stops
       /\ \A i \in K : i < e => g[(out + CountTo(K, i)) - 1] = s[i]
       /\ \A j \in 1..N : j < out \/ out + k <= j => g[j] = b[j]
  <2>1. out + k < e
    BY <1>9, <1>10, <1>11 DEF Copying
  <2>2. out + k \in 1..N
    BY <1>2, <1>10, <1>11, <2>1, SMTT(60)
  <2> QED
    BY <1>9, <1>10, <1>11, <1>12, <1>2, <2>1, <2>2 DEF Copying, SameOutside
<1> DEFINE S == KeptTo(s, c, e, esc, lit)
<1>14. /\ S = {i \in K : i <= e - 1} /\ S \in SUBSET (1..N)
       /\ \A i \in S : i \in K /\ i < e
  BY <1>1, <1>2, <1>4, <1>10 DEF KeptTo
<1>15. Cardinality(S) = k /\ \A i \in S : CountTo(S, i) = CountTo(K, i)
  <2>1. Cardinality(S) = k
    BY <1>11, <1>14 DEF CountTo
  <2>2. ASSUME NEW i \in S
        PROVE  {j \in S : j <= i} = {j \in K : j <= i}
    <3>1. \A j \in K : j <= i => j <= e - 1
      BY <1>4, <1>10, <1>14
    <3> QED
      BY <1>14, <3>1
  <2> QED
    BY <2>1, <2>2 DEF CountTo
<1>16. PICK w \in Seq(Octets) : w = T!Put(g, out + k, T!NUL) /\ Len(w) = N /\ w[out + k] = T!NUL
                                /\ \A j \in 1..N : j # out + k => w[j] = g[j]
  <2>1. PICK o \in 1..N : o = out + k
    BY <1>13
  <2>2. o \in 1..Len(g) /\ T!NUL \in Octets
    BY <1>12, <2>1 DEF T!NUL, Octets
  <2>3. /\ T!Put(g, o, T!NUL) \in Seq(Octets) /\ Len(T!Put(g, o, T!NUL)) = Len(g)
        /\ T!Put(g, o, T!NUL)[o] = T!NUL
        /\ \A j \in 1..Len(g) : j # o => T!Put(g, o, T!NUL)[j] = g[j]
    BY <2>2, PutIs
  <2> QED
    BY <1>12, <2>1, <2>3, Zenon
<1>17. PICK r : r = T!Unpack(b, c, out, stops, esc)
  OBVIOUS
<1> HIDE DEF K, Good, S
<1>18. r.b = w /\ r.c = e /\ r.out = (out + k) + 1
  BY <1>3, <1>8, <1>10, <1>11, <1>12, <1>16, <1>17
<1>19. Laid(s, w, out, S)
  <2> SUFFICES ASSUME NEW i \in S
               PROVE  w[(out + CountTo(S, i)) - 1] = s[i]
    BY DEF Laid
  <2>1. CountTo(S, i) \in 1..k
    <3>1. CountTo(S, i) \in 1..Cardinality(S)
      BY <1>14, NthIs
    <3> QED
      BY <1>15, <3>1
  <2>2. PICK m \in 1..k : m = CountTo(S, i)
    BY <2>1
  <2>3. (out + m) - 1 \in 1..N /\ (out + m) - 1 # out + k
    BY <1>2, <1>13, <2>2
  <2>4. g[(out + m) - 1] = s[i]
    BY <1>13, <1>14, <1>15, <2>2
  <2> QED
    BY <1>16, <2>2, <2>3, <2>4
<1>20. SameOutside(b, w, out, (out + k) + 1)
  <2> SUFFICES ASSUME NEW j \in 1..N, j < out \/ (out + k) + 1 <= j
               PROVE  w[j] = b[j]
    BY <1>2 DEF SameOutside
  <2>1. j # out + k /\ (j < out \/ out + k <= j)
    BY <1>2, <1>11, SMTT(60)
  <2> QED
    BY <1>13, <1>16, <2>1
<1>21. e <= N => s[e] \in stops
  BY <1>9, <1>10
<1>22. (out + k) + 1 <= e /\ e \in c..(N + 1)
  BY <1>2, <1>10, <1>13
<1>23. Unpacked(s, b, c, out, stops, esc, lit, r)
  BY <1>1, <1>10, <1>13, <1>15, <1>16, <1>18, <1>19, <1>20, <1>21, <1>22 DEF Unpacked, S
<1> QED
  BY <1>17, <1>23

-----------------------------------------------------------------------------
(* C strings that are stored in a buffer.                                  *)

\* The C string at a position of a buffer is what was laid there, up to its first NUL.
LEMMA StringIs ==
  ASSUME NEW b \in Seq(Octets), NEW w \in Seq(Octets), NEW k \in Nat, k = Len(w),
         NEW p \in Nat \ {0}, p + k <= Len(b), b[p + k] = T!NUL,
         \A n \in 1..k : b[(p + n) - 1] = w[n]
  PROVE  T!StringAt(b, p) = UpToNul(w)
<1>1. PICK N \in Nat : N = Len(b) /\ p + k <= N
  BY LenProperties
<1> DEFINE Nuls == {n \in 0..k : n = k \/ w[n + 1] = T!NUL}
<1>2. PICK m \in Nuls : \A n \in Nuls : m <= n
  <2>1. k \in Nuls /\ Nuls \in SUBSET Nat
    OBVIOUS
  <2> HIDE DEF Nuls
  <2> QED
    BY <2>1, LeastOf
<1>3. m \in 0..k /\ (m = k \/ w[m + 1] = T!NUL)
  OBVIOUS
<1>4. \A i \in 1..m : w[i] # T!NUL
  <2> SUFFICES ASSUME NEW i \in 1..m, w[i] = T!NUL
               PROVE  FALSE
    OBVIOUS
  <2>1. PICK n \in 0..k : n = i - 1 /\ n + 1 = i /\ n < m
    BY <1>3
  <2>2. n \in Nuls
    BY <2>1
  <2> HIDE DEF Nuls
  <2>3. m <= n
    BY <1>2, <2>2
  <2> QED
    BY <1>3, <2>1, <2>3
<1> HIDE DEF Nuls
<1>5. UpToNul(w) = SubSeq(w, 1, m)
  <2>1. m \in 0..Len(w) /\ (\A i \in 1..m : w[i] # T!NUL) /\ (m = Len(w) \/ w[m + 1] = T!NUL)
    BY <1>3, <1>4
  <2>2. ASSUME NEW n \in 0..Len(w), \A i \in 1..n : w[i] # T!NUL, n = Len(w) \/ w[n + 1] = T!NUL
        PROVE  n = m
    <3>1. ~(n < m)
      <4> SUFFICES ASSUME n < m
                   PROVE  FALSE
        OBVIOUS
      <4>1. n + 1 \in 1..m /\ n # k
        BY <1>3, <2>2
      <4> QED
        BY <1>4, <2>2, <4>1
    <3>2. ~(m < n)
      <4> SUFFICES ASSUME m < n
                   PROVE  FALSE
        OBVIOUS
      <4>1. m + 1 \in 1..n /\ m # k
        BY <1>3, <2>2
      <4> QED
        BY <1>3, <2>2, <4>1
    <3> QED
      BY <1>3, <3>1, <3>2
  <2>3. m = CHOOSE n \in 0..Len(w) :
             (\A i \in 1..n : w[i] # T!NUL) /\ (n = Len(w) \/ w[n + 1] = T!NUL)
    BY <2>1, <2>2
  <2> QED
    BY <2>3 DEF UpToNul
<1>6. PICK e \in 1..N : e = p + m /\ p <= e
  BY <1>1, <1>3
<1>7. b[e] = T!NUL /\ \A j \in p..(e - 1) : b[j] # T!NUL
  <2>1. b[e] = T!NUL
    <3>1. CASE m = k
      BY <1>6, <3>1
    <3>2. CASE m # k
      <4>1. PICK n \in 1..k : n = m + 1 /\ w[n] = T!NUL
        BY <1>3, <3>2
      <4>2. (p + n) - 1 = e
        BY <1>3, <1>6, <4>1
      <4>3. b[(p + n) - 1] = w[n]
        OBVIOUS
      <4> QED
        BY <4>1, <4>2, <4>3
    <3> QED
      BY <3>1, <3>2
  <2>2. ASSUME NEW j \in p..(e - 1)
        PROVE  b[j] # T!NUL
    <3>1. PICK n \in 1..m : n = (j - p) + 1 /\ (p + n) - 1 = j
      BY <1>3, <1>6
    <3>2. n \in 1..k
      BY <1>3
    <3>3. b[(p + n) - 1] = w[n]
      BY <3>2
    <3> QED
      BY <1>4, <3>1, <3>3
  <2> QED
    BY <2>1, <2>2
<1>8. T!StringAt(b, p) = SubSeq(b, p, e - 1)
  <2>1. e \in p..Len(b)
    BY <1>1, <1>6
  <2>2. ASSUME NEW f \in p..Len(b), b[f] = T!NUL, \A j \in p..(f - 1) : b[j] # T!NUL
        PROVE  f = e
    <3>1. ~(f < e)
      <4> SUFFICES ASSUME f < e
                   PROVE  FALSE
        OBVIOUS
      <4>1. f \in p..(e - 1)
        BY <1>6
      <4> QED
        BY <1>7, <2>2, <4>1
    <3>2. ~(e < f)
      <4> SUFFICES ASSUME e < f
                   PROVE  FALSE
        OBVIOUS
      <4>1. e \in p..(f - 1)
        BY <1>6
      <4> QED
        BY <1>7, <2>2, <4>1
    <3> QED
      BY <1>6, <3>1, <3>2
  <2>3. e = CHOOSE f \in p..Len(b) :
              b[f] = T!NUL /\ \A j \in p..(f - 1) : b[j] # T!NUL
    BY <1>7, <2>1, <2>2
  <2> QED
    BY <2>3 DEF T!StringAt
<1>9. PICK x \in Seq(Octets) : x = SubSeq(w, 1, m) /\ Len(x) = m /\ \A i \in 1..m : x[i] = w[i]
  <2>1. 1 \in 1..(Len(w) + 1) /\ m \in (1 - 1)..Len(w)
    BY <1>3
  <2>2. /\ SubSeq(w, 1, m) \in Seq(Octets) /\ Len(SubSeq(w, 1, m)) = (m - 1) + 1
        /\ \A i \in 1..((m - 1) + 1) : SubSeq(w, 1, m)[i] = w[(1 + i) - 1]
    BY <2>1, Slice
  <2>3. (m - 1) + 1 = m /\ \A i \in 1..m : (1 + i) - 1 = i
    BY <1>3
  <2> QED
    BY <2>2, <2>3, ZenonT(60)
<1>10. PICK y \in Seq(Octets) : y = SubSeq(b, p, e - 1) /\ Len(y) = m
                                /\ \A i \in 1..m : y[i] = b[(p + i) - 1]
  <2>1. PICK f \in 0..N : f = e - 1
    BY <1>6
  <2>2. p \in 1..(Len(b) + 1) /\ f \in (p - 1)..Len(b)
    BY <1>1, <1>6, <2>1
  <2>3. /\ SubSeq(b, p, f) \in Seq(Octets) /\ Len(SubSeq(b, p, f)) = (f - p) + 1
        /\ \A i \in 1..((f - p) + 1) : SubSeq(b, p, f)[i] = b[(p + i) - 1]
    BY <2>2, Slice
  <2>4. (f - p) + 1 = m
    BY <1>3, <1>6, <2>1
  <2> QED
    BY <2>1, <2>3, <2>4
<1>11. x = y
  <2>1. \A i \in 1..m : x[i] = y[i]
    <3> SUFFICES ASSUME NEW i \in 1..m
                 PROVE  x[i] = y[i]
      OBVIOUS
    <3>1. i \in 1..k
      BY <1>3
    <3> QED
      BY <1>9, <1>10, <3>1
  <2> QED
    BY <1>9, <1>10, <2>1, SeqEqual
<1> QED
  BY <1>5, <1>8, <1>9, <1>10, <1>11

\* A string is stored at p of b, before out: the octets of the input at the positions of
\* S, and a NUL.
Stored(b, p, S, out) ==
  /\ p \in Nat \ {0} /\ p + Cardinality(S) < out
  /\ b[p + Cardinality(S)] = T!NUL
  /\ Laid(input, b, p, S)

LEMMA StoredText ==
  ASSUME NEW N \in Nat, input \in Seq(Octets), Len(input) = N, NEW S \in SUBSET (1..N),
         NEW b \in Seq(Octets), Len(b) = N, NEW p, NEW out \in 1..(N + 1), Stored(b, p, S, out)
  PROVE  T!StringAt(b, p) = TextOf(S)
<1>1. PICK k \in Nat : k = Cardinality(S)
  <2>1. N \in 0..N
    OBVIOUS
  <2> QED
    BY <2>1, CountFinite
<1>2. p \in Nat \ {0} /\ p + k < out /\ b[p + k] = T!NUL /\ Laid(input, b, p, S)
  BY <1>1 DEF Stored
<1>3. PICK w : w = [n \in 1..k |-> input[Nth(S, n)]]
  OBVIOUS
<1>4. \A n \in 1..k : Nth(S, n) \in S /\ CountTo(S, Nth(S, n)) = n
  BY <1>1, NthCovers
<1>5. \A i \in 1..N : input[i] \in Octets
  BY ElementOfSeq
<1>6. w \in [1..k -> Octets]
  BY <1>3, <1>4, <1>5
<1>7. w \in Seq(Octets) /\ Len(w) = k
  BY <1>6, FunSeq
<1>8. ASSUME NEW n \in 1..k
      PROVE  b[(p + n) - 1] = w[n]
  <2>1. PICK i \in S : i = Nth(S, n) /\ CountTo(S, i) = n
    BY <1>4
  <2>2. b[(p + n) - 1] = input[i]
    BY <1>2, <2>1 DEF Laid
  <2> QED
    BY <1>3, <2>1, <2>2
<1>9. p + k <= Len(b)
  BY <1>2
<1>10. T!StringAt(b, p) = UpToNul(w)
  BY <1>2, <1>7, <1>8, <1>9, StringIs
<1> QED
  BY <1>1, <1>3, <1>10 DEF TextOf

\* Writing behind a stored string leaves it.
LEMMA StoredStays ==
  ASSUME NEW N \in Nat, NEW S \in SUBSET (1..N), NEW b \in Seq(Octets), Len(b) = N, NEW p,
         NEW out \in 1..(N + 1), Stored(b, p, S, out),
         NEW r, NEW high \in Nat, out <= high, SameOutside(b, r, out, high)
  PROVE  Stored(r, p, S, high)
<1>1. PICK k \in Nat : k = Cardinality(S)
  <2>1. N \in 0..N
    OBVIOUS
  <2> QED
    BY <2>1, CountFinite
<1>2. p \in Nat \ {0} /\ p + k < out /\ b[p + k] = T!NUL
      /\ \A i \in S : b[(p + CountTo(S, i)) - 1] = input[i]
  BY <1>1 DEF Stored, Laid
<1>3. \A j \in 1..N : j < out => r[j] = b[j]
  BY DEF SameOutside
<1>4. r[p + k] = T!NUL /\ p + k < high
  <2>1. p + k \in 1..N
    BY <1>2
  <2> QED
    BY <1>2, <1>3, <2>1
<1>5. ASSUME NEW i \in S
      PROVE  r[(p + CountTo(S, i)) - 1] = input[i]
  <2>1. PICK m \in 1..k : m = CountTo(S, i)
    BY <1>1, NthIs
  <2>2. PICK j \in 1..N : j = (p + m) - 1 /\ j < out
    <3>1. (p + m) - 1 \in 1..N /\ (p + m) - 1 < out
      BY <1>2
    <3> QED
      BY <3>1
  <2>3. b[j] = input[i]
    BY <1>2, <2>1, <2>2
  <2>4. r[j] = b[j]
    BY <1>3, <2>2
  <2> QED
    BY <2>1, <2>2, <2>3, <2>4
<1> QED
  BY <1>1, <1>2, <1>4, <1>5 DEF Stored, Laid

\* What was unpacked is stored.
LEMMA UnpackedStored ==
  ASSUME NEW N \in Nat, input \in Seq(Octets), Len(input) = N,
         NEW b, NEW c \in 1..(N + 1), NEW out \in 1..N, NEW stops, NEW esc, NEW lit, NEW r,
         Unpacked(input, b, c, out, stops, esc, lit, r)
  PROVE  /\ Stored(r.b, out, KeptTo(input, c, r.c, esc, lit), r.out)
         /\ r.c \in c..(N + 1) /\ r.out \in (out + 1)..r.c
<1>1. PICK e \in c..(N + 1) : e = r.c
  BY DEF Unpacked
<1>2. PICK S : S = KeptTo(input, c, r.c, esc, lit)
  OBVIOUS
<1>3. S \in SUBSET (1..N)
  BY <1>1, <1>2 DEF KeptTo
<1>4. PICK k \in Nat : k = Cardinality(S)
  <2>1. N \in 0..N
    OBVIOUS
  <2> QED
    BY <1>3, <2>1, CountFinite
<1>5. r.out = out + k + 1 /\ r.out <= e /\ r.b[out + k] = T!NUL /\ Laid(input, r.b, out, S)
  BY <1>1, <1>2, <1>4 DEF Unpacked
<1>6. out \in Nat \ {0} /\ out + k < r.out
  BY <1>5
<1> QED
  BY <1>1, <1>2, <1>4, <1>5, <1>6 DEF Stored

-----------------------------------------------------------------------------
(* MSSP.                                                                   *)

\* The entries that the event announces.
ValCount(b) == Cardinality({i \in DOMAIN b : b[i] = T!MsspVal})

\* The turns of the loop that unpacks the strings of MSSP, whatever octet lies
\* behind them.
LEMMA MsspsTurns ==
  ASSUME NEW b, NEW out, NEW behind, NEW N \in Nat, N = Len(b)
  PROVE  \E u :
               /\ u[0] = [b |-> b, c |-> 2, out |-> out, type |-> T!MsspVar, var |-> 0, values |-> <<>>]
               /\ \A n \in 1..N : u[n] = T!MsspEntry(u[n - 1], behind)
               /\ T!Mssps(b, out, behind) 
                    = [buffer |-> u[N].b, values |-> u[N].values, size |-> ValCount(b)]
<1> DEFINE Step(n, p) == T!MsspEntry(p, behind)
           Start == [b |-> b, c |-> 2, out |-> out, type |-> T!MsspVar, var |-> 0, values |-> <<>>]
           F(g, m) == [n \in 0..m |-> IF n = 0 THEN Start ELSE Step(n, g[n - 1])]
           Upto == {m \in 0..N : \E g : g = F(g, m)}
           G == CHOOSE g : g = F(g, N)
<1>1. T!Mssps(b, out, behind) = [buffer |-> G[N].b, values |-> G[N].values, size |-> ValCount(b)]
  <2>1. T!Cardinality({i \in DOMAIN b : b[i] = T!MsspVal}) = ValCount(b)
    BY Zenon DEF T!Cardinality, Cardinality, ValCount
  <2> QED
    BY <2>1, Zenon DEF T!Mssps
<1> HIDE DEF Step, Start
<1>2. 0 \in Upto
  <2>1. F(<<>>, 0) = F(F(<<>>, 0), 0)
    OBVIOUS
  <2> HIDE DEF F
  <2> QED
    BY <2>1
<1>3. ASSUME NEW m \in 1..N, m - 1 \in Upto
      PROVE  m \in Upto
  <2>1. PICK g : g = F(g, m - 1)
    BY <1>3
  <2> DEFINE h == F(g, m)
  <2>2. \A n \in 1..m : h[n - 1] = g[n - 1]
    BY <2>1
  <2> HIDE DEF h
  <2>3. \A n \in 0..m : (IF n = 0 THEN Start ELSE Step(n, g[n - 1]))
                            = (IF n = 0 THEN Start ELSE Step(n, h[n - 1]))
    BY <2>2
  <2>4. F(g, m) = F(h, m)
    BY <2>3
  <2> HIDE DEF F, h
  <2> QED
    BY <2>4 DEF h
<1>4. N \in Upto
  <2> HIDE DEF Upto
  <2>1. \A m \in 1..N : m - 1 \in Upto => m \in Upto
    BY <1>3
  <2>2. \A m \in 0..N : m \in Upto
    BY <1>2, <2>1, UpTo
  <2> QED
    BY <2>2
<1>5. G = F(G, N)
  <2> HIDE DEF F
  <2> QED
    BY <1>4
<1>6. G[0] = Start /\ \A n \in 1..N : G[n] = Step(n, G[n - 1])
  <2> HIDE DEF G
  <2> QED
    BY <1>5
<1> HIDE DEF G
<1> QED
  BY <1>1, <1>6, Zenon DEF Start, Step

\* The signs of MSSP, the values among them, the string after a sign, and the name that
\* a value belongs to.
Signs == {T!MsspVar, T!MsspVal}
Vals == {i \in DOMAIN input : input[i] = T!MsspVal}
RunFrom(i) == {j \in (i + 1)..Len(input) : \A k \in (i + 1)..j : input[k] \notin Signs}
IsName(j, i) == input[j] = T!MsspVar /\ \A k \in (j + 1)..i : input[k] # T!MsspVar

\* A value and its name are stored before out.
MsspStored(b, v, i, out) ==
  /\ Stored(b, v.value, RunFrom(i), out)
  /\ \E j \in 1..i : IsName(j, i) /\ Stored(b, v.var, RunFrom(j), out)

\* How far the strings are unpacked.
Mssping(p) ==
  /\ p.b \in Seq(Octets) /\ Len(p.b) = Len(input)
  /\ p.c \in 2..(Len(input) + 2) /\ p.out \in 1..(p.c - 1) /\ p.out <= Len(input) + 1
  /\ \A i \in p.c..Len(input) : p.b[i] = input[i]
  /\ p.c <= Len(input) + 1 => p.type = input[p.c - 1] /\ p.type \in Signs
  /\ p.c = Len(input) + 2 => input[Len(input)] \notin Signs
  /\ p.c <= Len(input) + 1 /\ p.type = T!MsspVal =>
       \E j \in 1..(p.c - 1) : IsName(j, p.c - 1) /\ Stored(p.b, p.var, RunFrom(j), p.out)
  /\ p.var \in Nat /\ p.values \in Seq([var : Nat, value : Nat])
  /\ Len(p.values) = CountTo(Vals, p.c - 2)
  /\ \A i \in Vals : i <= p.c - 2 => MsspStored(p.b, p.values[CountTo(Vals, i)], i, p.out)

LEMMA RunIs ==
  ASSUME NEW N \in Nat, Len(input) = N, NEW c \in 2..(N + 1), NEW e \in c..(N + 1),
         \A i \in c..(e - 1) : input[i] \notin Signs, e <= N => input[e] \in Signs
  PROVE  RunFrom(c - 1) = KeptTo(input, c, e, {}, {}) /\ RunFrom(c - 1) \in SUBSET (1..N)
<1>1. (c - 1) + 1 = c
  OBVIOUS
<1>2. RunFrom(c - 1) = {j \in c..N : \A k \in c..j : input[k] \notin Signs}
  BY <1>1 DEF RunFrom
<1>3. KeptTo(input, c, e, {}, {}) = c..(e - 1)
  BY DEF KeptTo
<1>4. ASSUME NEW j \in c..N
      PROVE  (\A k \in c..j : input[k] \notin Signs) <=> j \in c..(e - 1)
  <2>1. CASE j < e
    <3>1. \A k \in c..j : k \in c..(e - 1)
      BY <2>1
    <3> QED
      BY <2>1, <3>1
  <2>2. CASE e <= j
    <3>1. e \in c..j /\ input[e] \in Signs /\ j \notin c..(e - 1)
      BY <2>2
    <3> QED
      BY <3>1
  <2> QED
    BY <2>1, <2>2
<1>5. \A j \in c..(e - 1) : j \in c..N
  OBVIOUS
<1>6. c..N \in SUBSET (1..N)
  OBVIOUS
<1> HIDE DEF RunFrom, KeptTo, Signs
<1>7. RunFrom(c - 1) = c..(e - 1)
  BY <1>2, <1>4, <1>5
<1> QED
  BY <1>3, <1>5, <1>6, <1>7

LEMMA ValsIn ==
  ASSUME NEW N \in Nat, input \in Seq(Octets), Len(input) = N
  PROVE  Vals \in SUBSET (1..N) /\ \A i \in 1..N : i \in Vals <=> input[i] = T!MsspVal
<1>1. DOMAIN input = 1..N
  BY LenProperties
<1> QED
  BY <1>1 DEF Vals

LEMMA RunIn ==
  ASSUME NEW N \in Nat, Len(input) = N, NEW i \in Nat
  PROVE  RunFrom(i) \in SUBSET (1..N)
BY DEF RunFrom

LEMMA MsspStays ==
  ASSUME NEW N \in Nat, input \in Seq(Octets), Len(input) = N,
         NEW b \in Seq(Octets), Len(b) = N, NEW v, NEW i \in 1..N,
         NEW out \in 1..(N + 1), MsspStored(b, v, i, out),
         NEW r, NEW high \in Nat, out <= high, SameOutside(b, r, out, high)
  PROVE  MsspStored(r, v, i, high)
<1>1. Stored(r, v.value, RunFrom(i), high)
  <2>1. RunFrom(i) \in SUBSET (1..N) /\ Stored(b, v.value, RunFrom(i), out)
    BY RunIn DEF MsspStored
  <2> QED
    BY <2>1, StoredStays
<1>2. PICK j \in 1..i : IsName(j, i) /\ Stored(b, v.var, RunFrom(j), out)
  BY DEF MsspStored
<1>3. Stored(r, v.var, RunFrom(j), high)
  <2>1. RunFrom(j) \in SUBSET (1..N)
    BY RunIn
  <2> QED
    BY <1>2, <2>1, StoredStays
<1> QED
  BY <1>1, <1>2, <1>3 DEF MsspStored

\* One string more.
LEMMA MsspStep ==
  ASSUME NEW N \in Nat, input \in Seq(Octets), Len(input) = N,
         NEW p, Mssping(p), p.c <= N, NEW behind
  PROVE  Mssping(T!MsspEntry(p, behind)) /\ T!MsspEntry(p, behind).c > p.c
<1>1. PICK b \in Seq(Octets) : b = p.b /\ Len(b) = N
  BY DEF Mssping
<1>2. PICK c \in 2..N : c = p.c
  BY DEF Mssping
<1>3. PICK out \in 1..(c - 1) : out = p.out
  BY <1>2 DEF Mssping
<1>4. /\ \A i \in c..N : b[i] = input[i]
      /\ p.type = input[c - 1] /\ p.type \in Signs
      /\ p.type = T!MsspVal =>
           \E j \in 1..(c - 1) : IsName(j, c - 1) /\ Stored(b, p.var, RunFrom(j), out)
      /\ p.var \in Nat /\ p.values \in Seq([var : Nat, value : Nat])
      /\ Len(p.values) = CountTo(Vals, c - 2)
      /\ \A i \in Vals : i <= c - 2 => MsspStored(b, p.values[CountTo(Vals, i)], i, out)
  BY <1>1, <1>2, <1>3 DEF Mssping
<1>5. PICK s : s = T!Unpack(b, c, out, Signs, {})
  OBVIOUS
<1>6. Unpacked(input, b, c, out, Signs, {}, {}, s)
  <2>1. MayCopy(input, b, c, out, Signs, {}, {})
    BY <1>1, <1>2, <1>3, <1>4 DEF MayCopy
  <2> QED
    BY <1>5, <2>1, UnpackIs
<1>7. out \in 1..N /\ c \in 1..(N + 1)
  BY <1>2, <1>3
<1>8. /\ Stored(s.b, out, KeptTo(input, c, s.c, {}, {}), s.out)
      /\ s.c \in c..(N + 1) /\ s.out \in (out + 1)..s.c
  BY <1>6, <1>7, UnpackedStored
<1>9. PICK e \in c..(N + 1) : e = s.c
  BY <1>8
<1>10. PICK high \in (out + 1)..e : high = s.out
  BY <1>8, <1>9
<1>11. PICK g \in Seq(Octets) : g = s.b /\ Len(g) = N
  BY <1>6 DEF Unpacked
<1>12. /\ \A i \in c..(e - 1) : input[i] \notin Signs
       /\ e <= N => input[e] \in Signs
       /\ SameOutside(b, g, out, high)
  BY <1>6, <1>9, <1>10, <1>11 DEF Unpacked
<1>13. Stored(g, out, RunFrom(c - 1), high)
  <2>1. c \in 2..(N + 1)
    BY <1>2
  <2>2. RunFrom(c - 1) = KeptTo(input, c, e, {}, {})
    BY <1>12, <2>1, RunIs
  <2> QED
    BY <1>8, <1>9, <1>10, <1>11, <2>2
<1>14. \A i \in e..N : g[i] = input[i]
  <2> SUFFICES ASSUME NEW i \in e..N
               PROVE  g[i] = input[i]
    OBVIOUS
  <2>1. i \in 1..N /\ high <= i /\ i \in c..N
    BY <1>2, <1>9, <1>10, SMTT(60)
  <2>2. g[i] = b[i]
    BY <1>1, <1>12, <2>1 DEF SameOutside
  <2> QED
    BY <1>4, <2>1, <2>2
<1> DEFINE type == IF e <= N THEN g[e] ELSE behind
<1>15. /\ e <= N => type = input[e] /\ type \in Signs
       /\ e = N + 1 => input[N] \notin Signs
  <2>1. e <= N => e \in e..N
    BY <1>9
  <2>2. e = N + 1 => N \in c..(e - 1)
    BY <1>2
  <2> QED
    BY <1>12, <1>14, <2>1, <2>2
<1>16. PICK z : z = T!MsspEntry(p, behind)
  OBVIOUS
<1>17. /\ p.type = T!MsspVar =>
            z = [b |-> g, c |-> e + 1, out |-> high, type |-> type, var |-> out,
                 values |-> p.values]
       /\ p.type # T!MsspVar =>
            z = [b |-> g, c |-> e + 1, out |-> high, type |-> type, var |-> p.var,
                 values |-> Append(p.values, [var |-> p.var, value |-> out])]
  <2>1. ~(p.c > Len(p.b))
    BY <1>1, <1>2
  <2>2. s = T!Unpack(p.b, p.c, p.out, {T!MsspVar, T!MsspVal}, {})
    BY <1>1, <1>2, <1>3, <1>5 DEF Signs
  <2>3. Len(s.b) = N /\ (s.c <= Len(s.b) <=> e <= N)
    BY <1>9, <1>11
  <2>4. [b |-> s.b, c |-> s.c + 1, out |-> s.out,
         type |-> IF s.c <= Len(s.b) THEN s.b[s.c] ELSE behind,
         var |-> p.var, values |-> p.values]
          = [b |-> g, c |-> e + 1, out |-> high, type |-> type, var |-> p.var,
             values |-> p.values]
    BY <1>9, <1>10, <1>11, <2>3
  <2> HIDE DEF type
  <2>5. z = LET r == [b |-> g, c |-> e + 1, out |-> high, type |-> type, var |-> p.var,
                      values |-> p.values]
            IN  IF p.type = T!MsspVar THEN [r EXCEPT !.var = p.out]
                ELSE [r EXCEPT !.values = Append(@, [var |-> p.var, value |-> p.out])]
    BY <1>16, <2>1, <2>2, <2>4, Zenon DEF T!MsspEntry
  <2> QED
    BY <1>3, <2>5
<1> HIDE DEF type
<1>18. Vals \in SUBSET (1..N) /\ \A i \in 1..N : i \in Vals <=> input[i] = T!MsspVal
  BY ValsIn
<1>19. T!MsspVal \in Signs /\ T!MsspVar # T!MsspVal /\ Signs = {T!MsspVar, T!MsspVal}
  BY DEF Signs, T!MsspVar, T!MsspVal
<1>20. ASSUME NEW i \in Vals, i <= e - 1
       PROVE  i <= c - 2 \/ (i = c - 1 /\ p.type = T!MsspVal)
  <2>1. i \in 1..N /\ input[i] = T!MsspVal
    BY <1>18
  <2>2. i \notin c..(e - 1)
    BY <1>12, <1>19, <2>1
  <2>3. i <= c - 2 \/ i = c - 1
    BY <1>2, <1>9, <1>20, <2>1, <2>2, SMTT(60)
  <2> QED
    BY <1>4, <2>1, <2>3
<1>21. ASSUME NEW i \in Vals, i <= c - 2
       PROVE  MsspStored(g, p.values[CountTo(Vals, i)], i, high)
  <2>1. MsspStored(b, p.values[CountTo(Vals, i)], i, out)
    BY <1>4, <1>21
  <2>2. i \in 1..N /\ out \in 1..(N + 1) /\ high \in Nat /\ out <= high
    BY <1>2, <1>3, <1>9, <1>10, <1>18, SMTT(60)
  <2> QED
    BY <1>1, <1>12, <2>1, <2>2, MsspStays
<1>22. p.type = T!MsspVal =>
         \E j \in 1..(c - 1) : IsName(j, c - 1) /\ Stored(g, p.var, RunFrom(j), high)
  <2> SUFFICES ASSUME p.type = T!MsspVal
               PROVE  \E j \in 1..(c - 1) : IsName(j, c - 1) /\ Stored(g, p.var, RunFrom(j), high)
    OBVIOUS
  <2>1. PICK j \in 1..(c - 1) : IsName(j, c - 1) /\ Stored(b, p.var, RunFrom(j), out)
    BY <1>4
  <2>2. out \in 1..(N + 1) /\ high \in Nat /\ out <= high
    BY <1>2, <1>3, <1>9, <1>10, SMTT(60)
  <2>3. RunFrom(j) \in SUBSET (1..N)
    BY <1>2, RunIn
  <2>4. Stored(g, p.var, RunFrom(j), high)
    BY <1>1, <1>12, <2>1, <2>2, <2>3, StoredStays
  <2> QED
    BY <2>1, <2>4
<1>23. ASSUME NEW j \in 1..(c - 1), IsName(j, c - 1), e <= N, input[e] = T!MsspVal
       PROVE  IsName(j, e)
  <2>1. ASSUME NEW k \in (j + 1)..e
        PROVE  input[k] # T!MsspVar
    <3>1. k \in (j + 1)..(c - 1) \/ k \in c..(e - 1) \/ k = e
      BY <1>2, <1>9, SMTT(60)
    <3> QED
      BY <1>12, <1>19, <1>23, <3>1 DEF IsName
  <2> QED
    BY <1>23, <2>1 DEF IsName
<1>24. /\ z.b = g /\ z.c = e + 1 /\ z.out = high /\ z.type = type
       /\ p.type = T!MsspVar => z.var = out /\ z.values = p.values
       /\ p.type = T!MsspVal => /\ z.var = p.var
                                /\ z.values = Append(p.values, [var |-> p.var, value |-> out])
  BY <1>17, <1>19
<1>25. p.type = T!MsspVar \/ p.type = T!MsspVal
  BY <1>4, <1>19
<1>26. e <= N /\ type = T!MsspVal =>
         \E j \in 1..e : IsName(j, e) /\ Stored(g, z.var, RunFrom(j), high)
  <2> SUFFICES ASSUME e <= N, type = T!MsspVal
               PROVE  \E j \in 1..e : IsName(j, e) /\ Stored(g, z.var, RunFrom(j), high)
    OBVIOUS
  <2>1. input[e] = T!MsspVal /\ \A j \in 1..(c - 1) : j \in 1..e
    BY <1>9, <1>15
  <2>2. CASE p.type = T!MsspVar
    <3>1. IsName(c - 1, c - 1)
      <4>1. input[c - 1] = T!MsspVar /\ \A k \in ((c - 1) + 1)..(c - 1) : FALSE
        BY <1>2, <1>4, <2>2
      <4> QED
        BY <4>1 DEF IsName
    <3>2. c - 1 \in 1..(c - 1)
      BY <1>2
    <3> QED
      BY <1>13, <1>23, <1>24, <2>1, <2>2, <3>1, <3>2
  <2>3. CASE p.type = T!MsspVal
    BY <1>22, <1>23, <1>24, <2>1, <2>3
  <2> QED
    BY <1>25, <2>2, <2>3
<1>27. c - 2 \in 0..N /\ c - 1 \in 1..N /\ (c - 1) - 1 = c - 2 /\ e - 1 \in 0..N
       /\ (e + 1) - 2 = e - 1
  <2>1. c \in Int /\ e \in Int /\ 2 <= c /\ c <= N /\ c <= e /\ e <= N + 1
    BY <1>2, <1>9
  <2> QED
    BY <2>1
<1>28. CountTo(Vals, c - 2) \in Nat
  BY <1>18, <1>27, CountFinite
<1>29. CountTo(Vals, c - 1) = CountTo(Vals, e - 1)
  <2>1. c - 1 <= e - 1 /\ c - 1 \in 0..N
    BY <1>2, <1>9, SMTT(60)
  <2>2. \A i \in ((c - 1) + 1)..(e - 1) : i \notin Vals
    <3>1. \A i \in ((c - 1) + 1)..(e - 1) : i \in c..(e - 1) /\ i \in 1..N
      BY <1>2, <1>9, SMTT(60)
    <3> QED
      BY <1>12, <1>18, <1>19, <3>1
  <2> QED
    BY <1>18, <1>27, <2>1, <2>2, CountSame, SMTT(60)
<1>30. PICK w \in Seq([var : Nat, value : Nat]) :
         /\ w = z.values /\ Len(w) = CountTo(Vals, e - 1)
         /\ \A i \in Vals : i <= e - 1 => MsspStored(g, w[CountTo(Vals, i)], i, high)
  <2>1. CASE p.type = T!MsspVar
    <3>1. c - 1 \notin Vals
      BY <1>4, <1>18, <1>19, <1>27, <2>1
    <3>2. CountTo(Vals, c - 1) = CountTo(Vals, c - 2)
      <4>1. PICK k \in 1..N : k = c - 1 /\ k - 1 = c - 2
        BY <1>27
      <4>2. CountTo(Vals, k) = IF k \in Vals THEN CountTo(Vals, k - 1) + 1 ELSE CountTo(Vals, k - 1)
        BY <1>18, CountStep
      <4> QED
        BY <3>1, <4>1, <4>2
    <3>3. \A i \in Vals : i <= e - 1 => i <= c - 2
      BY <1>19, <1>20, <2>1
    <3>4. \A i \in Vals : i <= e - 1 => MsspStored(g, p.values[CountTo(Vals, i)], i, high)
      BY <1>21, <3>3
    <3> QED
      BY <1>4, <1>24, <1>29, <2>1, <3>2, <3>4
  <2>2. CASE p.type = T!MsspVal
    <3>1. c - 1 \in Vals
      BY <1>4, <1>18, <1>27, <2>2
    <3>2. CountTo(Vals, c - 1) = CountTo(Vals, c - 2) + 1
      <4>1. PICK k \in 1..N : k = c - 1 /\ k - 1 = c - 2
        BY <1>27
      <4>2. CountTo(Vals, k) = IF k \in Vals THEN CountTo(Vals, k - 1) + 1 ELSE CountTo(Vals, k - 1)
        BY <1>18, CountStep
      <4> QED
        BY <3>1, <4>1, <4>2
    <3>3. PICK m \in Nat : m = CountTo(Vals, c - 2)
      BY <1>28
    <3>4. PICK x \in [var : Nat, value : Nat] : x = [var |-> p.var, value |-> out]
      <4>1. p.var \in Nat /\ out \in Nat
        BY <1>3, <1>4, SMTT(60)
      <4>2. [var |-> p.var, value |-> out] \in [var : Nat, value : Nat]
        BY <4>1
      <4> QED
        BY <4>2
    <3>5. PICK w \in Seq([var : Nat, value : Nat]) : w = Append(p.values, x)
      <4>1. p.values \in Seq([var : Nat, value : Nat])
        BY <1>4
      <4>2. Append(p.values, x) \in Seq([var : Nat, value : Nat])
        BY <4>1
      <4> QED
        BY <4>2
    <3>6. Len(w) = m + 1 /\ w[m + 1] = x /\ \A n \in 1..m : w[n] = p.values[n]
      BY <1>4, <3>3, <3>5, SMTT(60)
    <3>7. ASSUME NEW i \in Vals, i <= c - 2
          PROVE  w[CountTo(Vals, i)] = p.values[CountTo(Vals, i)]
      <4>1. i \in 0..N /\ (i = c - 2 \/ i < c - 2)
        BY <1>18, <1>27, <3>7
      <4>2. CountTo(Vals, i) <= m
        <5>1. i < c - 2 => CountTo(Vals, i) <= CountTo(Vals, c - 2)
          BY <1>18, <1>27, <4>1, CountGrows
        <5> QED
          BY <3>3, <4>1, <5>1
      <4>3. CountTo(Vals, i) \in 1..Cardinality(Vals)
        BY <1>18, NthIs
      <4>4. CountTo(Vals, i) \in 1..m
        BY <3>3, <4>2, <4>3
      <4> QED
        BY <3>6, <4>4
    <3>8. \A i \in Vals : i <= c - 2 => MsspStored(g, w[CountTo(Vals, i)], i, high)
      BY <1>21, <3>7
    <3>9. MsspStored(g, w[CountTo(Vals, c - 1)], c - 1, high)
      <4>1. w[CountTo(Vals, c - 1)] = x /\ x.var = p.var /\ x.value = out
        BY <3>2, <3>3, <3>4, <3>6, SMTT(60)
      <4> QED
        BY <1>13, <1>22, <2>2, <4>1 DEF MsspStored
    <3>10. \A i \in Vals : i <= e - 1 => MsspStored(g, w[CountTo(Vals, i)], i, high)
      BY <1>20, <3>8, <3>9
    <3>11. w = z.values /\ Len(w) = CountTo(Vals, e - 1)
      BY <1>24, <1>29, <2>2, <3>2, <3>3, <3>4, <3>5, <3>6
    <3> QED
      BY <3>10, <3>11
  <2> QED
    BY <1>25, <2>1, <2>2
<1>31. z.var \in Nat
  BY <1>3, <1>4, <1>24, <1>25, SMTT(60)
<1>32. /\ e + 1 \in 2..(N + 2) /\ high \in 1..((e + 1) - 1) /\ high <= N + 1
       /\ \A i \in (e + 1)..N : i \in e..N
       /\ (e + 1 <= N + 1 <=> e <= N) /\ (e + 1) - 1 = e /\ (e + 1 = N + 2 <=> e = N + 1)
  <2>1. c \in Int /\ e \in Int /\ 2 <= c /\ c <= e /\ e <= N + 1
    BY <1>2, <1>9
  <2>2. high \in Int /\ 1 <= high /\ high <= e
    BY <1>3, <1>10
  <2>3. e + 1 \in 2..(N + 2) /\ high \in 1..((e + 1) - 1) /\ high <= N + 1
    BY <2>1, <2>2
  <2>4. \A i \in (e + 1)..N : i \in e..N
    BY <2>1
  <2>5. (e + 1 <= N + 1 <=> e <= N) /\ (e + 1) - 1 = e /\ (e + 1 = N + 2 <=> e = N + 1)
    BY <2>1
  <2> QED
    BY <2>3, <2>4, <2>5
<1>33. Mssping(z)
  BY <1>11, <1>14, <1>15, <1>24, <1>26, <1>27, <1>30, <1>31, <1>32 DEF Mssping
<1>34. z.c > p.c
  BY <1>2, <1>9, <1>24
<1> QED
  BY <1>16, <1>33, <1>34

\* Before the first string.
LEMMA MsspStart ==
  ASSUME NEW N \in Nat \ {0}, input \in Seq(Octets), Len(input) = N, input[1] = T!MsspVar
  PROVE  Mssping([b |-> input, c |-> 2, out |-> 1, type |-> T!MsspVar, var |-> 0, values |-> <<>>])
<1>1. PICK p : p = [b |-> input, c |-> 2, out |-> 1, type |-> T!MsspVar, var |-> 0, values |-> <<>>]
  OBVIOUS
<1>2. p.b = input /\ p.c = 2 /\ p.out = 1 /\ p.type = T!MsspVar /\ p.var = 0 /\ p.values = <<>>
  BY <1>1
<1>3. 0 \in 0..N /\ 2 \in 2..(N + 2) /\ 1 \in 1..(2 - 1) /\ 1 <= N + 1 /\ 2 - 1 = 1 /\ 2 - 2 = 0
      /\ 2 # N + 2
  OBVIOUS
<1>4. Vals \in SUBSET (1..N)
  BY ValsIn
<1>5. CountTo(Vals, 0) = 0 /\ \A i \in Vals : ~(i <= 0)
  <2>1. CountTo(Vals, 0) = 0
    BY <1>3, <1>4, CountFinite
  <2>2. \A i \in Vals : ~(i <= 0)
    BY <1>4
  <2> QED
    BY <2>1, <2>2
<1>6. <<>> \in Seq([var : Nat, value : Nat]) /\ Len(<<>>) = 0
  OBVIOUS
<1>7. T!MsspVar \in Signs /\ T!MsspVar # T!MsspVal
  BY DEF Signs, T!MsspVar, T!MsspVal
<1>8. Mssping(p)
  BY <1>2, <1>3, <1>5, <1>6, <1>7 DEF Mssping
<1> QED
  BY <1>1, <1>8

\* All strings of MSSP are unpacked.
LEMMA MsspAll ==
  ASSUME NEW N \in Nat \ {0}, input \in Seq(Octets), Len(input) = N, input[1] = T!MsspVar,
         NEW behind
  PROVE  \E p : /\ Mssping(p) /\ p.c > N
                /\ T!Mssps(input, 1, behind)
                     = [buffer |-> p.b, values |-> p.values, size |-> ValCount(input)]
<1> DEFINE Start == [b |-> input, c |-> 2, out |-> 1, type |-> T!MsspVar, var |-> 0, values |-> <<>>]
<1>1. PICK u : /\ u[0] = Start
               /\ \A n \in 1..N : u[n] = T!MsspEntry(u[n - 1], behind)
               /\ T!Mssps(input, 1, behind) = [buffer |-> u[N].b, values |-> u[N].values,
                                         size |-> ValCount(input)]
  <2>1. N \in Nat /\ N = Len(input)
    OBVIOUS
  <2> QED
    BY <2>1, MsspsTurns, SMTT(60)
<1>2. Mssping(Start) /\ Start.c = 2
  BY MsspStart
<1> DEFINE Going == {n \in 0..N : Mssping(u[n]) /\ (u[n].c > N \/ u[n].c >= n + 2)}
<1> HIDE DEF Start
<1>3. 0 \in Going
  BY <1>1, <1>2
<1>4. ASSUME NEW n \in 1..N, n - 1 \in Going
      PROVE  n \in Going
  <2>1. PICK p : p = u[n - 1]
    OBVIOUS
  <2>2. Mssping(p) /\ (p.c > N \/ p.c >= (n - 1) + 2) /\ u[n] = T!MsspEntry(p, behind)
    BY <1>1, <1>4, <2>1
  <2>3. PICK c \in 2..(N + 2) : c = p.c
    BY <2>2 DEF Mssping
  <2>4. CASE c <= N
    <3>1. Mssping(u[n]) /\ u[n].c > c
      BY <2>2, <2>3, <2>4, MsspStep
    <3>2. u[n].c \in 2..(N + 2)
      BY <3>1 DEF Mssping
    <3>3. u[n].c >= n + 2
      BY <2>2, <2>3, <2>4, <3>1, <3>2
    <3> QED
      BY <3>1, <3>3
  <2>5. CASE c > N
    <3>1. p.c > Len(p.b)
      BY <2>2, <2>3, <2>5 DEF Mssping
    <3>2. u[n] = p
      BY <2>2, <3>1 DEF T!MsspEntry
    <3> QED
      BY <2>2, <2>3, <2>5, <3>2
  <2> QED
    BY <2>3, <2>4, <2>5
<1>5. N \in Going
  <2> HIDE DEF Going
  <2>1. \A n \in 1..N : n - 1 \in Going => n \in Going
    BY <1>4
  <2>2. \A n \in 0..N : n \in Going
    BY <1>3, <2>1, UpTo
  <2> QED
    BY <2>2
<1>6. PICK p : p = u[N]
  OBVIOUS
<1>7. Mssping(p) /\ p.c > N
  <2>1. Mssping(p) /\ (p.c > N \/ p.c >= N + 2)
    BY <1>5, <1>6
  <2>2. p.c \in 2..(N + 2)
    BY <2>1 DEF Mssping
  <2> QED
    BY <2>1, <2>2
<1> QED
  BY <1>1, <1>6, <1>7

\* There is one name before a value.
LEMMA NameIs ==
  ASSUME NEW i \in Nat, NEW j \in 1..i, IsName(j, i)
  PROVE  j = CHOOSE k \in 1..i : /\ input[k] = T!MsspVar
                                 /\ \A l \in (k + 1)..i : input[l] # T!MsspVar
<1>1. input[j] = T!MsspVar /\ \A l \in (j + 1)..i : input[l] # T!MsspVar
  BY DEF IsName
<1>2. ASSUME NEW k \in 1..i, input[k] = T!MsspVar, \A l \in (k + 1)..i : input[l] # T!MsspVar
      PROVE  k = j
  <2>1. ~(k < j)
    <3> SUFFICES ASSUME k < j
                 PROVE  FALSE
      OBVIOUS
    <3>1. j \in (k + 1)..i
      OBVIOUS
    <3> QED
      BY <1>1, <1>2, <3>1
  <2>2. ~(j < k)
    <3> SUFFICES ASSUME j < k
                 PROVE  FALSE
      OBVIOUS
    <3>1. k \in (j + 1)..i
      OBVIOUS
    <3> QED
      BY <1>1, <1>2, <3>1
  <2> QED
    BY <2>1, <2>2
<1> QED
  BY <1>1, <1>2

LEMMA StoredTexts ==
  ASSUME NEW N \in Nat, input \in Seq(Octets), Len(input) = N,
         NEW b \in Seq(Octets), Len(b) = N, NEW out \in 1..(N + 1)
  PROVE  \A S \in SUBSET (1..N) : \A v : Stored(b, v, S, out) => T!StringAt(b, v) = TextOf(S)
BY StoredText

\* The strings of MSSP are what their runs of octets mean.
LEMMA MsspIs ==
  ASSUME input \in Seq(Octets)
  PROVE  MsspExact
<1> SUFFICES ASSUME NEW e \in T!Mssp(input)
             PROVE  LET vals == {i \in DOMAIN input : input[i] = T!MsspVal}
                        Sign(i) == input[i] \in {T!MsspVar, T!MsspVal}
                        Run(i) == TextOf({j \in (i + 1)..Len(input) :
                                            \A k \in (i + 1)..j : ~Sign(k)})
                        NameBefore(i) == CHOOSE j \in 1..i :
                                     /\ input[j] = T!MsspVar
                                     /\ \A k \in (j + 1)..i : input[k] # T!MsspVar
                    IN  /\ DOMAIN e.buffer \subseteq DOMAIN input
                        /\ e.size = Cardinality(vals)
                        /\ Len(e.values) = Cardinality(vals \ {Len(input)})
                        /\ \A n \in DOMAIN e.values :
                             /\ T!StringAt(e.buffer, e.values[n].var) = Run(NameBefore(Nth(vals, n)))
                             /\ T!StringAt(e.buffer, e.values[n].value) = Run(Nth(vals, n))
  BY DEF MsspExact
<1>1. PICK N \in Nat : N = Len(input) /\ DOMAIN input = 1..N
  BY LenProperties
<1>2. PICK behind \in Behind :
        input # <<>> /\ input[1] = T!MsspVar /\ e = T!Mssps(input, 1, behind)
  BY DEF T!Mssp
<1>3. N # 0
  BY <1>1, <1>2, EmptySeq
<1>4. PICK p : /\ Mssping(p) /\ p.c > N
               /\ e = [buffer |-> p.b, values |-> p.values, size |-> ValCount(input)]
  BY <1>1, <1>2, <1>3, MsspAll
<1>5. PICK b \in Seq(Octets) : b = p.b /\ Len(b) = N
  BY <1>1, <1>4 DEF Mssping
<1>6. PICK c \in 2..(N + 2) : c = p.c /\ c > N
  BY <1>1, <1>4 DEF Mssping
<1>7. PICK out \in 1..(N + 1) : out = p.out
  <2>1. p.out \in 1..(c - 1) /\ p.out <= N + 1
    BY <1>1, <1>4, <1>6 DEF Mssping
  <2> QED
    BY <2>1
<1>8. c = N + 1 \/ c = N + 2
  BY <1>6
<1>9. \A S \in SUBSET (1..N) : \A v : Stored(b, v, S, out) => T!StringAt(b, v) = TextOf(S)
  BY <1>1, <1>5, StoredTexts
<1>10. PICK w \in Seq([var : Nat, value : Nat]) : w = p.values
  BY <1>4 DEF Mssping
<1>11. /\ Len(w) = CountTo(Vals, c - 2)
       /\ \A i \in Vals : i <= c - 2 => MsspStored(b, w[CountTo(Vals, i)], i, out)
       /\ c = N + 2 => input[N] \notin Signs
  BY <1>1, <1>4, <1>5, <1>6, <1>7, <1>10 DEF Mssping
<1>12. Vals \in SUBSET (1..N) /\ \A i \in 1..N : i \in Vals <=> input[i] = T!MsspVal
  BY <1>1, ValsIn
<1>13. c - 2 \in 0..N /\ N \in 0..N /\ N \in 1..N
  BY <1>3, <1>6
<1>14. Len(w) = Cardinality(Vals \ {N})
  <2>1. \A i \in Vals : i <= c - 2 <=> i # N
    <3> SUFFICES ASSUME NEW i \in Vals
                 PROVE  i <= c - 2 <=> i # N
      OBVIOUS
    <3>1. i \in 1..N
      BY <1>12
    <3>2. CASE c = N + 2
      <4>1. N \notin Vals
        <5>1. T!MsspVal \in Signs
          BY DEF Signs
        <5>2. input[N] \notin Signs
          BY <1>11, <3>2
        <5>3. N \in Vals <=> input[N] = T!MsspVal
          BY <1>12, <1>13
        <5> QED
          BY <5>1, <5>2, <5>3
      <4> QED
        BY <3>1, <3>2, <4>1
    <3>3. CASE c = N + 1
      BY <1>6, <3>1, <3>3
    <3> QED
      BY <1>8, <3>2, <3>3, Zenon
  <2>2. {i \in Vals : i <= c - 2} = Vals \ {N}
    BY <2>1
  <2> QED
    BY <1>11, <2>2 DEF CountTo
<1>15. ASSUME NEW n \in 1..Len(w)
       PROVE  LET i == Nth(Vals, n) IN i \in Vals /\ MsspStored(b, w[n], i, out)
  <2>1. PICK total \in Nat : total = Cardinality(Vals)
    BY <1>12, <1>13, CountFinite
  <2>2. PICK m \in Nat : m = Len(w) /\ n \in 1..m /\ m = CountTo(Vals, c - 2)
    BY <1>11, LenProperties
  <2>3. m <= total
    <3>1. CountTo(Vals, N) = total
      BY <1>12, <1>13, <2>1, CountFinite
    <3>2. c - 2 < N => CountTo(Vals, c - 2) <= CountTo(Vals, N)
      BY <1>12, <1>13, CountGrows
    <3>3. c - 2 < N \/ c - 2 = N
      BY <1>13
    <3>4. c - 2 = N => m = total
      BY <2>2, <3>1, Zenon
    <3>5. c - 2 < N => m <= total
      BY <2>2, <3>1, <3>2, Zenon
    <3> QED
      BY <3>3, <3>4, <3>5
  <2>4. n \in 1..Cardinality(Vals)
    BY <2>1, <2>2, <2>3
  <2>5. PICK i \in Vals : i = Nth(Vals, n) /\ CountTo(Vals, i) = n
    BY <1>12, <2>4, NthCovers
  <2>6. i \in 0..N
    BY <1>12
  <2>7. ~(c - 2 < i)
    <3>1. c - 2 < i => CountTo(Vals, c - 2) < CountTo(Vals, i)
      BY <1>12, <1>13, <2>6, CountGrows
    <3> QED
      BY <2>2, <2>5, <3>1
  <2>8. i <= c - 2
    BY <1>13, <2>6, <2>7
  <2>9. MsspStored(b, w[CountTo(Vals, i)], i, out)
    BY <1>11, <2>5, <2>8
  <2> QED
    BY <2>5, <2>9, Zenon
<1> DEFINE Run(i) == TextOf({j \in (i + 1)..Len(input) :
                               \A k \in (i + 1)..j : ~(input[k] \in {T!MsspVar, T!MsspVal})})
           NameBefore(i) == CHOOSE j \in 1..i :
                        /\ input[j] = T!MsspVar
                        /\ \A k \in (j + 1)..i : input[k] # T!MsspVar
<1>16. \A i : Run(i) = TextOf(RunFrom(i))
  BY DEF RunFrom, Signs
<1>17. ASSUME NEW n \in 1..Len(w)
       PROVE  /\ T!StringAt(b, w[n].var) = Run(NameBefore(Nth(Vals, n)))
              /\ T!StringAt(b, w[n].value) = Run(Nth(Vals, n))
  <2>1. PICK i \in Vals : i = Nth(Vals, n) /\ MsspStored(b, w[n], i, out)
    BY <1>15
  <2>2. PICK x : x = w[n]
    OBVIOUS
  <2>3. i \in 1..N /\ i \in Nat
    BY <1>12
  <2>4. PICK j \in 1..i : IsName(j, i) /\ Stored(b, x.var, RunFrom(j), out)
    BY <2>1, <2>2 DEF MsspStored
  <2>5. Stored(b, x.value, RunFrom(i), out)
    BY <2>1, <2>2 DEF MsspStored
  <2>6. RunFrom(i) \in SUBSET (1..N) /\ RunFrom(j) \in SUBSET (1..N)
    BY <1>1, <2>3, RunIn, SMTT(60)
  <2>7. \A S \in SUBSET (1..N) : \A v : Stored(b, v, S, out) => T!StringAt(b, v) = TextOf(S)
    BY <1>9, Zenon
  <2>8. /\ T!StringAt(b, x.var) = TextOf(RunFrom(j))
        /\ T!StringAt(b, x.value) = TextOf(RunFrom(i))
    BY <2>4, <2>5, <2>6, <2>7, Zenon
  <2>9. j = NameBefore(i)
    BY <2>3, <2>4, NameIs
  <2> HIDE DEF Run, NameBefore
  <2> QED
    BY <1>16, <2>1, <2>2, <2>8, <2>9, Zenon
<1>18. DOMAIN b = 1..N /\ DOMAIN w = 1..Len(w)
  BY <1>5, LenProperties
<1>19. e.buffer = b /\ e.values = w
  BY <1>4, <1>5, <1>10
<1> HIDE DEF Run, NameBefore
<1>20. /\ DOMAIN e.buffer \subseteq DOMAIN input
       /\ e.size = Cardinality(Vals)
       /\ Len(e.values) = Cardinality(Vals \ {Len(input)})
       /\ \A n \in DOMAIN e.values :
            /\ T!StringAt(e.buffer, e.values[n].var) = Run(NameBefore(Nth(Vals, n)))
            /\ T!StringAt(e.buffer, e.values[n].value) = Run(Nth(Vals, n))
  <2>1. DOMAIN e.buffer \subseteq DOMAIN input
    BY <1>1, <1>18, <1>19, Zenon
  <2>2. Len(e.values) = Cardinality(Vals \ {Len(input)})
    BY <1>1, <1>14, <1>19, Zenon
  <2>3. e.size = Cardinality(Vals)
    BY <1>4 DEF ValCount, Vals
  <2> QED
    BY <1>17, <1>18, <1>19, <2>1, <2>2, <2>3, Zenon
<1> QED
  BY <1>20, Zenon DEF Run, NameBefore, Vals

-----------------------------------------------------------------------------
(* ZMP and TERMINAL-TYPE.                                                  *)

\* The turns of the loop that takes the arguments of ZMP.
LEMMA ArgsTurns ==
  ASSUME NEW b, NEW N \in Nat, N = Len(b)
  PROVE  \E u :
               /\ u[0] = [c |-> 1, args |-> <<>>]
               /\ \A n \in 1..N : u[n] = T!Arg(b, u[n - 1])
               /\ T!Args(b) = u[N].args
<1> DEFINE Step(n, p) == T!Arg(b, p)
           Start == [c |-> 1, args |-> <<>>]
           F(g, m) == [n \in 0..m |-> IF n = 0 THEN Start ELSE Step(n, g[n - 1])]
           Upto == {m \in 0..N : \E g : g = F(g, m)}
           G == CHOOSE g : g = F(g, N)
<1>1. T!Args(b) = G[N].args
  BY Zenon DEF T!Args
<1> HIDE DEF Step, Start
<1>2. 0 \in Upto
  <2>1. F(<<>>, 0) = F(F(<<>>, 0), 0)
    OBVIOUS
  <2> HIDE DEF F
  <2> QED
    BY <2>1
<1>3. ASSUME NEW m \in 1..N, m - 1 \in Upto
      PROVE  m \in Upto
  <2>1. PICK g : g = F(g, m - 1)
    BY <1>3
  <2> DEFINE h == F(g, m)
  <2>2. \A n \in 1..m : h[n - 1] = g[n - 1]
    BY <2>1
  <2> HIDE DEF h
  <2>3. \A n \in 0..m : (IF n = 0 THEN Start ELSE Step(n, g[n - 1]))
                            = (IF n = 0 THEN Start ELSE Step(n, h[n - 1]))
    BY <2>2
  <2>4. F(g, m) = F(h, m)
    BY <2>3
  <2> HIDE DEF F, h
  <2> QED
    BY <2>4 DEF h
<1>4. N \in Upto
  <2> HIDE DEF Upto
  <2>1. \A m \in 1..N : m - 1 \in Upto => m \in Upto
    BY <1>3
  <2>2. \A m \in 0..N : m \in Upto
    BY <1>2, <2>1, UpTo
  <2> QED
    BY <2>2
<1>5. G = F(G, N)
  <2> HIDE DEF F
  <2> QED
    BY <1>4
<1>6. G[0] = Start /\ \A n \in 1..N : G[n] = Step(n, G[n - 1])
  <2> HIDE DEF G
  <2> QED
    BY <1>5
<1> HIDE DEF G
<1> QED
  BY <1>1, <1>6, Zenon DEF Start, Step

\* A string ends at the first NUL.
LEMMA StringTo ==
  ASSUME NEW b \in Seq(Octets), NEW N \in Nat, N = Len(b), NEW p \in 1..N, b[N] = T!NUL
  PROVE  \E e \in p..N : b[e] = T!NUL /\ T!StringAt(b, p) = SubSeq(b, p, e - 1)
<1> DEFINE Nuls == {e \in p..N : b[e] = T!NUL}
<1>1. PICK e \in Nuls : \A f \in Nuls : e <= f
  <2>1. N \in Nuls /\ Nuls \in SUBSET Nat
    OBVIOUS
  <2> HIDE DEF Nuls
  <2> QED
    BY <2>1, LeastOf
<1>2. e \in p..N /\ b[e] = T!NUL
  OBVIOUS
<1>3. \A j \in p..(e - 1) : b[j] # T!NUL
  <2> SUFFICES ASSUME NEW j \in p..(e - 1), b[j] = T!NUL
               PROVE  FALSE
    OBVIOUS
  <2>1. j \in Nuls /\ ~(e <= j)
    BY <1>2
  <2> HIDE DEF Nuls
  <2> QED
    BY <1>1, <2>1
<1> HIDE DEF Nuls
<1>4. ASSUME NEW f \in p..N, b[f] = T!NUL, \A j \in p..(f - 1) : b[j] # T!NUL
      PROVE  f = e
  <2>1. ~(f < e)
    <3> SUFFICES ASSUME f < e
                 PROVE  FALSE
      OBVIOUS
    <3>1. f \in p..(e - 1)
      BY <1>2
    <3> QED
      BY <1>3, <1>4, <3>1
  <2>2. ~(e < f)
    <3> SUFFICES ASSUME e < f
                 PROVE  FALSE
      OBVIOUS
    <3>1. e \in p..(f - 1)
      BY <1>2
    <3> QED
      BY <1>2, <1>4, <3>1
  <2> QED
    BY <1>2, <2>1, <2>2
<1>5. e = CHOOSE f \in p..Len(b) : b[f] = T!NUL /\ \A j \in p..(f - 1) : b[j] # T!NUL
  BY <1>2, <1>3, <1>4
<1>6. T!StringAt(b, p) = SubSeq(b, p, e - 1)
  BY <1>5 DEF T!StringAt
<1> QED
  BY <1>2, <1>6

\* The arguments of ZMP with the NUL after each of them.
Ended(args) == [n \in DOMAIN args |-> Append(args[n], T!NUL)]

LEMMA EndedMore ==
  ASSUME NEW args \in Seq(Seq(Octets)), NEW x \in Seq(Octets)
  PROVE  /\ Append(args, x) \in Seq(Seq(Octets)) /\ Ended(args) \in Seq(Seq(Octets))
         /\ Append(x, T!NUL) \in Seq(Octets)
         /\ Ended(Append(args, x)) = Append(Ended(args), Append(x, T!NUL))
<1>1. PICK n \in Nat : n = Len(args) /\ DOMAIN args = 1..n
  BY LenProperties
<1>2. T!NUL \in Octets
  BY DEF T!NUL, Octets
<1>3. \A y \in Seq(Octets) : Append(y, T!NUL) \in Seq(Octets)
  BY <1>2
<1>4. PICK X : X = Seq(Octets)
  OBVIOUS
<1>5. args \in Seq(X) /\ x \in X /\ \A i \in 1..n : args[i] \in X
  BY <1>1, <1>4, ElementOfSeq
<1>6. PICK more \in Seq(X) : /\ more = Append(args, x) /\ DOMAIN more = 1..(n + 1)
                             /\ more[n + 1] = x /\ \A i \in 1..n : more[i] = args[i]
  <2>1. /\ Append(args, x) \in Seq(X) /\ Append(args, x) # <<>>
        /\ Len(Append(args, x)) = n + 1
        /\ \A i \in 1..n : Append(args, x)[i] = args[i]
        /\ Append(args, x)[n + 1] = x
    BY <1>1, <1>5, AppendProperties
  <2>2. DOMAIN Append(args, x) = 1..(n + 1)
    BY <2>1, LenProperties
  <2> QED
    BY <2>1, <2>2, Zenon
<1>7. Ended(args) \in [1..n -> X]
  BY <1>1, <1>3, <1>4, <1>5 DEF Ended
<1>8. PICK s \in Seq(X) : s = Ended(args) /\ Len(s) = n
  BY <1>7, FunSeq
<1>9. PICK z \in X : z = Append(x, T!NUL)
  BY <1>3, <1>4
<1>10. Append(s, z) = Ended(more)
  <2>1. Ended(more) = [i \in 1..(n + 1) |-> Append(more[i], T!NUL)]
    BY <1>6 DEF Ended
  <2>2. \A i \in 1..n : s[i] = Append(more[i], T!NUL)
    BY <1>1, <1>6, <1>8 DEF Ended
  <2>3. PICK w \in Seq(X) : w = Append(s, z) /\ Len(w) = n + 1 /\ w[n + 1] = z
                            /\ \A i \in 1..n : w[i] = s[i]
    <3>1. /\ Append(s, z) \in Seq(X) /\ Append(s, z) # <<>>
          /\ Len(Append(s, z)) = n + 1
          /\ \A i \in 1..n : Append(s, z)[i] = s[i]
          /\ Append(s, z)[n + 1] = z
      BY <1>8, AppendProperties, SMTT(60)
    <3> QED
      BY <3>1, Zenon
  <2>4. w = [i \in 1..(n + 1) |-> w[i]]
    <3>1. n + 1 \in Nat
      OBVIOUS
    <3> QED
      BY <2>3, <3>1, SeqFun
  <2>5. \A i \in 1..(n + 1) : w[i] = Append(more[i], T!NUL)
    <3>1. \A i \in 1..(n + 1) : i \in 1..n \/ i = n + 1
      OBVIOUS
    <3> QED
      BY <1>6, <1>9, <2>2, <2>3, <3>1, Zenon
  <2>6. [i \in 1..(n + 1) |-> w[i]] = [i \in 1..(n + 1) |-> Append(more[i], T!NUL)]
    BY <2>5
  <2> QED
    BY <2>1, <2>3, <2>4, <2>6, Zenon
<1> QED
  BY <1>4, <1>6, <1>8, <1>9, <1>10, Zenon

\* How far the arguments are taken: they are the octets so far.
Zmping(p) ==
  /\ p.c \in 1..(Len(input) + 1)
  /\ p.args \in Seq(Seq(Octets))
  /\ Flat(Ended(p.args)) = SubSeq(input, 1, p.c - 1)

\* One argument more.
LEMMA ZmpStep ==
  ASSUME NEW N \in Nat, input \in Seq(Octets), Len(input) = N, input[N] = T!NUL,
         NEW p, Zmping(p), p.c <= N
  PROVE  Zmping(T!Arg(input, p)) /\ T!Arg(input, p).c > p.c
<1>1. PICK c \in 1..N : c = p.c
  BY DEF Zmping
<1>2. PICK args \in Seq(Seq(Octets)) : args = p.args /\ Flat(Ended(args)) = SubSeq(input, 1, c - 1)
  BY <1>1 DEF Zmping
<1>3. PICK e \in c..N : input[e] = T!NUL /\ T!StringAt(input, c) = SubSeq(input, c, e - 1)
  BY <1>1, StringTo
<1>4. PICK k \in 1..N : k = e /\ c \in 1..k /\ k \in 1..Len(input)
  BY <1>1, <1>3
<1>5. PICK x \in Seq(Octets) : x = SubSeq(input, c, k - 1) /\ SubSeq(input, c, k) = Append(x, input[k])
  BY <1>4, SubSeqMore
<1>6. Len(x) = k - c
  <2>1. PICK f \in 0..N : f = k - 1
    BY <1>4
  <2>2. c \in 1..(Len(input) + 1) /\ f \in (c - 1)..Len(input)
    BY <1>1, <1>4, <2>1
  <2>3. Len(SubSeq(input, c, f)) = (f - c) + 1
    BY <2>2, Slice
  <2>4. (f - c) + 1 = k - c
    BY <1>1, <1>4, <2>1
  <2> QED
    BY <1>5, <2>1, <2>3, <2>4
<1>7. PICK z : z = T!Arg(input, p)
  OBVIOUS
<1>8. z.c = k + 1 /\ z.args = Append(args, x)
  <2>1. ~(p.c > Len(input)) /\ T!StringAt(input, p.c) = x
    BY <1>1, <1>3, <1>4, <1>5
  <2>2. z = [c |-> p.c + Len(x) + 1, args |-> Append(p.args, x)]
    BY <1>7, <2>1 DEF T!Arg
  <2>3. p.c + Len(x) + 1 = k + 1
    BY <1>1, <1>4, <1>6, SMTT(60)
  <2> QED
    BY <1>2, <2>2, <2>3
<1>9. /\ Append(args, x) \in Seq(Seq(Octets)) /\ Ended(args) \in Seq(Seq(Octets))
      /\ Append(x, T!NUL) \in Seq(Octets)
      /\ Ended(Append(args, x)) = Append(Ended(args), Append(x, T!NUL))
  BY EndedMore
<1>10. Flat(Ended(Append(args, x))) = SubSeq(input, 1, c - 1) \o SubSeq(input, c, k)
  <2>1. PICK s \in Seq(Seq(Octets)) : s = Ended(args)
    BY <1>9
  <2>2. PICK y \in Seq(Octets) : y = Append(x, T!NUL)
    BY <1>9
  <2>3. Flat(Append(s, y)) = Flat(s) \o y
    BY FlatAppend
  <2>4. y = SubSeq(input, c, k)
    BY <1>3, <1>4, <1>5, <2>2
  <2> QED
    BY <1>2, <1>9, <2>1, <2>2, <2>3, <2>4, Zenon
<1>11. SubSeq(input, 1, c - 1) \o SubSeq(input, c, k) = SubSeq(input, 1, k)
  <2>1. PICK f \in 0..N : f = c - 1 /\ f + 1 = c
    BY <1>1
  <2>2. 1 \in 1..(Len(input) + 1) /\ f \in (1 - 1)..Len(input) /\ k \in f..Len(input)
    BY <1>1, <1>4, <2>1
  <2>3. SubSeq(input, 1, f) \o SubSeq(input, f + 1, k) = SubSeq(input, 1, k)
    BY <2>2, ConcatAdjacentSubSeq
  <2> QED
    BY <2>1, <2>3
<1>12. k + 1 \in 1..(N + 1) /\ (k + 1) - 1 = k /\ k + 1 > c
  BY <1>4, <1>1
<1>13. Zmping(z)
  <2>1. z.c \in 1..(Len(input) + 1) /\ z.c - 1 = k
    BY <1>8, <1>12
  <2>2. z.args \in Seq(Seq(Octets))
    BY <1>8, <1>9
  <2>3. Flat(Ended(z.args)) = SubSeq(input, 1, k)
    BY <1>8, <1>10, <1>11, Zenon
  <2> QED
    BY <2>1, <2>2, <2>3 DEF Zmping
<1> QED
  BY <1>1, <1>7, <1>8, <1>12, <1>13

\* The arguments are all of the payload.
LEMMA ZmpAll ==
  ASSUME NEW N \in Nat \ {0}, input \in Seq(Octets), Len(input) = N, input[N] = T!NUL
  PROVE  Flat(Ended(T!Args(input))) = input
<1>1. PICK u : /\ u[0] = [c |-> 1, args |-> <<>>]
               /\ \A n \in 1..N : u[n] = T!Arg(input, u[n - 1])
               /\ T!Args(input) = u[N].args
  <2>1. N \in Nat /\ N = Len(input)
    OBVIOUS
  <2> QED
    BY <2>1, ArgsTurns, SMTT(60)
<1> DEFINE Going == {n \in 0..N : Zmping(u[n]) /\ (u[n].c > N \/ u[n].c >= n + 1)}
<1>2. 0 \in Going
  <2>1. PICK p : p = u[0] /\ p.c = 1 /\ p.args = <<>>
    BY <1>1
  <2>2. Ended(<<>>) = <<>>
    BY DEF Ended
  <2>3. SubSeq(input, 1, 1 - 1) = <<>>
    BY SubSeqEmpty
  <2>4. <<>> \in Seq(Seq(Octets)) /\ 1 \in 1..(Len(input) + 1) /\ 0 \in 0..N
    OBVIOUS
  <2>5. Zmping(p)
    BY <2>1, <2>2, <2>3, <2>4, FlatEmpty DEF Zmping
  <2>6. p.c >= 0 + 1
    BY <2>1
  <2> QED
    BY <2>1, <2>4, <2>5, <2>6
<1>3. ASSUME NEW n \in 1..N, n - 1 \in Going
      PROVE  n \in Going
  <2>1. PICK p : p = u[n - 1]
    OBVIOUS
  <2>2. Zmping(p) /\ (p.c > N \/ p.c >= (n - 1) + 1) /\ u[n] = T!Arg(input, p)
    BY <1>1, <1>3, <2>1
  <2>3. PICK c \in 1..(N + 1) : c = p.c
    BY <2>2 DEF Zmping
  <2>4. CASE c <= N
    <3>1. Zmping(u[n]) /\ u[n].c > c
      BY <2>2, <2>3, <2>4, ZmpStep
    <3>2. u[n].c \in 1..(N + 1)
      BY <3>1 DEF Zmping
    <3>3. u[n].c >= n + 1
      BY <2>2, <2>3, <2>4, <3>1, <3>2
    <3> QED
      BY <3>1, <3>3
  <2>5. CASE c > N
    <3>1. u[n] = p
      BY <2>2, <2>3, <2>5 DEF T!Arg
    <3> QED
      BY <2>2, <2>3, <2>5, <3>1
  <2> QED
    BY <2>3, <2>4, <2>5
<1>4. N \in Going
  <2> HIDE DEF Going
  <2>1. \A n \in 1..N : n - 1 \in Going => n \in Going
    BY <1>3
  <2>2. \A n \in 0..N : n \in Going
    BY <1>2, <2>1, UpTo
  <2> QED
    BY <2>2
<1>5. PICK p : p = u[N]
  OBVIOUS
<1>6. Zmping(p) /\ p.c - 1 = N
  <2>1. Zmping(p) /\ (p.c > N \/ p.c >= N + 1)
    BY <1>4, <1>5
  <2>2. p.c \in 1..(N + 1)
    BY <2>1 DEF Zmping
  <2> QED
    BY <2>1, <2>2
<1>7. SubSeq(input, 1, N) = input
  BY SubSeqFull
<1> QED
  BY <1>1, <1>5, <1>6, <1>7 DEF Zmping

\* The arguments of ZMP and the name of a terminal are the strings sent.
LEMMA ZmpIs ==
  ASSUME input \in Seq(Octets)
  PROVE  ZmpExact
<1>1. PICK N \in Nat : N = Len(input) /\ DOMAIN input = 1..N
  BY LenProperties
<1>2. ASSUME NEW args \in T!Zmp(input)
      PROVE  Flat([n \in DOMAIN args |-> Append(args[n], T!NUL)]) = input
  <2>1. input # <<>> /\ input[N] = T!NUL /\ args = T!Args(input)
    BY <1>1 DEF T!Zmp
  <2>2. N # 0
    BY <1>1, <2>1, EmptySeq
  <2>3. Flat(Ended(args)) = input
    BY <1>1, <2>1, <2>2, ZmpAll
  <2> QED
    BY <2>3 DEF Ended
<1>3. T!Zmp(input) = {} <=> input = <<>> \/ input[Len(input)] # T!NUL
  BY DEF T!Zmp
<1>4. ASSUME NEW e \in T!Ttype(input)
      PROVE  e.name = IF input[1] = T!TtypeIs THEN UpToNul(Tail(input)) ELSE <<>>
  <2>1. input # <<>> /\ input[1] \in {T!TtypeIs, T!TtypeSend}
    BY DEF T!Ttype
  <2>2. T!TtypeIs # T!TtypeSend
    BY DEF T!TtypeIs, T!TtypeSend
  <2>3. CASE input[1] = T!TtypeSend
    BY <2>1, <2>2, <2>3 DEF T!Ttype
  <2>4. CASE input[1] = T!TtypeIs
    <3>1. e.name = T!StringAt(Append(Tail(input), T!NUL), 1)
      BY <2>1, <2>2, <2>4 DEF T!Ttype
    <3>2. PICK w \in Seq(Octets) : w = Tail(input)
      <4>1. Tail(input) \in Seq(Octets)
        BY <2>1, HeadTailProperties
      <4> QED
        BY <4>1
    <3>3. PICK k \in Nat : k = Len(w)
      BY LenProperties
    <3>4. PICK b \in Seq(Octets) : b = Append(w, T!NUL) /\ Len(b) = k + 1 /\ b[k + 1] = T!NUL
                                   /\ \A n \in 1..k : b[n] = w[n]
      <4>1. T!NUL \in Octets
        BY DEF T!NUL, Octets
      <4>2. /\ Append(w, T!NUL) \in Seq(Octets)
            /\ Len(Append(w, T!NUL)) = k + 1
            /\ \A i \in 1..k : Append(w, T!NUL)[i] = w[i]
            /\ Append(w, T!NUL)[k + 1] = T!NUL
        BY <3>3, <4>1, AppendProperties
      <4> QED
        BY <4>2, Zenon
    <3>5. 1 + k <= Len(b) /\ b[1 + k] = T!NUL /\ \A n \in 1..k : b[(1 + n) - 1] = w[n]
      <4>1. 1 + k = k + 1 /\ \A n \in 1..k : (1 + n) - 1 = n
        BY <3>3
      <4> QED
        BY <3>4, <4>1
    <3>6. 1 \in Nat \ {0}
      OBVIOUS
    <3>7. T!StringAt(b, 1) = UpToNul(w)
      BY <3>3, <3>5, <3>6, StringIs
    <3> QED
      BY <2>4, <3>1, <3>2, <3>4, <3>7, Zenon
  <2> QED
    BY <2>1, <2>3, <2>4
<1> QED
  BY <1>2, <1>3, <1>4 DEF ZmpExact

\* No string that a client sends in MSSP, ZMP or TERMINAL-TYPE gets lost in the
\* buffer it came in, and none is read past its end (_mssp_telnet, _zmp_telnet,
\* _ttype_telnet), for payloads of any length.
THEOREM StringsCorrect == Spec => []StringsExact
<1>1. CodecInputs => StringsExact
  <2>1. codec # "mssp" => StringsExact
    BY DEF StringsExact, MsspExact, ZmpExact
  <2>2. CodecInputs /\ codec = "mssp" => StringsExact
    <3>1. CodecInputs /\ codec = "mssp" => input \in Seq(Octets)
      BY DEF CodecInputs
    <3> QED
      BY <3>1, MsspIs, ZmpIs DEF StringsExact
  <2> QED
    BY <2>1, <2>2
<1> QED
  BY <1>1, CodecInputsHold, PTL

-----------------------------------------------------------------------------
(* ENVIRON: the entries.                                                   *)

\* An octet of ENVIRON is literal if an ESC before it, that is not, says so.
LEMMA LiteralIs ==
  ASSUME NEW N \in Nat, N = Len(input), DOMAIN input = 1..N
  PROVE  /\ Literal \in SUBSET (1..N)
         /\ \A i \in 1..N :
              i \in Literal <=> i > 2 /\ input[i - 1] = T!EnvironEsc /\ i - 1 \notin Literal
<1> DEFINE Step(i, p) == i > 2 /\ input[i - 1] = T!EnvironEsc /\ ~p
           F(g, m) == [i \in 1..m |-> Step(i, g[i - 1])]
           Upto == {m \in 0..N : \E g : g = F(g, m)}
           G == CHOOSE g : g = F(g, N)
<1>1. Literal = {i \in 1..N : G[i]}
  BY Zenon DEF Literal
<1>2. \A p, q : Step(1, p) = Step(1, q)
  <2>1. ~(1 > 2)
    OBVIOUS
  <2> QED
    BY <2>1, Zenon
<1> HIDE DEF Step
<1>3. 0 \in Upto
  <2>1. F(<<>>, 0) = F(F(<<>>, 0), 0)
    OBVIOUS
  <2> HIDE DEF F
  <2> QED
    BY <2>1
<1>4. ASSUME NEW m \in 1..N, m - 1 \in Upto
      PROVE  m \in Upto
  <2>1. PICK g : g = F(g, m - 1)
    BY <1>4
  <2> DEFINE h == F(g, m)
  <2>2. \A i \in 2..m : h[i - 1] = g[i - 1]
    <3> SUFFICES ASSUME NEW i \in 2..m
                 PROVE  h[i - 1] = g[i - 1]
      OBVIOUS
    <3>1. i - 1 \in 1..m /\ i - 1 \in 1..(m - 1)
      OBVIOUS
    <3>2. PICK k : k = i - 1
      OBVIOUS
    <3>3. h[k] = Step(k, g[k - 1])
      BY <3>1, <3>2, Zenon
    <3>4. g[k] = Step(k, g[k - 1])
      BY <2>1, <3>1, <3>2, Zenon
    <3> QED
      BY <3>2, <3>3, <3>4, Zenon
  <2> HIDE DEF h
  <2>3. \A i \in 1..m : Step(i, g[i - 1]) = Step(i, h[i - 1])
    <3>1. \A i \in 1..m : i = 1 \/ i \in 2..m
      OBVIOUS
    <3> QED
      BY <1>2, <2>2, <3>1, Zenon
  <2>4. F(g, m) = F(h, m)
    BY <2>3, Zenon
  <2> HIDE DEF F, h
  <2> QED
    BY <2>4 DEF h
<1>5. N \in Upto
  <2> HIDE DEF Upto
  <2>1. \A m \in 1..N : m - 1 \in Upto => m \in Upto
    BY <1>4
  <2>2. \A m \in 0..N : m \in Upto
    BY <1>3, <2>1, UpTo
  <2> QED
    BY <2>2
<1>6. G = F(G, N)
  <2> HIDE DEF F
  <2> QED
    BY <1>5
<1>7. \A i \in 1..N : G[i] = Step(i, G[i - 1])
  <2> HIDE DEF G
  <2> QED
    BY <1>6, Zenon
<1> HIDE DEF G
<1>8. Literal \in SUBSET (1..N)
  BY <1>1
<1>9. ASSUME NEW i \in 1..N
      PROVE  i \in Literal <=> i > 2 /\ input[i - 1] = T!EnvironEsc /\ i - 1 \notin Literal
  <2>1. i \in Literal <=> Step(i, G[i - 1])
    BY <1>1, <1>7, Zenon
  <2>2. CASE i > 2
    <3>1. i - 1 \in 1..N
      BY <2>2
    <3>2. i - 1 \in Literal <=> G[i - 1]
      BY <1>1, <3>1, Zenon
    <3> QED
      BY <2>1, <2>2, <3>2, Zenon DEF Step
  <2>3. CASE ~(i > 2)
    BY <2>1, <2>3, Zenon DEF Step
  <2> QED
    BY <2>2, <2>3
<1> QED
  BY <1>8, <1>9

\* The turns of the loop that counts the entries of ENVIRON.
LEMMA EntriesTurns ==
  ASSUME NEW b, NEW N \in Nat, N = Len(b)
  PROVE  \E u :
               /\ u[0] = [c |-> 2, count |-> 0]
               /\ \A n \in 1..N : u[n] = T!Count(b, u[n - 1])
               /\ T!Entries(b) = u[N].count
<1> DEFINE Step(n, p) == T!Count(b, p)
           Start == [c |-> 2, count |-> 0]
           F(g, m) == [n \in 0..m |-> IF n = 0 THEN Start ELSE Step(n, g[n - 1])]
           Upto == {m \in 0..N : \E g : g = F(g, m)}
           G == CHOOSE g : g = F(g, N)
<1>1. T!Entries(b) = G[N].count
  BY Zenon DEF T!Entries
<1> HIDE DEF Step, Start
<1>2. 0 \in Upto
  <2>1. F(<<>>, 0) = F(F(<<>>, 0), 0)
    OBVIOUS
  <2> HIDE DEF F
  <2> QED
    BY <2>1
<1>3. ASSUME NEW m \in 1..N, m - 1 \in Upto
      PROVE  m \in Upto
  <2>1. PICK g : g = F(g, m - 1)
    BY <1>3
  <2> DEFINE h == F(g, m)
  <2>2. \A n \in 1..m : h[n - 1] = g[n - 1]
    BY <2>1
  <2> HIDE DEF h
  <2>3. \A n \in 0..m : (IF n = 0 THEN Start ELSE Step(n, g[n - 1]))
                            = (IF n = 0 THEN Start ELSE Step(n, h[n - 1]))
    BY <2>2
  <2>4. F(g, m) = F(h, m)
    BY <2>3
  <2> HIDE DEF F, h
  <2> QED
    BY <2>4 DEF h
<1>4. N \in Upto
  <2> HIDE DEF Upto
  <2>1. \A m \in 1..N : m - 1 \in Upto => m \in Upto
    BY <1>3
  <2>2. \A m \in 0..N : m \in Upto
    BY <1>2, <2>1, UpTo
  <2> QED
    BY <2>2
<1>5. G = F(G, N)
  <2> HIDE DEF F
  <2> QED
    BY <1>4
<1>6. G[0] = Start /\ \A n \in 1..N : G[n] = Step(n, G[n - 1])
  <2> HIDE DEF G
  <2> QED
    BY <1>5
<1> HIDE DEF G
<1> QED
  BY <1>1, <1>6, Zenon DEF Start, Step

\* The turns of the loop that unpacks them.
LEMMA EnvironsTurns ==
  ASSUME NEW b, NEW N \in Nat, N = T!Entries(b)
  PROVE  \E u :
               /\ u[0] = [b |-> b, c |-> 2, out |-> 1, values |-> <<>>]
               /\ \A n \in 1..N : u[n] = T!EnvironEntry(u[n - 1])
               /\ T!Environs(b) = u[N]
<1> DEFINE Step(n, p) == T!EnvironEntry(p)
           Start == [b |-> b, c |-> 2, out |-> 1, values |-> <<>>]
           F(g, m) == [n \in 0..m |-> IF n = 0 THEN Start ELSE Step(n, g[n - 1])]
           Upto == {m \in 0..N : \E g : g = F(g, m)}
           G == CHOOSE g : g = F(g, N)
<1>1. T!Environs(b) = G[N]
  BY Zenon DEF T!Environs
<1> HIDE DEF Step, Start
<1>2. 0 \in Upto
  <2>1. F(<<>>, 0) = F(F(<<>>, 0), 0)
    OBVIOUS
  <2> HIDE DEF F
  <2> QED
    BY <2>1
<1>3. ASSUME NEW m \in 1..N, m - 1 \in Upto
      PROVE  m \in Upto
  <2>1. PICK g : g = F(g, m - 1)
    BY <1>3
  <2> DEFINE h == F(g, m)
  <2>2. \A n \in 1..m : h[n - 1] = g[n - 1]
    BY <2>1
  <2> HIDE DEF h
  <2>3. \A n \in 0..m : (IF n = 0 THEN Start ELSE Step(n, g[n - 1]))
                            = (IF n = 0 THEN Start ELSE Step(n, h[n - 1]))
    BY <2>2
  <2>4. F(g, m) = F(h, m)
    BY <2>3
  <2> HIDE DEF F, h
  <2> QED
    BY <2>4 DEF h
<1>4. N \in Upto
  <2> HIDE DEF Upto
  <2>1. \A m \in 1..N : m - 1 \in Upto => m \in Upto
    BY <1>3
  <2>2. \A m \in 0..N : m \in Upto
    BY <1>2, <2>1, UpTo
  <2> QED
    BY <2>2
<1>5. G = F(G, N)
  <2> HIDE DEF F
  <2> QED
    BY <1>4
<1>6. G[0] = Start /\ \A n \in 1..N : G[n] = Step(n, G[n - 1])
  <2> HIDE DEF G
  <2> QED
    BY <1>5
<1> HIDE DEF G
<1> QED
  BY <1>1, <1>6, Zenon DEF Start, Step

\* The codes of ENVIRON are different.
LEMMA EnvironCodes ==
  /\ T!EnvironValue \notin T!EnvironVar /\ T!EnvironEsc \notin T!EnvironVar
  /\ T!EnvironValue # T!EnvironEsc /\ T!EnvironVar \cap {T!EnvironEsc} = {}
  /\ (T!EnvironVar \cup {T!EnvironValue}) \cap {T!EnvironEsc} = {}
BY DEF T!EnvironValue, T!EnvironVar, T!EnvironEsc

\* A payload of ENVIRON with entries, and the positions where they start.
Payload(N) ==
  /\ N \in Nat /\ N >= 2 /\ input \in Seq(Octets) /\ Len(input) = N
  /\ input[2] \in T!EnvironVar /\ input[N] # T!EnvironEsc
EntryStarts == {i \in 2..Len(input) : Code(i, T!EnvironVar)}

\* What is literal in it.
LEMMA LiteralNext ==
  ASSUME NEW N, Payload(N)
  PROVE  /\ Literal \in SUBSET (1..N) /\ 2 \notin Literal /\ N + 1 \notin Literal
         /\ \A i \in 2..N : i + 1 \in Literal <=> i \notin Literal /\ input[i] \in {T!EnvironEsc}
<1>1. N \in Nat /\ N >= 2 /\ N = Len(input) /\ DOMAIN input = 1..N /\ input[N] # T!EnvironEsc
  <2>1. input \in Seq(Octets) /\ N = Len(input)
    BY DEF Payload
  <2> QED
    BY <2>1, LenProperties DEF Payload
<1>2. /\ Literal \in SUBSET (1..N)
      /\ \A i \in 1..N :
           i \in Literal <=> i > 2 /\ input[i - 1] = T!EnvironEsc /\ i - 1 \notin Literal
  BY <1>1, LiteralIs
<1>3. 2 \notin Literal /\ N + 1 \notin Literal
  <2>1. 2 \in 1..N /\ ~(2 > 2) /\ N + 1 \notin 1..N
    BY <1>1
  <2> QED
    BY <1>2, <2>1
<1>4. ASSUME NEW i \in 2..N
      PROVE  i + 1 \in Literal <=> i \notin Literal /\ input[i] \in {T!EnvironEsc}
  <2>1. CASE i = N
    BY <1>1, <1>3, <2>1
  <2>2. CASE i # N
    <3>1. PICK k \in 1..N : k = i + 1 /\ k > 2 /\ k - 1 = i
      BY <1>1, <2>2
    <3>2. k \in Literal <=> input[i] = T!EnvironEsc /\ i \notin Literal
      BY <1>2, <3>1
    <3> QED
      BY <3>1, <3>2
  <2> QED
    BY <2>1, <2>2
<1> QED
  BY <1>2, <1>3, <1>4

LEMMA EntryStartsIn ==
  ASSUME NEW N, Payload(N)
  PROVE  /\ EntryStarts \in SUBSET (1..N)
         /\ \A i \in 1..N : i \in EntryStarts <=> /\ i >= 2 /\ i \notin Literal
                                                 /\ input[i] \in T!EnvironVar
<1>1. N \in Nat /\ N = Len(input)
  BY DEF Payload
<1>2. \A i \in 1..N : i \in 2..N <=> i >= 2
  BY <1>1
<1>3. 2..N \in SUBSET (1..N)
  BY <1>1
<1>4. EntryStarts = {i \in 2..N : i \notin Literal /\ input[i] \in T!EnvironVar}
  BY <1>1 DEF EntryStarts, Code
<1> HIDE DEF EntryStarts
<1> QED
  BY <1>2, <1>3, <1>4

\* As many entries are counted as start.
LEMMA EntriesIs ==
  ASSUME NEW N, Payload(N)
  PROVE  T!Entries(input) = Cardinality(EntryStarts)
<1>1. N \in Nat /\ N >= 2 /\ N = Len(input)
  BY DEF Payload
<1>2. PICK u : /\ u[0] = [c |-> 2, count |-> 0]
               /\ \A n \in 1..N : u[n] = T!Count(input, u[n - 1])
               /\ T!Entries(input) = u[N].count
  BY <1>1, EntriesTurns
<1>3. /\ Literal \in SUBSET (1..N) /\ 2 \notin Literal /\ N + 1 \notin Literal
      /\ \A i \in 2..N : i + 1 \in Literal <=> i \notin Literal /\ input[i] \in {T!EnvironEsc}
  BY LiteralNext
<1>4. /\ EntryStarts \in SUBSET (1..N)
      /\ \A i \in 1..N : i \in EntryStarts <=> /\ i >= 2 /\ i \notin Literal
                                              /\ input[i] \in T!EnvironVar
  BY EntryStartsIn
<1> DEFINE Going == {n \in 0..N : /\ u[n].c \in 2..(N + 1) /\ u[n].c \notin Literal
                                  /\ u[n].count = CountTo(EntryStarts, u[n].c - 1)
                                  /\ u[n].c > N \/ u[n].c >= n + 2}
<1> HIDE DEF EntryStarts, Literal
<1>5. 0 \in Going
  <2>1. u[0].c = 2 /\ u[0].count = 0
    BY <1>2
  <2>2. CountTo(EntryStarts, 2 - 1) = 0
    <3>1. 0 \in 0..N /\ 1 \in 0..N /\ 0 <= 1 /\ 2 - 1 = 1 /\ 1 \in 1..N /\ ~(1 >= 2)
      BY <1>1
    <3>2. \A i \in (0 + 1)..1 : i \notin EntryStarts
      <4>1. 1 \notin EntryStarts
        BY <1>4, <3>1
      <4>2. \A i \in (0 + 1)..1 : i = 1
        OBVIOUS
      <4> QED
        BY <4>1, <4>2
    <3>3. CountTo(EntryStarts, 0) = CountTo(EntryStarts, 1)
      BY <1>1, <1>4, <3>1, <3>2, CountSame
    <3>4. CountTo(EntryStarts, 0) = 0
      BY <1>1, <1>4, <3>1, CountFinite
    <3> QED
      BY <3>1, <3>3, <3>4
  <2>3. 2 \in 2..(N + 1) /\ 2 >= 0 + 2 /\ 0 \in 0..N
    BY <1>1
  <2> QED
    BY <1>3, <2>1, <2>2, <2>3
<1>6. ASSUME NEW n \in 1..N, n - 1 \in Going
      PROVE  n \in Going
  <2>1. PICK p : p = u[n - 1]
    OBVIOUS
  <2>2. /\ p.c \in 2..(N + 1) /\ p.c \notin Literal /\ p.count = CountTo(EntryStarts, p.c - 1)
        /\ p.c > N \/ p.c >= (n - 1) + 2
        /\ u[n] = T!Count(input, p)
    BY <1>2, <1>6, <2>1
  <2>3. PICK c \in 2..(N + 1) : c = p.c
    BY <2>2
  <2>4. PICK k : k = p.count /\ k = CountTo(EntryStarts, c - 1) /\ k \in Nat
    <3>1. c - 1 \in 0..N
      BY <1>1, <2>3
    <3>2. CountTo(EntryStarts, c - 1) \in Nat
      BY <1>1, <1>4, <3>1, CountFinite
    <3> QED
      BY <2>2, <2>3, <3>2
  <2>5. n \in 0..N
    OBVIOUS
  <2>6. CASE c > N
    <3>1. u[n] = p
      BY <1>1, <2>2, <2>3, <2>6 DEF T!Count
    <3> QED
      BY <2>2, <2>3, <2>5, <2>6, <3>1
  <2>7. CASE c <= N
    <3>1. PICK d \in 1..N : d = c /\ d \in 2..N /\ d \in 0..N
      BY <1>1, <2>3, <2>7
    <3>2. PICK z : z = u[n]
      OBVIOUS
    <3>3. z = [c |-> IF input[d] = T!EnvironEsc THEN d + 2 ELSE d + 1,
               count |-> IF input[d] \in T!EnvironVar THEN k + 1 ELSE k]
      BY <1>1, <2>2, <2>3, <2>4, <2>7, <3>1, <3>2 DEF T!Count
    <3>4. CountTo(EntryStarts, d) = IF d \in EntryStarts THEN k + 1 ELSE k
      BY <1>1, <1>4, <2>4, <3>1, CountStep
    <3>5. d \in EntryStarts <=> input[d] \in T!EnvironVar
      BY <1>4, <2>2, <2>3, <3>1
    <3>6. CASE input[d] = T!EnvironEsc
      <4>1. d + 1 \in Literal
        BY <1>3, <2>2, <2>3, <3>1, <3>6
      <4>2. PICK f \in 2..N : f = d + 1 /\ f \in 1..N /\ f \in 0..N
        <5>1. d + 1 \in 1..N
          BY <1>3, <4>1
        <5> QED
          BY <3>1, <5>1
      <4>3. f + 1 \notin Literal /\ f \notin EntryStarts
        BY <1>3, <1>4, <4>1, <4>2
      <4>4. z.c = f + 1 /\ z.count = k
        BY <3>3, <3>6, <4>2, EnvironCodes
      <4>5. CountTo(EntryStarts, f) = k
        <5>1. d <= f /\ \A i \in (d + 1)..f : i \notin EntryStarts
          BY <4>2, <4>3
        <5>2. CountTo(EntryStarts, d) = CountTo(EntryStarts, f)
          BY <1>1, <1>4, <3>1, <4>2, <5>1, CountSame
        <5> QED
          BY <3>4, <3>5, <3>6, <5>2, EnvironCodes
      <4>6. f + 1 \in 2..(N + 1) /\ (f + 1) - 1 = f /\ (f + 1 > N \/ f + 1 >= n + 2)
        <5>1. c > N \/ c >= (n - 1) + 2
          BY <2>2, <2>3
        <5>2. d \in Int /\ f \in Int /\ d >= n + 1 /\ f = d + 1 /\ 2 <= f /\ f <= N
          BY <1>1, <2>7, <3>1, <4>2, <5>1
        <5> QED
          BY <1>1, <5>2
      <4> QED
        BY <2>5, <3>2, <4>3, <4>4, <4>5, <4>6
    <3>7. CASE input[d] # T!EnvironEsc
      <4>1. d + 1 \notin Literal
        BY <1>3, <3>1, <3>7
      <4>2. z.c = d + 1 /\ z.count = CountTo(EntryStarts, d)
        BY <3>3, <3>4, <3>5, <3>7
      <4>3. d + 1 \in 2..(N + 1) /\ (d + 1) - 1 = d /\ (d + 1 > N \/ d + 1 >= n + 2)
        BY <1>1, <2>2, <2>3, <2>7, <3>1
      <4> QED
        BY <2>5, <3>2, <4>1, <4>2, <4>3
    <3> QED
      BY <3>6, <3>7
  <2> QED
    BY <1>1, <2>3, <2>6, <2>7
<1>7. N \in Going
  <2> HIDE DEF Going
  <2>1. \A n \in 1..N : n - 1 \in Going => n \in Going
    BY <1>6
  <2>2. \A n \in 0..N : n \in Going
    BY <1>1, <1>5, <2>1, UpTo
  <2> QED
    BY <1>1, <2>2
<1>8. PICK p : p = u[N]
  OBVIOUS
<1>9. p.c - 1 = N /\ p.count = CountTo(EntryStarts, N)
  <2>1. p.c \in 2..(N + 1) /\ p.count = CountTo(EntryStarts, p.c - 1) /\ (p.c > N \/ p.c >= N + 2)
    BY <1>7, <1>8
  <2>2. p.c - 1 = N
    BY <1>1, <2>1
  <2> QED
    BY <2>1, <2>2
<1>10. CountTo(EntryStarts, N) = Cardinality(EntryStarts)
  <2>1. N \in 0..N
    BY <1>1
  <2> QED
    BY <1>1, <1>4, <2>1, CountFinite
<1> QED
  BY <1>2, <1>8, <1>9, <1>10

-----------------------------------------------------------------------------
(* ENVIRON: the strings of an entry.                                       *)

\* No more octets are kept than there are.
LEMMA KeptToFew ==
  ASSUME NEW s, NEW c \in Nat, NEW e \in Nat, c <= e, NEW esc, NEW lit
  PROVE  /\ Cardinality(KeptTo(s, c, e, esc, lit)) \in Nat
         /\ Cardinality(KeptTo(s, c, e, esc, lit)) <= e - c
<1>1. PICK d \in Int : d = e - 1
  OBVIOUS
<1>2. IsFiniteSet(c..d) /\ Cardinality(c..d) = IF c > d THEN 0 ELSE (d - c) + 1
  BY FS_Interval
<1>3. KeptTo(s, c, e, esc, lit) \in SUBSET (c..d)
  BY <1>1 DEF KeptTo
<1>4. /\ IsFiniteSet(KeptTo(s, c, e, esc, lit))
      /\ Cardinality(KeptTo(s, c, e, esc, lit)) <= Cardinality(c..d)
  BY <1>2, <1>3, FS_Subset
<1>5. Cardinality(KeptTo(s, c, e, esc, lit)) \in Nat
  BY <1>4, FS_CardinalityType
<1>6. Cardinality(c..d) = e - c
  BY <1>1, <1>2
<1> QED
  BY <1>4, <1>5, <1>6

\* What unpacking a string of ENVIRON gives, after the sign at k of b and to out.
EnvironRead(N, b, k, out, stops, r) ==
  /\ r.b \in Seq(Octets) /\ Len(r.b) = N
  /\ r.c \in (k + 1)..(N + 1) /\ r.out \in (out + 1)..(r.c - 1) /\ r.c \notin Literal
  /\ \A i \in (k + 1)..(r.c - 1) : i \in Literal \/ input[i] \notin stops
  /\ r.c <= N => input[r.c] \in stops
  /\ Stored(r.b, out, KeptTo(input, k + 1, r.c, {T!EnvironEsc}, Literal), r.out)
  /\ SameOutside(b, r.b, out, r.out)
  /\ \A i \in r.c..N : r.b[i] = input[i]

LEMMA EnvironString ==
  ASSUME NEW N, Payload(N), NEW b \in Seq(Octets), Len(b) = N,
         NEW k \in 2..N, k \notin Literal, input[k] # T!EnvironEsc,
         NEW out \in 1..(k - 1), \A i \in k..N : b[i] = input[i],
         NEW stops, stops \cap {T!EnvironEsc} = {}
  PROVE  EnvironRead(N, b, k, out, stops, T!Unpack(b, k + 1, out, stops, {T!EnvironEsc}))
<1> DEFINE r == T!Unpack(b, k + 1, out, stops, {T!EnvironEsc})
<1>1. N \in Nat /\ N >= 2 /\ input \in Seq(Octets) /\ Len(input) = N
  BY DEF Payload
<1>2. /\ N + 1 \notin Literal
      /\ \A i \in 2..N : i + 1 \in Literal <=> i \notin Literal /\ input[i] \in {T!EnvironEsc}
  BY LiteralNext
<1>3. PICK c \in 3..(N + 1) : c = k + 1
  BY <1>1
<1>4. c \notin Literal
  BY <1>1, <1>2, <1>3
<1>5. /\ out \in 1..N /\ out \in 1..(c - 1) /\ c \in 1..(N + 1)
      /\ \A i \in c..N : i \in k..N /\ i \in 2..N
  BY <1>1, <1>3
<1>6. MayCopy(input, b, c, out, stops, {T!EnvironEsc}, Literal)
  BY <1>1, <1>2, <1>4, <1>5 DEF MayCopy
<1>7. Unpacked(input, b, c, out, stops, {T!EnvironEsc}, Literal, r)
  BY <1>1, <1>3, <1>6, UnpackIs
<1> HIDE DEF r
<1>8. /\ Stored(r.b, out, KeptTo(input, c, r.c, {T!EnvironEsc}, Literal), r.out)
      /\ r.c \in c..(N + 1) /\ r.out \in (out + 1)..r.c
  BY <1>1, <1>5, <1>7, UnpackedStored
<1>9. PICK e \in c..(N + 1) : e = r.c
  BY <1>8
<1>10. PICK m \in Nat : m = Cardinality(KeptTo(input, c, e, {T!EnvironEsc}, Literal)) /\ m <= e - c
  <2>1. c \in Nat /\ e \in Nat /\ c <= e
    BY <1>1, <1>3, <1>9
  <2> QED
    BY <2>1, KeptToFew
<1>11. r.out = out + m + 1
  BY <1>9, <1>10, <1>7 DEF Unpacked
<1>12. PICK high \in (out + 1)..(e - 1) : high = r.out
  <2>1. out + m + 1 \in (out + 1)..(e - 1)
    BY <1>1, <1>3, <1>9, <1>10, SMTT(60)
  <2> QED
    BY <1>11, <2>1
<1>13. PICK g \in Seq(Octets) : g = r.b /\ Len(g) = N
  BY <1>1, <1>7 DEF Unpacked
<1>14. /\ e \notin Literal /\ \A i \in c..(e - 1) : i \in Literal \/ input[i] \notin stops
       /\ e <= N => input[e] \in stops
       /\ SameOutside(b, g, out, high)
  BY <1>1, <1>7, <1>9, <1>12, <1>13 DEF Unpacked
<1>15. \A i \in e..N : g[i] = input[i]
  <2> SUFFICES ASSUME NEW i \in e..N
               PROVE  g[i] = input[i]
    OBVIOUS
  <2>1. i \in 1..N /\ high <= i /\ i \in k..N
    BY <1>1, <1>3, <1>9, <1>12
  <2>2. g[i] = b[i]
    BY <1>14, <2>1 DEF SameOutside
  <2> QED
    BY <2>1, <2>2
<1>16. r.out \in (out + 1)..(r.c - 1) /\ r.c \in (k + 1)..(N + 1)
  BY <1>3, <1>9, <1>12
<1> QED
  BY <1>3, <1>8, <1>9, <1>12, <1>13, <1>14, <1>15, <1>16 DEF EnvironRead, r

\* The octets of the entry from start to end without the ESC, the signs among them
\* that start a value, and where they are stored, before out.
EntryOctets(start, end) == {i \in (start + 1)..end : ~Code(i, {T!EnvironEsc})}
EntrySigns(start, end) == {i \in EntryOctets(start, end) : Code(i, {T!EnvironValue})}

EnvironStored(b, v, start, end, out) ==
  LET octets == EntryOctets(start, end)
      x == Nth(EntrySigns(start, end), 1)
  IN  /\ v.type = input[start]
      /\ EntrySigns(start, end) = {} => v.value = {} /\ Stored(b, v.var, octets, out)
      /\ EntrySigns(start, end) # {} =>
           /\ Stored(b, v.var, {i \in octets : i < x}, out)
           /\ \E q : v.value = {q} /\ Stored(b, q, {i \in octets : i > x}, out)

LEMMA EntryIn ==
  ASSUME NEW N \in Nat, NEW start \in 1..N, NEW end \in 1..N
  PROVE  EntryOctets(start, end) \in SUBSET (1..N)
BY DEF EntryOctets

LEMMA EnvironStays ==
  ASSUME NEW N \in Nat, NEW b \in Seq(Octets), Len(b) = N, NEW v,
         NEW start \in 1..N, NEW end \in 1..N,
         NEW out \in 1..(N + 1), EnvironStored(b, v, start, end, out),
         NEW r, NEW high \in Nat, out <= high, SameOutside(b, r, out, high)
  PROVE  EnvironStored(r, v, start, end, high)
<1>1. PICK octets \in SUBSET (1..N) : octets = EntryOctets(start, end)
  BY EntryIn
<1>2. PICK x : x = Nth(EntrySigns(start, end), 1)
  OBVIOUS
<1>3. \A S \in SUBSET (1..N) : \A p : Stored(b, p, S, out) => Stored(r, p, S, high)
  BY StoredStays
<1>4. {i \in octets : i < x} \in SUBSET (1..N) /\ {i \in octets : i > x} \in SUBSET (1..N)
  OBVIOUS
<1>5. v.type = input[start]
  BY DEF EnvironStored
<1>6. EntrySigns(start, end) = {} => v.value = {} /\ Stored(r, v.var, octets, high)
  <2>1. EntrySigns(start, end) = {} => v.value = {} /\ Stored(b, v.var, octets, out)
    BY <1>1 DEF EnvironStored
  <2> QED
    BY <1>3, <2>1, Zenon
<1>7. EntrySigns(start, end) # {} =>
        /\ Stored(r, v.var, {i \in octets : i < x}, high)
        /\ \E q : v.value = {q} /\ Stored(r, q, {i \in octets : i > x}, high)
  <2>1. EntrySigns(start, end) # {} =>
          /\ Stored(b, v.var, {i \in octets : i < x}, out)
          /\ \E q : v.value = {q} /\ Stored(b, q, {i \in octets : i > x}, out)
    BY <1>1, <1>2 DEF EnvironStored
  <2>2. ASSUME NEW z, Stored(b, z, {i \in octets : i < x}, out)
        PROVE  Stored(r, z, {i \in octets : i < x}, high)
    BY <1>3, <1>4, <2>2, Zenon
  <2>3. ASSUME NEW z, Stored(b, z, {i \in octets : i > x}, out)
        PROVE  Stored(r, z, {i \in octets : i > x}, high)
    BY <1>3, <1>4, <2>3, Zenon
  <2> QED
    BY <2>1, <2>2, <2>3, Zenon
<1> QED
  BY <1>1, <1>2, <1>5, <1>6, <1>7, Zenon DEF EnvironStored

\* The first sign of the entry from start to before e is at f.
FirstSignAt(N, start, f, e) ==
  /\ start \in 2..N /\ f \in (start + 1)..N /\ e \in (f + 1)..(N + 1)
  /\ f \notin Literal /\ input[f] = T!EnvironValue
  /\ \A i \in (start + 1)..(f - 1) : i \in Literal \/ input[i] # T!EnvironValue

\* Its name is cut from its value there.
EntryCut(start, f, e) ==
  /\ EntrySigns(start, e - 1) # {} /\ Nth(EntrySigns(start, e - 1), 1) = f
  /\ {i \in EntryOctets(start, e - 1) : i < f}
       = KeptTo(input, start + 1, f, {T!EnvironEsc}, Literal)
  /\ {i \in EntryOctets(start, e - 1) : i > f}
       = KeptTo(input, f + 1, e, {T!EnvironEsc}, Literal)

\* Before and behind it: the name and the value of the entry.
LEMMA EntryParts ==
  ASSUME NEW N, Payload(N), NEW start, NEW f, NEW e, FirstSignAt(N, start, f, e)
  PROVE  EntryCut(start, f, e)
<1>1. N \in Nat /\ N >= 2
  BY DEF Payload
<1> USE DEF FirstSignAt
<1>2. PICK c \in 3..(N + 1) : c = start + 1 /\ c <= f
  BY <1>1
<1>3. EntryOctets(start, e - 1) = {i \in c..(e - 1) : i \in Literal \/ input[i] \notin {T!EnvironEsc}}
  BY <1>2 DEF EntryOctets, Code
<1>4. EntrySigns(start, e - 1) = {i \in EntryOctets(start, e - 1) :
                                    i \notin Literal /\ input[i] = T!EnvironValue}
  BY DEF EntrySigns, Code
<1> DEFINE S == EntrySigns(start, e - 1)
<1>5. f \in S
  <2>1. f \in c..(e - 1)
    BY <1>1, <1>2
  <2>2. f \in EntryOctets(start, e - 1)
    BY <1>3, <2>1, EnvironCodes
  <2> QED
    BY <1>4, <2>2
<1>6. S \in SUBSET (1..N)
  <2>1. c..(e - 1) \in SUBSET (1..N)
    BY <1>1, <1>2
  <2> QED
    BY <1>3, <1>4, <2>1
<1>7. {j \in S : j <= f} = {f}
  <2>1. ASSUME NEW j \in S, j <= f
        PROVE  j = f
    <3>1. j \in c..(e - 1) /\ j \notin Literal /\ input[j] = T!EnvironValue
      BY <1>3, <1>4, <2>1
    <3>2. j \notin c..(f - 1)
      BY <1>2, <3>1
    <3> QED
      BY <1>1, <1>2, <2>1, <3>1, <3>2
  <2>2. f <= f
    BY <1>1
  <2> QED
    BY <1>5, <2>1, <2>2
<1> HIDE DEF S
<1>8. CountTo(S, f) = 1
  BY <1>7, FS_Singleton DEF CountTo
<1>9. Nth(S, CountTo(S, f)) = f
  BY <1>1, <1>5, <1>6, NthIs
<1>10. {i \in EntryOctets(start, e - 1) : i < f}
         = KeptTo(input, start + 1, f, {T!EnvironEsc}, Literal)
  <2>1. \A i \in c..(e - 1) : i < f <=> i \in c..(f - 1)
    BY <1>1, <1>2
  <2>2. \A i \in c..(f - 1) : i \in c..(e - 1)
    BY <1>1, <1>2
  <2> QED
    BY <1>2, <1>3, <2>1, <2>2 DEF KeptTo
<1>11. {i \in EntryOctets(start, e - 1) : i > f}
         = KeptTo(input, f + 1, e, {T!EnvironEsc}, Literal)
  <2>1. \A i \in c..(e - 1) : i > f <=> i \in (f + 1)..(e - 1)
    BY <1>1, <1>2
  <2>2. \A i \in (f + 1)..(e - 1) : i \in c..(e - 1)
    BY <1>1, <1>2
  <2> QED
    BY <1>2, <1>3, <2>1, <2>2 DEF KeptTo
<1> QED
  BY <1>5, <1>8, <1>9, <1>10, <1>11 DEF S, EntryCut

\* Without a sign, all of an entry is its name.
LEMMA EntryWhole ==
  ASSUME NEW N, Payload(N), NEW start \in 2..N, NEW e \in (start + 1)..(N + 1),
         \A i \in (start + 1)..(e - 1) : i \in Literal \/ input[i] # T!EnvironValue
  PROVE  /\ EntrySigns(start, e - 1) = {}
         /\ EntryOctets(start, e - 1) = KeptTo(input, start + 1, e, {T!EnvironEsc}, Literal)
<1>1. EntryOctets(start, e - 1) = {i \in (start + 1)..(e - 1) :
                                     i \in Literal \/ input[i] \notin {T!EnvironEsc}}
  BY DEF EntryOctets, Code
<1>2. EntryOctets(start, e - 1) = KeptTo(input, start + 1, e, {T!EnvironEsc}, Literal)
  BY <1>1 DEF KeptTo
<1>3. \A i \in EntryOctets(start, e - 1) : i \in Literal \/ input[i] # T!EnvironValue
  BY <1>1
<1>4. EntrySigns(start, e - 1) = {}
  BY <1>3 DEF EntrySigns, Code
<1> QED
  BY <1>2, <1>4

\* Where the parts of an entry lie.
Lying(N, start, out, f, mid, e, high) ==
  /\ start \in 2..N /\ f \in (start + 1)..N /\ e \in (f + 1)..(N + 1)
  /\ out \in 1..(start - 1) /\ mid \in (out + 1)..(f - 1) /\ high \in (mid + 1)..(e - 1)

LEMMA EntryOrder ==
  ASSUME NEW N \in Nat, NEW start, NEW out, NEW f, NEW mid, NEW e, NEW high,
         Lying(N, start, out, f, mid, e, high)
  PROVE  /\ mid \in 1..(N + 1) /\ high \in Nat /\ mid <= high /\ out \in Nat /\ mid \in Nat
         /\ e \in (start + 1)..(N + 1) /\ high \in (out + 1)..(e - 1)
         /\ \A j \in 1..N : j < out \/ high <= j => (j < out \/ mid <= j) /\ (j < mid \/ high <= j)
BY DEF Lying

\* How the entry that starts at start is unpacked from b, to out: it ends before e.
EntryDone(N, b, start, out, e, g, high, v) ==
  /\ g \in Seq(Octets) /\ Len(g) = N
  /\ e \in (start + 1)..(N + 1) /\ high \in (out + 1)..(e - 1)
  /\ e <= N => e \in EntryStarts
  /\ \A i \in (start + 1)..(e - 1) : i \notin EntryStarts
  /\ v \in [type : Octets, var : Nat, value : SUBSET Nat]
  /\ EnvironStored(g, v, start, e - 1, high)
  /\ SameOutside(b, g, out, high)
  /\ \A i \in e..N : g[i] = input[i]

\* One entry more.
LEMMA EnvironStep ==
  ASSUME NEW N, Payload(N), NEW p, p.b \in Seq(Octets), Len(p.b) = N,
         p.c \in 2..N, p.c \in EntryStarts, p.out \in 1..(p.c - 1),
         \A i \in p.c..N : p.b[i] = input[i]
  PROVE  LET z == T!EnvironEntry(p) IN
         \E v : /\ EntryDone(N, p.b, p.c, p.out, z.c, z.b, z.out, v)
                /\ z.values = Append(p.values, v)
<1>1. N \in Nat /\ N >= 2 /\ input \in Seq(Octets) /\ Len(input) = N
  BY DEF Payload
<1>2. /\ Literal \in SUBSET (1..N)
      /\ \A i \in 2..N : i + 1 \in Literal <=> i \notin Literal /\ input[i] \in {T!EnvironEsc}
  BY LiteralNext
<1>3. /\ EntryStarts \in SUBSET (1..N)
      /\ \A i \in 1..N : i \in EntryStarts <=> /\ i >= 2 /\ i \notin Literal
                                              /\ input[i] \in T!EnvironVar
  BY EntryStartsIn
<1>4. PICK start \in 2..N : start = p.c
  OBVIOUS
<1>5. PICK out \in 1..(start - 1) : out = p.out
  BY <1>4
<1>6. PICK b \in Seq(Octets) : b = p.b /\ Len(b) = N
  OBVIOUS
<1>7. \A i \in start..N : b[i] = input[i]
  BY <1>4, <1>6
<1>8. start \in 1..N /\ start \in EntryStarts /\ start \notin Literal
      /\ input[start] \in T!EnvironVar /\ input[start] # T!EnvironEsc
  BY <1>1, <1>3, <1>4, EnvironCodes
<1>9. b[start] = input[start] /\ input[start] \in Octets
  <2>1. start \in start..N
    BY <1>1
  <2>2. input[start] \in Octets
    BY <1>1, <1>8, ElementOfSeq
  <2> QED
    BY <1>7, <2>1, <2>2
<1>10. PICK name : name = T!Unpack(b, start + 1, out, T!EnvironVar \cup {T!EnvironValue}, {T!EnvironEsc})
  OBVIOUS
<1>11. /\ name.b \in Seq(Octets) /\ Len(name.b) = N
       /\ name.c \in (start + 1)..(N + 1) /\ name.out \in (out + 1)..(name.c - 1)
       /\ name.c \notin Literal
       /\ \A i \in (start + 1)..(name.c - 1) :
            i \in Literal \/ input[i] \notin T!EnvironVar \cup {T!EnvironValue}
       /\ name.c <= N => input[name.c] \in T!EnvironVar \cup {T!EnvironValue}
       /\ Stored(name.b, out, KeptTo(input, start + 1, name.c, {T!EnvironEsc}, Literal), name.out)
       /\ SameOutside(b, name.b, out, name.out)
       /\ \A i \in name.c..N : name.b[i] = input[i]
  <2>1. (T!EnvironVar \cup {T!EnvironValue}) \cap {T!EnvironEsc} = {}
    BY EnvironCodes
  <2>2. EnvironRead(N, b, start, out, T!EnvironVar \cup {T!EnvironValue}, name)
    BY <1>6, <1>7, <1>8, <1>10, <2>1, EnvironString
  <2> QED
    BY <2>2 DEF EnvironRead
<1>12. PICK f \in (start + 1)..(N + 1) : f = name.c
  BY <1>11
<1>13. PICK mid \in (out + 1)..(f - 1) : mid = name.out
  BY <1>11, <1>12
<1>14. PICK h \in Seq(Octets) : h = name.b /\ Len(h) = N
  BY <1>11
<1>15. /\ f \notin Literal
       /\ \A i \in (start + 1)..(f - 1) : i \in Literal \/ input[i] \notin T!EnvironVar \cup {T!EnvironValue}
       /\ f <= N => input[f] \in T!EnvironVar \cup {T!EnvironValue}
       /\ Stored(h, out, KeptTo(input, start + 1, f, {T!EnvironEsc}, Literal), mid)
       /\ SameOutside(b, h, out, mid)
       /\ \A i \in f..N : h[i] = input[i]
  BY <1>11, <1>12, <1>13, <1>14
<1> DEFINE Valued == f <= N /\ input[f] = T!EnvironValue
<1>16. (name.c <= Len(name.b) /\ name.b[name.c] = T!EnvironValue) <=> Valued
  <2>1. f <= N => f \in f..N
    BY <1>1
  <2> QED
    BY <1>12, <1>14, <1>15, <2>1
<1>17. \A i \in (start + 1)..(f - 1) : i \in 1..N /\ i \notin EntryStarts
  <2> SUFFICES ASSUME NEW i \in (start + 1)..(f - 1)
               PROVE  i \in 1..N /\ i \notin EntryStarts
    OBVIOUS
  <2>1. i \in 1..N
    BY <1>1
  <2>2. i \in Literal \/ input[i] \notin T!EnvironVar
    BY <1>15
  <2> QED
    BY <1>3, <2>1, <2>2
<1>18. PICK z : z = T!EnvironEntry(p)
  OBVIOUS
<1> DEFINE Goal == \E v : /\ EntryDone(N, b, start, out, z.c, z.b, z.out, v)
                          /\ z.values = Append(p.values, v)
<1> HIDE DEF Goal
<1>19. ASSUME ~Valued
       PROVE  Goal
  <2>1. PICK v : v = [type |-> input[start], var |-> out, value |-> {}]
    OBVIOUS
  <2>2. z = [b |-> h, c |-> f, out |-> mid, values |-> Append(p.values, v)]
    <3>1. z = [b |-> name.b, c |-> name.c, out |-> name.out,
               values |-> Append(p.values, [type |-> p.b[p.c], var |-> p.out, value |-> {}])]
      BY <1>4, <1>5, <1>6, <1>10, <1>16, <1>18, <1>19, Zenon DEF T!EnvironEntry
    <3> QED
      BY <1>4, <1>5, <1>6, <1>9, <1>12, <1>13, <1>14, <2>1, <3>1, Zenon
  <2>3. z.b = h /\ z.c = f /\ z.out = mid /\ z.values = Append(p.values, v)
    BY <2>2
  <2>4. \A i \in (start + 1)..(f - 1) : i \in Literal \/ input[i] # T!EnvironValue
    BY <1>15
  <2>5. /\ EntrySigns(start, f - 1) = {}
        /\ EntryOctets(start, f - 1) = KeptTo(input, start + 1, f, {T!EnvironEsc}, Literal)
    BY <2>4, EntryWhole
  <2>6. v.type = input[start] /\ v.var = out /\ v.value = {}
    BY <2>1
  <2>7. EnvironStored(h, v, start, f - 1, mid)
    BY <1>15, <2>5, <2>6, Zenon DEF EnvironStored
  <2>8. v \in [type : Octets, var : Nat, value : SUBSET Nat]
    <3>1. out \in Nat
      BY <1>5
    <3> QED
      BY <1>9, <2>1, <3>1
  <2>9. f <= N => f \in EntryStarts
    <3>1. f <= N => f \in 1..N /\ f >= 2 /\ input[f] \in T!EnvironVar
      BY <1>1, <1>15, <1>19
    <3> QED
      BY <1>3, <1>15, <3>1
  <2>10. EntryDone(N, b, start, out, f, h, mid, v)
    BY <1>14, <1>15, <1>17, <2>7, <2>8, <2>9 DEF EntryDone
  <2>11. EntryDone(N, b, start, out, z.c, z.b, z.out, v)
    BY <2>3, <2>10, Zenon
  <2> QED
    BY <2>3, <2>11, Zenon DEF Goal
<1>20. ASSUME Valued
       PROVE  Goal
  <2>1. f \in 2..N /\ f \in (start + 1)..N /\ mid \in 1..(f - 1) /\ input[f] # T!EnvironEsc
    <3>1. f \in 2..N /\ f \in (start + 1)..N /\ mid \in 1..(f - 1)
      BY <1>1, <1>5, <1>20, SMTT(60)
    <3> QED
      BY <1>20, <3>1, EnvironCodes
  <2>2. PICK r : r = T!Unpack(h, f + 1, mid, T!EnvironVar, {T!EnvironEsc})
    OBVIOUS
  <2>3. /\ r.b \in Seq(Octets) /\ Len(r.b) = N
        /\ r.c \in (f + 1)..(N + 1) /\ r.out \in (mid + 1)..(r.c - 1) /\ r.c \notin Literal
        /\ \A i \in (f + 1)..(r.c - 1) : i \in Literal \/ input[i] \notin T!EnvironVar
        /\ r.c <= N => input[r.c] \in T!EnvironVar
        /\ Stored(r.b, mid, KeptTo(input, f + 1, r.c, {T!EnvironEsc}, Literal), r.out)
        /\ SameOutside(h, r.b, mid, r.out)
        /\ \A i \in r.c..N : r.b[i] = input[i]
    <3>1. T!EnvironVar \cap {T!EnvironEsc} = {}
      BY EnvironCodes
    <3>2. EnvironRead(N, h, f, mid, T!EnvironVar, r)
      BY <1>14, <1>15, <2>1, <2>2, <3>1, EnvironString
    <3> QED
      BY <3>2 DEF EnvironRead
  <2>4. PICK e \in (f + 1)..(N + 1) : e = r.c
    BY <2>3
  <2>5. PICK high \in (mid + 1)..(e - 1) : high = r.out
    BY <2>3, <2>4
  <2>6. PICK g \in Seq(Octets) : g = r.b /\ Len(g) = N
    BY <2>3
  <2>7. /\ e \notin Literal
        /\ \A i \in (f + 1)..(e - 1) : i \in Literal \/ input[i] \notin T!EnvironVar
        /\ e <= N => input[e] \in T!EnvironVar
        /\ Stored(g, mid, KeptTo(input, f + 1, e, {T!EnvironEsc}, Literal), high)
        /\ SameOutside(h, g, mid, high)
        /\ \A i \in e..N : g[i] = input[i]
    BY <2>3, <2>4, <2>5, <2>6
  <2>8. PICK v : v = [type |-> input[start], var |-> out, value |-> {mid}]
    OBVIOUS
  <2>9. z = [b |-> g, c |-> e, out |-> high, values |-> Append(p.values, v)]
    <3>1. z = [b |-> r.b, c |-> r.c, out |-> r.out,
               values |-> Append(p.values, [type |-> p.b[p.c], var |-> p.out,
                                            value |-> {name.out}])]
      <4>1. r = T!Unpack(name.b, name.c + 1, name.out, T!EnvironVar, {T!EnvironEsc})
        BY <1>12, <1>13, <1>14, <2>2, Zenon
      <4> QED
        BY <1>4, <1>5, <1>6, <1>10, <1>16, <1>18, <1>20, <4>1, ZenonT(60) DEF T!EnvironEntry
    <3> QED
      BY <1>4, <1>5, <1>6, <1>9, <1>13, <2>4, <2>5, <2>6, <2>8, <3>1, Zenon
  <2>10. z.b = g /\ z.c = e /\ z.out = high /\ z.values = Append(p.values, v)
    BY <2>9
  <2>11. \A i \in (start + 1)..(f - 1) : i \in Literal \/ input[i] # T!EnvironValue
    BY <1>15
  <2>12. /\ EntrySigns(start, e - 1) # {} /\ Nth(EntrySigns(start, e - 1), 1) = f
         /\ {i \in EntryOctets(start, e - 1) : i < f}
              = KeptTo(input, start + 1, f, {T!EnvironEsc}, Literal)
         /\ {i \in EntryOctets(start, e - 1) : i > f}
              = KeptTo(input, f + 1, e, {T!EnvironEsc}, Literal)
    <3>1. f \notin Literal /\ input[f] = T!EnvironValue
      BY <1>15, <1>20
    <3>2. FirstSignAt(N, start, f, e)
      BY <2>1, <2>4, <2>11, <3>1 DEF FirstSignAt
    <3>3. EntryCut(start, f, e)
      BY <3>2, EntryParts
    <3> QED
      BY <3>3 DEF EntryCut
  <2>13. /\ mid \in 1..(N + 1) /\ high \in Nat /\ mid <= high /\ out \in Nat /\ mid \in Nat
         /\ e \in (start + 1)..(N + 1) /\ high \in (out + 1)..(e - 1)
         /\ \A j \in 1..N : j < out \/ high <= j => (j < out \/ mid <= j) /\ (j < mid \/ high <= j)
    <3>1. Lying(N, start, out, f, mid, e, high)
      BY <1>5, <1>13, <2>1, <2>4, <2>5, Zenon DEF Lying
    <3> QED
      BY <1>1, <3>1, EntryOrder
  <2>14. v.type = input[start] /\ v.var = out /\ v.value = {mid}
    BY <2>8
  <2>15. Stored(g, out, KeptTo(input, start + 1, f, {T!EnvironEsc}, Literal), high)
    <3>1. KeptTo(input, start + 1, f, {T!EnvironEsc}, Literal) \in SUBSET (1..N)
      <4>1. (start + 1)..(f - 1) \in SUBSET (1..N)
        BY <1>1, SMTT(60)
      <4> QED
        BY <4>1 DEF KeptTo
    <3>2. mid \in 1..(N + 1) /\ high \in Nat /\ mid <= high
      BY <2>13, Zenon
    <3> QED
      BY <1>1, <1>14, <1>15, <2>7, <3>1, <3>2, StoredStays
  <2>16. EnvironStored(g, v, start, e - 1, high)
    BY <2>7, <2>12, <2>14, <2>15, Zenon DEF EnvironStored
  <2>17. v \in [type : Octets, var : Nat, value : SUBSET Nat]
    <3>1. out \in Nat /\ mid \in Nat
      BY <2>13, Zenon
    <3> QED
      BY <1>9, <2>8, <3>1
  <2>18. e <= N => e \in EntryStarts
    <3>1. e <= N => e \in 1..N /\ e >= 2
      BY <1>1, <2>1
    <3> QED
      BY <1>3, <2>7, <3>1
  <2>19. ASSUME NEW i \in (start + 1)..(e - 1)
         PROVE  i \notin EntryStarts
    <3>1. i \in (start + 1)..(f - 1) \/ i = f \/ i \in (f + 1)..(e - 1)
      BY <1>1, <2>1, <2>4
    <3>2. i \in 1..N
      BY <1>1, <2>4, SMTT(60)
    <3>3. f \notin EntryStarts
      BY <1>3, <1>20, <2>1, EnvironCodes
    <3>4. i \in (f + 1)..(e - 1) => i \notin EntryStarts
      BY <1>3, <2>7, <3>2
    <3> QED
      BY <1>17, <3>1, <3>3, <3>4
  <2>20. SameOutside(b, g, out, high)
    <3> SUFFICES ASSUME NEW j \in 1..N, j < out \/ high <= j
                 PROVE  g[j] = b[j]
      BY <1>6 DEF SameOutside
    <3>1. (j < out \/ mid <= j) /\ (j < mid \/ high <= j)
      BY <2>13, Zenon
    <3>2. g[j] = h[j]
      BY <1>14, <2>7, <3>1 DEF SameOutside
    <3>3. h[j] = b[j]
      BY <1>6, <1>15, <3>1 DEF SameOutside
    <3> QED
      BY <3>2, <3>3
  <2>21. e \in (start + 1)..(N + 1) /\ high \in (out + 1)..(e - 1)
    BY <2>13, Zenon
  <2>22. EntryDone(N, b, start, out, e, g, high, v)
    BY <2>6, <2>7, <2>16, <2>17, <2>18, <2>19, <2>20, <2>21 DEF EntryDone
  <2>23. EntryDone(N, b, start, out, z.c, z.b, z.out, v)
    BY <2>10, <2>22, Zenon
  <2> QED
    BY <2>10, <2>23, Zenon DEF Goal
<1>21. Goal
  BY <1>19, <1>20, Zenon
<1> QED
  BY <1>4, <1>5, <1>6, <1>18, <1>21, Zenon DEF Goal

-----------------------------------------------------------------------------
(* ENVIRON: all entries.                                                   *)

\* The n-th entry starts at the n-th start and ends before the next one, or at the end.
EntryEnd(n) ==
  IF n = Cardinality(EntryStarts) THEN Len(input) ELSE Nth(EntryStarts, n + 1) - 1

\* The entries whose strings are unpacked after n turns: the first n of them, and what
\* follows them is as it came.
EnvironValues == [type : Octets, var : Nat, value : SUBSET Nat]
Environing(N, n, p) ==
  /\ p.b \in Seq(Octets) /\ Len(p.b) = N
  /\ p.c \in 2..(N + 1) /\ p.out \in 1..(p.c - 1)
  /\ CountTo(EntryStarts, p.c - 1) = n
  /\ p.c <= N => p.c \in EntryStarts
  /\ \A i \in p.c..N : p.b[i] = input[i]
  /\ p.values \in Seq(EnvironValues) /\ Len(p.values) = n
  /\ \A k \in 1..n : EnvironStored(p.b, p.values[k], Nth(EntryStarts, k), EntryEnd(k), p.out)

LEMMA EntryEndIn ==
  ASSUME NEW N, Payload(N), NEW n \in 1..Cardinality(EntryStarts)
  PROVE  Nth(EntryStarts, n) \in 2..N /\ EntryEnd(n) \in 1..N
<1>1. N \in Nat /\ N >= 2 /\ N = Len(input)
  BY DEF Payload
<1>2. EntryStarts \in SUBSET (1..N) /\ \A i \in EntryStarts : i >= 2
  BY EntryStartsIn
<1>3. PICK total \in Nat : total = Cardinality(EntryStarts)
  <2>1. N \in 0..N
    BY <1>1
  <2> QED
    BY <1>1, <1>2, <2>1, CountFinite
<1>4. ASSUME NEW k \in 1..total
      PROVE  Nth(EntryStarts, k) \in 2..N
  <2>1. k \in 1..Cardinality(EntryStarts)
    BY <1>3
  <2>2. PICK i \in EntryStarts : i = Nth(EntryStarts, k)
    BY <1>1, <1>2, <2>1, NthCovers
  <2>3. i \in 1..N /\ i >= 2
    BY <1>2
  <2>4. i \in 2..N
    BY <1>1, <2>3
  <2> QED
    BY <2>2, <2>4, Zenon
<1>5. n # total => EntryEnd(n) \in 1..N
  <2> SUFFICES ASSUME n # total
               PROVE  EntryEnd(n) \in 1..N
    OBVIOUS
  <2>1. PICK k \in 1..total : k = n + 1
    BY <1>3
  <2>2. PICK i \in 2..N : i = Nth(EntryStarts, k)
    BY <1>4
  <2>3. EntryEnd(n) = i - 1
    BY <1>3, <2>1, <2>2 DEF EntryEnd
  <2> QED
    BY <1>1, <2>3
<1>6. n = total => EntryEnd(n) \in 1..N
  BY <1>1, <1>3 DEF EntryEnd
<1> QED
  BY <1>3, <1>4, <1>5, <1>6

\* The entry that starts at c is the one after n, and where it ends.
LEMMA EntryIsNext ==
  ASSUME NEW N, Payload(N), NEW n \in Nat, NEW c \in EntryStarts, CountTo(EntryStarts, c - 1) = n,
         NEW e \in (c + 1)..(N + 1), e <= N => e \in EntryStarts,
         \A i \in (c + 1)..(e - 1) : i \notin EntryStarts
  PROVE  /\ Nth(EntryStarts, n + 1) = c /\ EntryEnd(n + 1) = e - 1
         /\ CountTo(EntryStarts, e - 1) = n + 1
<1>1. N \in Nat /\ N >= 2 /\ N = Len(input)
  BY DEF Payload
<1>2. EntryStarts \in SUBSET (1..N)
  BY EntryStartsIn
<1>3. PICK total \in Nat : total = Cardinality(EntryStarts)
  <2>1. N \in 0..N
    BY <1>1
  <2> QED
    BY <1>1, <1>2, <2>1, CountFinite
<1>4. c \in 1..N
  BY <1>2
<1>5. CountTo(EntryStarts, c) = n + 1
  BY <1>1, <1>2, <1>4, CountStep
<1>6. Nth(EntryStarts, n + 1) = c
  BY <1>1, <1>2, <1>5, NthIs
<1>7. CountTo(EntryStarts, e - 1) = n + 1
  <2>1. c \in 0..N /\ e - 1 \in 0..N /\ c <= e - 1
    BY <1>1, <1>4
  <2>2. CountTo(EntryStarts, c) = CountTo(EntryStarts, e - 1)
    BY <1>1, <1>2, <2>1, CountSame, SMTT(60)
  <2> QED
    BY <1>5, <2>2
<1>8. CASE e = N + 1
  <2>1. CountTo(EntryStarts, N) = total
    <3>1. N \in 0..N
      BY <1>1
    <3> QED
      BY <1>1, <1>2, <1>3, <3>1, CountFinite
  <2>2. e - 1 = N
    BY <1>1, <1>8
  <2>3. n + 1 = Cardinality(EntryStarts)
    BY <1>3, <1>7, <2>1, <2>2
  <2> QED
    BY <1>1, <1>6, <1>7, <2>2, <2>3 DEF EntryEnd
<1>9. CASE e # N + 1
  <2>1. e \in 1..N /\ e \in EntryStarts
    BY <1>1, <1>4, <1>9
  <2>2. CountTo(EntryStarts, e) = (n + 1) + 1
    BY <1>1, <1>2, <1>7, <2>1, CountStep
  <2>3. CountTo(EntryStarts, e) \in 1..total /\ Nth(EntryStarts, (n + 1) + 1) = e
    BY <1>1, <1>2, <1>3, <2>1, <2>2, NthIs
  <2>4. n + 1 # total
    BY <1>3, <2>2, <2>3
  <2>5. EntryEnd(n + 1) = e - 1
    BY <1>3, <2>3, <2>4 DEF EntryEnd
  <2> QED
    BY <1>6, <1>7, <2>5
<1> QED
  BY <1>8, <1>9

\* Where the next entry is read and written.
Ahead(N, c, out, e, high) ==
  /\ c \in 2..N /\ e \in (c + 1)..(N + 1) /\ out \in 1..(c - 1) /\ high \in (out + 1)..(e - 1)

LEMMA AheadIn ==
  ASSUME NEW N \in Nat, NEW c, NEW out, NEW e, NEW high, Ahead(N, c, out, e, high)
  PROVE  /\ out \in 1..(N + 1) /\ high \in Nat /\ out <= high
         /\ e \in 2..(N + 1) /\ high \in 1..(e - 1)
BY DEF Ahead

\* One turn more.
LEMMA EnvironingStep ==
  ASSUME NEW N, Payload(N), NEW n \in Nat, n < Cardinality(EntryStarts),
         NEW p, Environing(N, n, p)
  PROVE  Environing(N, n + 1, T!EnvironEntry(p))
<1>1. N \in Nat /\ N >= 2 /\ N = Len(input)
  BY DEF Payload
<1>2. EntryStarts \in SUBSET (1..N)
  BY EntryStartsIn
<1>3. PICK total \in Nat : total = Cardinality(EntryStarts)
  <2>1. N \in 0..N
    BY <1>1
  <2> QED
    BY <1>1, <1>2, <2>1, CountFinite
<1>4. /\ p.b \in Seq(Octets) /\ Len(p.b) = N
      /\ p.c \in 2..(N + 1) /\ p.out \in 1..(p.c - 1)
      /\ CountTo(EntryStarts, p.c - 1) = n
      /\ p.c <= N => p.c \in EntryStarts
      /\ \A i \in p.c..N : p.b[i] = input[i]
      /\ p.values \in Seq(EnvironValues) /\ Len(p.values) = n
      /\ \A k \in 1..n : EnvironStored(p.b, p.values[k], Nth(EntryStarts, k), EntryEnd(k), p.out)
  BY DEF Environing
<1>5. p.c # N + 1
  <2> SUFFICES ASSUME p.c = N + 1
               PROVE  FALSE
    OBVIOUS
  <2>1. p.c - 1 = N /\ N \in 0..N
    BY <1>1
  <2>2. CountTo(EntryStarts, N) = total
    BY <1>1, <1>2, <1>3, <2>1, CountFinite
  <2> QED
    BY <1>3, <1>4, <2>1, <2>2
<1>6. PICK c \in 2..N : c = p.c /\ c \in EntryStarts
  BY <1>1, <1>4, <1>5
<1>7. PICK out \in 1..(c - 1) : out = p.out
  BY <1>4, <1>6
<1>8. PICK z : z = T!EnvironEntry(p)
  OBVIOUS
<1>9. PICK v : EntryDone(N, p.b, c, out, z.c, z.b, z.out, v) /\ z.values = Append(p.values, v)
  <2>1. p.c \in 2..N /\ p.c \in EntryStarts
    BY <1>6
  <2>2. \E v : /\ EntryDone(N, p.b, p.c, p.out, z.c, z.b, z.out, v)
               /\ z.values = Append(p.values, v)
    BY <1>4, <1>8, <2>1, EnvironStep
  <2> QED
    BY <1>6, <1>7, <2>2, Zenon
<1>10. PICK e \in (c + 1)..(N + 1) : e = z.c
  BY <1>9 DEF EntryDone
<1>11. PICK high \in (out + 1)..(e - 1) : high = z.out
  BY <1>9, <1>10 DEF EntryDone
<1>12. PICK g \in Seq(Octets) : g = z.b /\ Len(g) = N
  BY <1>9 DEF EntryDone
<1>13. /\ e <= N => e \in EntryStarts
       /\ \A i \in (c + 1)..(e - 1) : i \notin EntryStarts
       /\ v \in EnvironValues
       /\ EnvironStored(g, v, c, e - 1, high)
       /\ SameOutside(p.b, g, out, high)
       /\ \A i \in e..N : g[i] = input[i]
  BY <1>9, <1>10, <1>11, <1>12 DEF EntryDone, EnvironValues
<1>14. /\ Nth(EntryStarts, n + 1) = c /\ EntryEnd(n + 1) = e - 1
       /\ CountTo(EntryStarts, e - 1) = n + 1
  <2>1. CountTo(EntryStarts, c - 1) = n
    BY <1>4, <1>6
  <2> QED
    BY <1>6, <1>13, <2>1, EntryIsNext, SMTT(60)
<1>15. PICK w \in Seq(EnvironValues) : w = p.values /\ Len(w) = n
  BY <1>4
<1>16. PICK x \in Seq(EnvironValues) : x = Append(w, v) /\ Len(x) = n + 1 /\ x[n + 1] = v
                                      /\ \A k \in 1..n : x[k] = w[k]
  <2>1. /\ Append(w, v) \in Seq(EnvironValues)
        /\ Len(Append(w, v)) = Len(w) + 1
        /\ \A k \in 1..Len(w) : Append(w, v)[k] = w[k]
        /\ Append(w, v)[Len(w) + 1] = v
    BY <1>13, AppendProperties
  <2> QED
    BY <1>15, <2>1, Zenon
<1>17. \A k \in 1..n : Nth(EntryStarts, k) \in 1..N /\ EntryEnd(k) \in 1..N
  <2> SUFFICES ASSUME NEW k \in 1..n
               PROVE  Nth(EntryStarts, k) \in 1..N /\ EntryEnd(k) \in 1..N
    OBVIOUS
  <2>1. k \in 1..Cardinality(EntryStarts)
    BY <1>3
  <2>2. Nth(EntryStarts, k) \in 2..N /\ EntryEnd(k) \in 1..N
    BY <2>1, EntryEndIn
  <2> QED
    BY <1>1, <2>2
<1>18. out \in 1..(N + 1) /\ high \in Nat /\ out <= high /\ e \in 2..(N + 1) /\ high \in 1..(e - 1)
  <2>1. Ahead(N, c, out, e, high)
    BY <1>6, <1>7, <1>10, <1>11, Zenon DEF Ahead
  <2> QED
    BY <1>1, <2>1, AheadIn
<1>19. ASSUME NEW k \in 1..n
       PROVE  EnvironStored(g, x[k], Nth(EntryStarts, k), EntryEnd(k), high)
  <2>1. EnvironStored(p.b, x[k], Nth(EntryStarts, k), EntryEnd(k), out)
    BY <1>4, <1>7, <1>15, <1>16
  <2>2. PICK i \in 1..N : i = Nth(EntryStarts, k)
    BY <1>17
  <2>3. PICK j \in 1..N : j = EntryEnd(k)
    BY <1>17
  <2>4. PICK b \in Seq(Octets) : b = p.b /\ Len(b) = N
    BY <1>4
  <2>5. EnvironStored(b, x[k], i, j, out) /\ SameOutside(b, g, out, high)
    BY <1>13, <2>1, <2>2, <2>3, <2>4, Zenon
  <2>6. EnvironStored(g, x[k], i, j, high)
    BY <1>1, <1>18, <2>4, <2>5, EnvironStays
  <2> QED
    BY <2>2, <2>3, <2>6, Zenon
<1>20. \A k \in 1..(n + 1) : EnvironStored(g, x[k], Nth(EntryStarts, k), EntryEnd(k), high)
  <2>1. \A k \in 1..(n + 1) : k \in 1..n \/ k = n + 1
    OBVIOUS
  <2>2. EnvironStored(g, x[n + 1], Nth(EntryStarts, n + 1), EntryEnd(n + 1), high)
    BY <1>13, <1>14, <1>16, Zenon
  <2> QED
    BY <1>19, <2>1, <2>2, Zenon
<1>21. z.b = g /\ z.c = e /\ z.out = high /\ z.values = x
  BY <1>9, <1>10, <1>11, <1>12, <1>15, <1>16
<1>22. Environing(N, n + 1, z)
  BY <1>12, <1>13, <1>14, <1>16, <1>18, <1>20, <1>21 DEF Environing
<1> QED
  BY <1>8, <1>22

\* All entries are unpacked in the end.
LEMMA EnvironAll ==
  ASSUME NEW N, Payload(N)
  PROVE  Environing(N, Cardinality(EntryStarts), T!Environs(input))
<1>1. N \in Nat /\ N >= 2 /\ N = Len(input) /\ input \in Seq(Octets) /\ 2 \in 1..N
      /\ input[2] \in T!EnvironVar
  BY DEF Payload
<1>2. /\ EntryStarts \in SUBSET (1..N)
      /\ \A i \in 1..N : i \in EntryStarts <=> /\ i >= 2 /\ i \notin Literal
                                              /\ input[i] \in T!EnvironVar
  BY EntryStartsIn
<1>3. PICK total \in Nat : total = Cardinality(EntryStarts)
  <2>1. N \in 0..N
    BY <1>1
  <2> QED
    BY <1>1, <1>2, <2>1, CountFinite
<1>4. PICK u : /\ u[0] = [b |-> input, c |-> 2, out |-> 1, values |-> <<>>]
               /\ \A n \in 1..total : u[n] = T!EnvironEntry(u[n - 1])
               /\ T!Environs(input) = u[total]
  <2>1. total = T!Entries(input)
    BY <1>3, EntriesIs
  <2> QED
    BY <2>1, EnvironsTurns
<1> DEFINE Ready == {n \in 0..total : Environing(N, n, u[n])}
<1>5. 0 \in Ready
  <2>1. PICK p : p = u[0]
    OBVIOUS
  <2>2. p.b = input /\ p.c = 2 /\ p.out = 1 /\ p.values = <<>>
    BY <1>4, <2>1
  <2>3. 2 \in EntryStarts
    BY <1>1, <1>2, LiteralNext
  <2>4. CountTo(EntryStarts, 2 - 1) = 0
    <3>1. 0 \in 0..N /\ 1 \in 0..N /\ 0 <= 1 /\ 2 - 1 = 1 /\ 1 \in 1..N /\ ~(1 >= 2)
      BY <1>1
    <3>2. \A i \in (0 + 1)..1 : i \notin EntryStarts
      <4>1. 1 \notin EntryStarts
        BY <1>2, <3>1
      <4>2. \A i \in (0 + 1)..1 : i = 1
        OBVIOUS
      <4> QED
        BY <4>1, <4>2
    <3>3. CountTo(EntryStarts, 0) = CountTo(EntryStarts, 1)
      BY <1>1, <1>2, <3>1, <3>2, CountSame
    <3>4. CountTo(EntryStarts, 0) = 0
      BY <1>1, <1>2, <3>1, CountFinite
    <3> QED
      BY <3>1, <3>3, <3>4
  <2>5. <<>> \in Seq(EnvironValues) /\ Len(<<>>) = 0 /\ 2 \in 2..(N + 1) /\ 1 \in 1..(2 - 1)
        /\ \A k \in 1..0 : FALSE
    BY <1>1
  <2>6. Environing(N, 0, p)
    BY <1>1, <2>2, <2>3, <2>4, <2>5 DEF Environing
  <2> QED
    BY <2>1, <2>6
<1>6. ASSUME NEW n \in 1..total, n - 1 \in Ready
      PROVE  n \in Ready
  <2>1. PICK m \in Nat : m = n - 1 /\ m < total /\ m + 1 = n
    BY <1>3
  <2>2. Environing(N, m, u[m]) /\ u[n] = T!EnvironEntry(u[m])
    BY <1>4, <1>6, <2>1
  <2>3. Environing(N, m + 1, T!EnvironEntry(u[m]))
    BY <1>3, <2>1, <2>2, EnvironingStep
  <2> QED
    BY <2>1, <2>2, <2>3
<1>7. total \in Ready
  <2> HIDE DEF Ready
  <2>1. \A n \in 1..total : n - 1 \in Ready => n \in Ready
    BY <1>6
  <2>2. \A n \in 0..total : n \in Ready
    BY <1>3, <1>5, <2>1, UpTo
  <2> QED
    BY <1>3, <2>2
<1> QED
  BY <1>3, <1>4, <1>7

\* What a value points to.
TextAt(b, v) == [type |-> v.type, var |-> T!StringAt(b, v.var),
                 value |-> {T!StringAt(b, q) : q \in v.value}]

\* An entry that is stored is what it means.
LEMMA EntryText ==
  ASSUME NEW N, Payload(N), NEW b \in Seq(Octets), Len(b) = N, NEW out \in 1..(N + 1),
         NEW start \in 1..N, NEW end \in 1..N, NEW v, EnvironStored(b, v, start, end, out)
  PROVE  TextAt(b, v) = EntryMeaning(start, end)
<1>1. N \in Nat /\ input \in Seq(Octets) /\ Len(input) = N
  BY DEF Payload
<1>2. \A S \in SUBSET (1..N) : \A p : Stored(b, p, S, out) => T!StringAt(b, p) = TextOf(S)
  BY <1>1, StoredTexts
<1>3. PICK octets \in SUBSET (1..N) : octets = EntryOctets(start, end)
  BY <1>1, EntryIn
<1>4. PICK signs : signs = EntrySigns(start, end)
  OBVIOUS
<1>5. PICK x : x = Nth(signs, 1)
  OBVIOUS
<1>6. EntryMeaning(start, end) =
        IF signs = {} THEN [type |-> input[start], var |-> TextOf(octets), value |-> {}]
        ELSE [type |-> input[start], var |-> TextOf({i \in octets : i < x}),
              value |-> {TextOf({i \in octets : i > x})}]
  BY <1>3, <1>4, <1>5, Zenon DEF EntryMeaning, EntryOctets, EntrySigns
<1>7. CASE signs = {}
  <2>1. v.type = input[start] /\ v.value = {} /\ Stored(b, v.var, octets, out)
    BY <1>3, <1>4, <1>7, Zenon DEF EnvironStored
  <2>2. T!StringAt(b, v.var) = TextOf(octets)
    BY <1>2, <2>1, Zenon
  <2>3. {T!StringAt(b, q) : q \in v.value} = {}
    BY <2>1
  <2> QED
    BY <1>6, <1>7, <2>1, <2>2, <2>3, Zenon DEF TextAt
<1>8. CASE signs # {}
  <2>1. v.type = input[start] /\ Stored(b, v.var, {i \in octets : i < x}, out)
    BY <1>3, <1>4, <1>5, <1>8, Zenon DEF EnvironStored
  <2>2. PICK q : v.value = {q} /\ Stored(b, q, {i \in octets : i > x}, out)
    BY <1>3, <1>4, <1>5, <1>8, Zenon DEF EnvironStored
  <2>3. {i \in octets : i < x} \in SUBSET (1..N) /\ {i \in octets : i > x} \in SUBSET (1..N)
    OBVIOUS
  <2>4. T!StringAt(b, v.var) = TextOf({i \in octets : i < x})
        /\ T!StringAt(b, q) = TextOf({i \in octets : i > x})
    BY <1>2, <2>1, <2>2, <2>3, Zenon
  <2>5. {T!StringAt(b, j) : j \in v.value} = {T!StringAt(b, q)}
    BY <2>2
  <2>6. {T!StringAt(b, j) : j \in v.value} = {TextOf({i \in octets : i > x})}
    BY <2>4, <2>5, Zenon
  <2> QED
    BY <1>6, <1>8, <2>1, <2>4, <2>6, Zenon DEF TextAt
<1> QED
  BY <1>7, <1>8

AsMeant(N, b, out) ==
  \A start \in 1..N : \A end \in 1..N : \A v :
    EnvironStored(b, v, start, end, out) => TextAt(b, v) = EntryMeaning(start, end)

LEMMA EntryTexts ==
  ASSUME NEW N, Payload(N), NEW b \in Seq(Octets), Len(b) = N, NEW out \in 1..(N + 1)
  PROVE  AsMeant(N, b, out)
BY EntryText DEF AsMeant

\* The strings of ENVIRON are what its entries mean.
LEMMA EnvironIs ==
  ASSUME input \in Seq(Octets), NEW e \in T!Environ(input)
  PROVE  /\ DOMAIN e.buffer = DOMAIN input
         /\ [n \in DOMAIN e.values |-> TextAt(e.buffer, e.values[n])] = EnvironMeaning
<1>1. PICK N \in Nat : N = Len(input) /\ DOMAIN input = 1..N
  BY LenProperties
<1>2. EnvironMeaning = [n \in 1..Cardinality(EntryStarts) |->
                          EntryMeaning(Nth(EntryStarts, n), EntryEnd(n))]
  BY Zenon DEF EnvironMeaning, EntryStarts, EntryEnd
<1>3. N # 0
  <2>1. input # <<>>
    BY DEF T!Environ
  <2> QED
    BY <1>1, <2>1, EmptySeq
<1>4. CASE N = 1
  <2>1. e = [buffer |-> input, values |-> <<>>]
    BY <1>1, <1>4 DEF T!Environ
  <2>2. e.buffer = input /\ e.values = <<>>
    BY <2>1
  <2>3. EntryStarts = {}
    BY <1>1, <1>4 DEF EntryStarts
  <2>4. Cardinality(EntryStarts) = 0
    BY <2>3, FS_EmptySet
  <2>5. DOMAIN <<>> = {} /\ 1..0 = {}
    OBVIOUS
  <2>6. [n \in DOMAIN e.values |-> TextAt(e.buffer, e.values[n])] = EnvironMeaning
    BY <1>2, <2>2, <2>4, <2>5
  <2> QED
    BY <2>2, <2>6
<1>5. CASE N # 1
  <2>1. input[2] \in T!EnvironVar /\ input[N] # T!EnvironEsc
        /\ e = [buffer |-> T!Environs(input).b, values |-> T!Environs(input).values]
    BY <1>1, <1>5 DEF T!Environ
  <2>2. Payload(N)
    BY <1>1, <1>3, <1>5, <2>1 DEF Payload
  <2>3. PICK total : total = Cardinality(EntryStarts)
    OBVIOUS
  <2>4. PICK z : z = T!Environs(input)
    OBVIOUS
  <2>5. Environing(N, total, z)
    BY <2>2, <2>3, <2>4, EnvironAll
  <2>6. PICK b \in Seq(Octets) : b = z.b /\ Len(b) = N
    BY <2>5 DEF Environing
  <2>7. PICK w \in Seq(EnvironValues) : w = z.values /\ Len(w) = total
    BY <2>5 DEF Environing
  <2>8. PICK out \in 1..(N + 1) : out = z.out
    <3>1. z.c \in 2..(N + 1) /\ z.out \in 1..(z.c - 1)
      BY <2>5 DEF Environing
    <3> QED
      BY <1>1, <3>1
  <2>9. e.buffer = b /\ e.values = w
    BY <2>1, <2>4, <2>6, <2>7
  <2>10. DOMAIN b = 1..N /\ DOMAIN w = 1..total
    BY <1>1, <2>6, <2>7, LenProperties
  <2>11. ASSUME NEW n \in 1..total
         PROVE  TextAt(b, w[n]) = EntryMeaning(Nth(EntryStarts, n), EntryEnd(n))
    <3>1. EnvironStored(b, w[n], Nth(EntryStarts, n), EntryEnd(n), out)
      BY <2>5, <2>6, <2>7, <2>8 DEF Environing
    <3>2. n \in 1..Cardinality(EntryStarts)
      BY <2>3
    <3>3. Nth(EntryStarts, n) \in 2..N /\ EntryEnd(n) \in 1..N
      BY <2>2, <3>2, EntryEndIn
    <3>4. PICK start \in 1..N : start = Nth(EntryStarts, n)
      BY <1>1, <3>3
    <3>5. PICK end \in 1..N : end = EntryEnd(n)
      BY <3>3
    <3>6. EnvironStored(b, w[n], start, end, out)
      BY <3>1, <3>4, <3>5, Zenon
    <3>7. TextAt(b, w[n]) = EntryMeaning(start, end)
      <4>1. AsMeant(N, b, out)
        BY <2>2, <2>6, EntryTexts
      <4> QED
        BY <3>6, <4>1, Zenon DEF AsMeant
    <3> QED
      BY <3>4, <3>5, <3>7, Zenon
  <2>12. [n \in 1..total |-> TextAt(b, w[n])]
           = [n \in 1..total |-> EntryMeaning(Nth(EntryStarts, n), EntryEnd(n))]
    BY <2>11, Zenon
  <2>13. DOMAIN e.buffer = DOMAIN input
    BY <1>1, <2>9, <2>10, Zenon
  <2>14. [n \in DOMAIN e.values |-> TextAt(e.buffer, e.values[n])] = EnvironMeaning
    BY <1>2, <2>3, <2>9, <2>10, <2>12, Zenon
  <2> QED
    BY <2>13, <2>14
<1> QED
  BY <1>4, <1>5

\* No variable that a client sends in ENVIRON gets lost in the buffer it came in, none
\* is read past its end, and each is what was meant (_environ_telnet), for payloads of
\* any length.
THEOREM EnvironCorrect == Spec => []EnvironExact
<1>1. CodecInputs => EnvironExact
  <2>1. CodecInputs /\ codec = "environ" => input \in Seq(Octets)
    BY DEF CodecInputs
  <2>2. ASSUME input \in Seq(Octets), NEW e \in T!Environ(input)
        PROVE  /\ DOMAIN e.buffer = DOMAIN input
               /\ [n \in DOMAIN e.values |->
                     [type |-> e.values[n].type,
                      var |-> T!StringAt(e.buffer, e.values[n].var),
                      value |-> {T!StringAt(e.buffer, p) : p \in e.values[n].value}]]
                    = EnvironMeaning
    BY <2>2, EnvironIs, Zenon DEF TextAt
  <2> QED
    BY <2>1, <2>2, Zenon DEF EnvironExact
<1> QED
  BY <1>1, CodecInputsHold, PTL
=============================================================================
