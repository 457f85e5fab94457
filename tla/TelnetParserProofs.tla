-------------------------- MODULE TelnetParserProofs --------------------------
(***************************************************************************)
(* Proofs about TelnetParser, for every set of octets, every size of the   *)
(* buffer and chunks of any length: it keeps what TelnetOctets promises.   *)
(*                                                                         *)
(* The promise holds for streams without the MCCP 1 sequence, whose        *)
(* handling leaves start behind the end of a chunk that ends within it.    *)
(***************************************************************************)
EXTENDS TelnetParser, SequenceTheorems, TLAPS

\* No subnegotiation is about the option of MCCP 1.
NoMccp1 == "COMPRESS" \notin Octets

Due == IF state = "DATA" THEN Pending ELSE <<>>
Sub == IF state \in {"SB_DATA", "SB_DATA_IAC"} THEN buffer ELSE <<>>

-----------------------------------------------------------------------------
(* Sequences.                                                              *)

LEMMA HandOver ==
  ASSUME NEW S, NEW s \in Seq(S)
  PROVE  /\ SubSeq(s, 1, 0) = <<>> /\ SubSeq(s, 0 + 1, Len(s)) = s
         /\ SubSeq(s, 1, Len(s)) = s /\ SubSeq(s, Len(s) + 1, Len(s)) = <<>>
         /\ 0 \in 0..Len(s) /\ Len(s) \in 0..Len(s)
<1>1. Len(s) \in Nat
  OBVIOUS
<1> QED
  BY <1>1, SubSeqEmpty, SubSeqFull

LEMMA EmptyFunction ==
  ASSUME NEW f, NEW n \in Nat, f = [k \in 1..n |-> f[k]], n = 0
  PROVE  f = <<>>
<1>1. f \in Seq({})
  OBVIOUS
<1>2. Len(f) = 0
  OBVIOUS
<1> QED
  BY <1>1, <1>2, EmptySeq

LEMMA FunctionIsSeq ==
  ASSUME NEW S, NEW n \in Nat, NEW f,
         f = [k \in 1..n |-> f[k]], \A k \in 1..n : f[k] \in S
  PROVE  f \in Seq(S) /\ Len(f) = n
  OBVIOUS

\* Octets that are pending are a sequence of items.
LEMMA PendingItems ==
  ASSUME TypeOK, state = "DATA"
  PROVE  Pending \in Seq(Stream!Items) /\ Len(Pending) = i - start
<1>1. \A k \in 1..(i - start) : chunk[start + k] \in Octets
  BY DEF TypeOK, i
<1>2. \A k \in 1..(i - start) : <<"data", chunk[start + k]>> \in Stream!Items
  BY <1>1 DEF Stream!Items
<1>3. Pending = [k \in 1..(i - start) |-> <<"data", chunk[start + k]>>]
  BY DEF Pending, TypeOK, i
<1>4. i - start \in Nat
  BY DEF TypeOK, i
<1> HIDE DEF i
<1> QED
  BY <1>2, <1>3, <1>4

\* At the end of the chunk nothing is pending.
LEMMA NothingPending ==
  ASSUME chunk \in Seq(Octets), start = i
  PROVE  Pending = <<>>
<1>1. i \in Nat
  BY DEF i
<1>2. Pending = [k \in 1..0 |-> <<"data", chunk[start + k]>>]
  BY <1>1 DEF Pending
<1> QED
  BY <1>2, EmptyFunction

LEMMA NothingPendingNext ==
  ASSUME chunk' \in Seq(Octets), start' = i'
  PROVE  Pending' = <<>>
<1>1. i' \in Nat
  BY DEF i
<1>2. Pending' = [k \in 1..0 |-> <<"data", chunk'[start' + k]>>]
  <2>1. start' \in Nat /\ start' <= i' /\ i' - start' = 0
    <3> DEFINE n == i'
    <3>1. n \in Nat /\ start' = n
      BY <1>1
    <3> HIDE DEF n
    <3>2. start' <= n /\ n - start' = 0
      BY <3>1
    <3> QED
      BY <3>1, <3>2 DEF n
  <2>2. Pending' = [k \in 1..(i' - start') |-> <<"data", chunk'[start' + k]>>]
    BY <2>1 DEF Pending
  <2> QED
    BY <2>1, <2>2
<1> QED
  BY <1>2, EmptyFunction

-----------------------------------------------------------------------------
LEMMA InitTypeOK == Init => TypeOK
  BY ParserAssumption DEF Init, TypeOK, States, i

LEMMA NextTypeOK ==
  ASSUME NoMccp1, TypeOK, [Next]_vars
  PROVE  TypeOK'
<1> USE ParserAssumption
<1>1. CASE UNCHANGED vars
  BY <1>1 DEF TypeOK, vars, i
<1>2. CASE ProcessEnd
  BY <1>2 DEF ProcessEnd, TypeOK, i
<1>3. ASSUME NEW b \in Octets, Process(b) PROVE TypeOK'
  <2>1. /\ i' = i + 1 /\ i \in Nat /\ i < MaxChunk
        /\ chunk' \in Seq(Octets)
    BY <1>3, AppendProperties DEF Process, TypeOK, i
  <2>2. start \in 0..i /\ start \in 0..i'
    BY <2>1 DEF TypeOK
  <2> HIDE DEF i
  <2>3. SkipCommand => start' \in 0..i'
    BY <2>1, <2>2 DEF SkipCommand
  <2>4. BufferByte(b) => /\ buffer' \in Seq(Octets) /\ Len(buffer') <= BufferLimit
                         /\ state' \in States
                         /\ start' \in 0..i'
    <3>1. Len(buffer) \in Nat /\ buffer \in Seq(Octets) /\ Len(buffer) <= BufferLimit
      BY DEF TypeOK
    <3>2. Append(buffer, b) \in Seq(Octets) /\ Len(Append(buffer, b)) = Len(buffer) + 1
      BY <3>1, AppendProperties
    <3> QED
      BY <2>2, <2>3, <3>1, <3>2 DEF BufferByte, States
  <2>5. IacState(b) \in States
    BY DEF IacState, States
  <2>6. CASE Data(b)
    BY <2>1, <2>2, <2>6 DEF Data, TypeOK, States
  <2>7. CASE Iac(b)
    BY <2>1, <2>2, <2>3, <2>5, <2>7 DEF Iac, TypeOK, States
  <2>8. CASE Negotiate(b)
    BY <2>1, <2>3, <2>8 DEF Negotiate, TypeOK, States
  <2>9. CASE Sb(b)
    BY <2>1, <2>2, <2>9 DEF Sb, TypeOK, States
  <2>10. CASE SbData(b)
    <3>1. sb_telopt # "COMPRESS"
      BY DEF NoMccp1, TypeOK
    <3> QED
      BY <2>1, <2>2, <2>4, <2>10, <3>1 DEF SbData, TypeOK, States
  <2>11. CASE SbDataIac(b)
    BY <2>1, <2>2, <2>3, <2>4, <2>5, <2>11 DEF SbDataIac, TypeOK, States
  <2> QED
    BY <1>3, <2>6, <2>7, <2>8, <2>9, <2>10, <2>11 DEF Process
<1> QED
  BY <1>1, <1>2, <1>3 DEF Next

-----------------------------------------------------------------------------
(* The refinement.                                                         *)

\* An octet of data joins what is pending.
LEMMA DataWaits ==
  ASSUME TypeOK, state = "DATA", state' = "DATA", start' = start,
         NEW b \in Octets, chunk' = Append(chunk, b)
  PROVE  Pending' = Append(Pending, <<"data", b>>)
<1> DEFINE item(c) == <<"data", c>>
           n == i - start
           s == Append(Pending, item(b))
           t == [k \in 1..(n + 1) |-> item(chunk'[start + k])]
<1>1. /\ i \in Nat /\ start \in Nat /\ start <= i /\ i = Len(chunk) /\ i' = i + 1
      /\ chunk \in Seq(Octets) /\ chunk' \in Seq(Octets)
  BY AppendProperties DEF TypeOK, i
<1>2. n \in Nat /\ i' - start' = n + 1 /\ ~(start' > i')
  BY <1>1
<1>3. Pending' = t
  <2>1. Pending' = [k \in 1..(i' - start') |-> item(chunk'[start' + k])]
    BY <1>2 DEF Pending
  <2> HIDE DEF n
  <2> QED
    BY <1>2, <2>1
<1>4. Pending \in Seq(Stream!Items) /\ Len(Pending) = n
  BY PendingItems
<1>5. item(b) \in Stream!Items
  BY DEF Stream!Items
<1>6. \A k \in 1..n : Pending[k] = item(chunk[start + k])
  BY <1>1 DEF Pending
<1>7. /\ \A k \in 1..n : chunk'[start + k] = chunk[start + k]
      /\ chunk'[start + (n + 1)] = b
  <2>1. /\ \A k \in 1..Len(chunk) : chunk'[k] = chunk[k]
        /\ chunk'[Len(chunk) + 1] = b
    BY <1>1, AppendProperties
  <2> HIDE DEF i
  <2> QED
    BY <1>1, <2>1
<1>8. /\ s \in Seq(Stream!Items) /\ Len(s) = n + 1
      /\ \A k \in 1..n : s[k] = Pending[k]
      /\ s[n + 1] = item(b)
  <2> HIDE DEF item, n
  <2> QED
    BY <1>4, <1>5, AppendProperties
<1>9. t \in Seq(Stream!Items) /\ Len(t) = n + 1
  <2>1. \A k \in 1..(n + 1) : item(chunk'[start + k]) \in Stream!Items
    <3>1. i' = Len(chunk') /\ \A k \in 1..(n + 1) : start + k \in 1..i'
      BY <1>1 DEF i
    <3>2. \A k \in 1..(n + 1) : chunk'[start + k] \in Octets
      <4> HIDE DEF n, i
      <4> QED
        BY <1>1, <3>1
    <3>3. \A c \in Octets : item(c) \in Stream!Items
      BY DEF Stream!Items
    <3> HIDE DEF n, item
    <3> QED
      BY <3>2, <3>3
  <2>2. t = [k \in 1..(n + 1) |-> t[k]] /\ \A k \in 1..(n + 1) : t[k] \in Stream!Items
    BY <2>1
  <2> HIDE DEF n, t
  <2> QED
    BY <1>2, <2>2, FunctionIsSeq
<1>10. \A k \in 1..(n + 1) : s[k] = t[k]
  <2> SUFFICES ASSUME NEW k \in 1..(n + 1) PROVE s[k] = t[k]
    OBVIOUS
  <2>1. t[k] = item(chunk'[start + k])
    OBVIOUS
  <2> HIDE DEF s, t, n, item
  <2>2. CASE k \in 1..n
    BY <2>1, <2>2, <1>6, <1>7, <1>8
  <2>3. CASE k = n + 1
    BY <2>1, <2>3, <1>7, <1>8
  <2> QED
    BY <2>2, <2>3, <1>2
<1> HIDE DEF s, t, n
<1>11. s = t
  BY <1>2, <1>8, <1>9, <1>10, SeqEqual
<1> QED
  BY <1>3, <1>11 DEF s

LEMMA MeaningItems ==
  ASSUME TypeOK, NEW b \in Octets
  PROVE  Stream!Meaning(b) \in Seq(Stream!Items)
<1>1. Stream!IacItems(b) \in Seq(Stream!Items)
  BY DEF Stream!IacItems, Stream!Items
<1>2. <<"data", b>> \in Stream!Items
      /\ (state \in Verbs => <<"negotiate", state, b>> \in Stream!Items)
  BY DEF Stream!Items, Verbs, Stream!Verbs
<1>3. <<"sub", sb_telopt, Sub>> \in Stream!Items
  <2>1. sb_telopt \in Octets /\ Sub \in Seq(Octets)
    BY DEF Sub, TypeOK
  <2> QED
    BY <2>1 DEF Stream!Items
<1>4. <<>> \in Seq(Stream!Items)
  OBVIOUS
<1>5. <<<<"sub", sb_telopt, Sub>>>> \o Stream!IacItems(b) \in Seq(Stream!Items)
  <2>1. <<<<"sub", sb_telopt, Sub>>>> \in Seq(Stream!Items)
    BY <1>3
  <2> QED
    BY <1>1, <2>1, ConcatProperties
<1>6. state \in {"DATA", "IAC", "SB", "SB_DATA", "SB_DATA_IAC"} \cup Verbs
  BY DEF TypeOK, States
<1> DEFINE s == <<<<"sub", sb_telopt, Sub>>>> \o Stream!IacItems(b)
<1>7. Stream!Meaning(b) =
        CASE state = "DATA" -> IF b = "IAC" THEN <<>> ELSE <<<<"data", b>>>>
          [] state = "IAC" -> Stream!IacItems(b)
          [] state \in Verbs -> <<<<"negotiate", state, b>>>>
          [] state \in {"SB", "SB_DATA"} -> <<>>
          [] state = "SB_DATA_IAC" -> IF b = "IAC" THEN <<>>
                                      ELSE IF b = "SE" THEN <<<<"sub", sb_telopt, Sub>>>>
                                      ELSE s
  BY DEF Stream!Meaning, Sub, Verbs, Stream!Verbs
<1> HIDE DEF s
<1>8. CASE state = "DATA"
  BY <1>2, <1>4, <1>7, <1>8 DEF Verbs
<1>9. CASE state = "IAC"
  BY <1>1, <1>7, <1>9 DEF Verbs
<1>10. CASE state \in Verbs
  BY <1>2, <1>7, <1>10 DEF Verbs
<1>11. CASE state \in {"SB", "SB_DATA"}
  BY <1>4, <1>7, <1>11 DEF Verbs
<1>12. CASE state = "SB_DATA_IAC"
  BY <1>3, <1>4, <1>5, <1>7, <1>12 DEF Verbs, s
<1> QED
  BY <1>6, <1>8, <1>9, <1>10, <1>11, <1>12

\* The mode, the option and what is kept of a subnegotiation.
LEMMA StepState ==
  ASSUME NoMccp1, TypeOK, NEW b \in Octets, Process(b)
  PROVE  /\ state' = Stream!NextMode(b)
         /\ sb_telopt' = IF state = "SB" THEN b ELSE sb_telopt
         /\ Sub' = Stream!NextSub(b)
         /\ (chunk' = <<>>) = FALSE
<1>1. chunk' # <<>>
  BY AppendProperties DEF Process, TypeOK
<1>2. sb_telopt # "COMPRESS" /\ {"IAC", "SB", "SE"} \subseteq Octets
  BY ParserAssumption DEF NoMccp1, TypeOK
<1> USE DEF Stream!NextMode, Stream!NextSub, Stream!IacMode, Stream!Verbs,
            Stream!Room, Stream!SubModes, Sub, Verbs, IacState
<1>3. CASE Data(b)
  BY <1>1, <1>3 DEF Data
<1>4. CASE Iac(b)
  BY <1>1, <1>4 DEF Iac
<1>5. CASE Negotiate(b)
  BY <1>1, <1>5 DEF Negotiate
<1>6. CASE Sb(b)
  BY <1>1, <1>6 DEF Sb
<1>7. CASE SbData(b)
  BY <1>1, <1>2, <1>7 DEF SbData, BufferByte
<1>8. CASE SbDataIac(b)
  BY <1>1, <1>8 DEF SbDataIac, BufferByte
<1> QED
  BY <1>3, <1>4, <1>5, <1>6, <1>7, <1>8 DEF Process

\* Everything due is handed over, or data joins it and nothing is.
LEMMA StepEvents ==
  ASSUME NoMccp1, TypeOK, NEW b \in Octets, Process(b)
  PROVE  \/ events' = Due \o Stream!Meaning(b) /\ Due' = <<>>
         \/ events' = <<>> /\ Due' = Due \o Stream!Meaning(b) /\ state' = "DATA"
<1>1. Stream!Meaning(b) \in Seq(Stream!Items)
  BY MeaningItems
<1>2. /\ i' = i + 1 /\ i \in Nat /\ chunk' \in Seq(Octets)
      /\ chunk' = Append(chunk, b)
  BY AppendProperties DEF Process, TypeOK, i
<1>3. SkipCommand => Pending' = <<>>
  <2>1. SUFFICES ASSUME SkipCommand PROVE Pending' = <<>>
    OBVIOUS
  <2>2. chunk' \in Seq(Octets) /\ start' = i'
    BY <1>2, <2>1 DEF SkipCommand
  <2> QED
    BY <2>2, NothingPendingNext
<1>4. CASE state # "DATA"
  <2>1. Due \o Stream!Meaning(b) = Stream!Meaning(b)
    BY <1>1, <1>4, ConcatEmptySeq DEF Due
  <2>2. events' = Stream!Meaning(b)
    <3> USE <1>4 DEF Process, Stream!Meaning, Stream!IacItems, Stream!Verbs, Verbs,
                     IacEvents, SubEvent, Data
    <3>1. CASE Iac(b)
      BY <3>1 DEF Iac
    <3>2. CASE Negotiate(b)
      BY <3>2 DEF Negotiate
    <3>3. CASE Sb(b) \/ SbData(b)
      BY <3>3 DEF Sb, SbData
    <3>4. CASE SbDataIac(b)
      BY <3>4 DEF SbDataIac
    <3> QED
      BY <3>1, <3>2, <3>3, <3>4
  <2>3. state' = "DATA" => SkipCommand
    <3>1. sb_telopt # "COMPRESS"
      BY DEF NoMccp1, TypeOK
    <3> QED
      BY <1>4, <3>1 DEF Process, Data, Iac, Negotiate, Sb, SbData, SbDataIac, BufferByte
  <2> QED
    BY <1>3, <2>1, <2>2, <2>3 DEF Due
<1>5. CASE state = "DATA" /\ b = "IAC"
  <2>1. events' = Pending /\ state' = "IAC"
    BY <1>5 DEF Process, Data, Iac, Negotiate, Sb, SbData, SbDataIac, Flush, Verbs
  <2>2. Stream!Meaning(b) = <<>> /\ Due = Pending
    BY <1>5 DEF Due, Stream!Meaning, Stream!Verbs
  <2>3. Due \o Stream!Meaning(b) = Pending
    BY <1>5, <2>2, PendingItems, ConcatEmptySeq
  <2> QED
    BY <2>1, <2>3 DEF Due
<1>6. CASE state = "DATA" /\ b # "IAC"
  <2>1. events' = <<>> /\ state' = "DATA" /\ start' = start
    BY <1>6 DEF Process, Data, Iac, Negotiate, Sb, SbData, SbDataIac, Verbs
  <2>2. Pending' = Append(Pending, <<"data", b>>)
    BY <1>2, <1>6, <2>1, DataWaits
  <2>3. Pending \in Seq(Stream!Items) /\ <<"data", b>> \in Stream!Items
    BY <1>6, PendingItems DEF Stream!Items
  <2>4. Append(Pending, <<"data", b>>) = Pending \o <<<<"data", b>>>>
    BY <2>3, AppendIsConcat
  <2>5. Stream!Meaning(b) = <<<<"data", b>>>> /\ Due = Pending /\ Due' = Pending'
    BY <1>6, <2>1 DEF Due, Stream!Meaning, Stream!Verbs
  <2> QED
    BY <2>1, <2>2, <2>4, <2>5
<1> QED
  BY <1>4, <1>5, <1>6

LEMMA ProcessOctet ==
  ASSUME NoMccp1, TypeOK, NEW b \in Octets, Process(b)
  PROVE  Stream!Octet(b)
<1> DEFINE all == Due \o Stream!Meaning(b)
<1>1. all \in Seq(Stream!Items)
  <2>1. Due \in Seq(Stream!Items)
    BY PendingItems DEF Due
  <2> QED
    BY <2>1, MeaningItems, ConcatProperties
<1>2. /\ 0 \in 0..Len(all) /\ Len(all) \in 0..Len(all)
      /\ SubSeq(all, 1, 0) = <<>> /\ SubSeq(all, 0 + 1, Len(all)) = all
      /\ SubSeq(all, 1, Len(all)) = all /\ SubSeq(all, Len(all) + 1, Len(all)) = <<>>
  BY <1>1, HandOver
<1>3. \/ events' = all /\ Due' = <<>>
      \/ events' = <<>> /\ Due' = all /\ state' = "DATA"
  BY StepEvents
<1> HIDE DEF all
<1>4. /\ \E n \in 0..Len(all) : /\ events' = SubSeq(all, 1, n)
                               /\ Due' = SubSeq(all, n + 1, Len(all))
      /\ Due' # <<>> => state' = "DATA"
  BY <1>2, <1>3
<1> QED
  BY <1>4, StepState DEF Stream!Octet, all, Due, Sub

LEMMA ProcessEndIsChunkEnd ==
  ASSUME TypeOK, ProcessEnd
  PROVE  Stream!ChunkEnd
<1>1. chunk' \in Seq(Octets) /\ start' = i'
  BY DEF ProcessEnd, i
<1>2. Pending' = <<>>
  BY <1>1, NothingPendingNext
<1> QED
  BY <1>2 DEF ProcessEnd, Stream!ChunkEnd

\* Whatever the chunks, what the parser hands over is what the octets mean
\* (_process).
THEOREM StreamKept ==
  ASSUME NoMccp1
  PROVE  Spec => KeepsStream
<1>1. Init => Stream!OctetsInit
  <2>1. SUFFICES ASSUME Init PROVE Stream!OctetsInit
    OBVIOUS
  <2>2. Pending = <<>>
    BY <2>1, NothingPending DEF Init, i
  <2> QED
    BY <2>1, <2>2 DEF Init, Stream!OctetsInit
<1>2. TypeOK /\ [Next]_vars => [Stream!OctetsNext]_(Stream!ovars)
  <2>1. CASE UNCHANGED vars
    BY <2>1 DEF vars, Stream!ovars, Pending, i
  <2>2. CASE TypeOK /\ ProcessEnd
    BY <2>2, ProcessEndIsChunkEnd DEF Stream!OctetsNext
  <2>3. ASSUME TypeOK, NEW b \in Octets, Process(b) PROVE Stream!OctetsNext
    BY <2>3, ProcessOctet DEF Stream!OctetsNext
  <2> QED
    BY <2>1, <2>2, <2>3 DEF Next
<1> QED
  BY <1>1, <1>2, InitTypeOK, NextTypeOK, PTL DEF Spec, KeepsStream, Stream!OctetsSpec

\* The parser's variables keep their types, a subnegotiation never outgrows its
\* buffer (_buffer_byte), and start never passes the octet after the last one
\* read (_process).
THEOREM TypeCorrect ==
  ASSUME NoMccp1
  PROVE  Spec => []TypeOK
<1> QED
  BY InitTypeOK, NextTypeOK, PTL DEF Spec

=============================================================================
