-------------------------- MODULE RESTRequestProofs --------------------------
(***************************************************************************)
(* Proofs about RESTRequest, whatever octets a client sends in whatever    *)
(* chunks.                                                                 *)
(*                                                                         *)
(* First, the parser stays in the states it is made for: what the          *)
(* assertions of http_parser.c say of its marks and its lengths.           *)
(*                                                                         *)
(* Second, what is parsed in chunks, with marks and callbacks, is what     *)
(* HttpText reads in one go: the invariant TextInv relates the parser, the *)
(* mark and the collected request to the point that the text of the last   *)
(* request was read up to.  It needs the first invariant, for what a state *)
(* says of the mark.  That a request was read right and where it ended     *)
(* follows once its last octet is parsed.                                  *)
(*                                                                         *)
(* Third, whatever the chunks have made of a request's headers, it is      *)
(* authenticated with pieces of its own text, so what lets it through was  *)
(* signed by somebody, for its path and body.                              *)
(***************************************************************************)
EXTENDS RESTRequest, SequenceTheorems, WellFoundedInduction, TLAPS

\* The fields are there, and what TypeOK says of them.
ParserInv ==
  /\ DOMAIN parser = {"state", "name", "value", "length", "flags", "error"}
  /\ DOMAIN mark = {"item", "text"}
  /\ parser.state \in ParserStates
  /\ parser.length \in Nat
  /\ parser.flags \subseteq {"length", "chunked", "trailing", "close", "old"}
  /\ \/ mark.item = "none"
     \/ mark.item = "url" /\ parser.state \in UrlStates
     \/ mark.item = "field" /\ parser.state = "header_field"
     \/ mark.item = "value" /\ parser.state = "header_value"
     \/ /\ mark.item = "body"
        /\ parser.state \in {"body_identity", "chunk_data", "chunk_data_almost_done"}
  /\ parser.state \in {"body_identity", "chunk_data"} => parser.length > 0
  /\ parser.state \in {"chunk_size_start", "chunk_size", "chunk_parameters", "chunk_data",
                      "chunk_data_almost_done"} => "chunked" \in parser.flags

IInv == ParserInv /\ asked \in Seq(Requests) /\ Len(asked) <= MaxRequests

-----------------------------------------------------------------------------
\* The symbols of digits have numbers, and the end of a line is none of them.
LEMMA HexNat ==
  ASSUME NEW b \in DOMAIN Hex
  PROVE  Hex[b] \in Nat
<1>1. /\ DOMAIN Hex = {Figures[i] : i \in 1..16}
      /\ Hex[b] = (CHOOSE i \in 1..16 : Figures[i] = b) - 1
  BY DEF Hex
<1>2. \E i \in 1..16 : Figures[i] = b
  BY <1>1
<1>3. (CHOOSE i \in 1..16 : Figures[i] = b) \in 1..16
  BY <1>2
<1> QED
  BY <1>1, <1>3

LEMMA DigitIsHex ==
  ASSUME NEW b \in DOMAIN Digit
  PROVE  Digit[b] = Hex[b] /\ b \in DOMAIN Hex
<1>1. DOMAIN Digit = {Figures[i] : i \in 1..10} /\ DOMAIN Hex = {Figures[i] : i \in 1..16}
  BY DEF Digit, Hex
<1>2. b \in DOMAIN Hex
  BY <1>1
<1> QED
  BY <1>2 DEF Digit

LEMMA DigitNat ==
  ASSUME NEW b \in DOMAIN Digit
  PROVE  Digit[b] \in Nat
  BY DigitIsHex, HexNat

LEMMA LineEndNoHex == {"NL", " ", ";"} \cap DOMAIN Hex = {}
<1>1. ASSUME NEW i \in 1..16
      PROVE  Figures[i] \in {"0", "1", "2", "3", "4", "5", "6", "7", "8", "9",
                             "a", "b", "c", "d", "e", "f"}
  BY <1>1 DEF Figures
<1>2. DOMAIN Hex = {Figures[i] : i \in 1..16}
  BY DEF Hex
<1> QED
  BY <1>1, <1>2

\* An octet of an URL leads to a state of the URL, or nowhere.
LEMMA UrlAfterState ==
  ASSUME NEW s, NEW b
  PROVE  UrlAfter(s, b) \in UrlStates \cup {"dead"}
  BY DEF UrlAfter, UrlStates, UrlEnds

\* No URL holds a blank or a line end.
LEMMA UrlBlank ==
  ASSUME NEW s, NEW b \in {" ", "NL"}
  PROVE  UrlAfter(s, b) = "dead"
<1>1. b \notin DOMAIN Digit
  BY DigitIsHex, LineEndNoHex
<1>2. b \notin Letters
  BY DEF Letters
<1> QED
  BY <1>1, <1>2 DEF UrlAfter, UrlStates, UrlEnds

LEMMA InitIInv == Init => IInv
  BY RequestAssumption DEF Init, IInv, ParserInv, ParserStates

\* An error changes no state.
LEMMA FailInv ==
  ASSUME ParserInv, Fail
  PROVE  ParserInv'
  BY DEF ParserInv, Fail, NoMark

LEMMA UnchangedInv ==
  ASSUME ParserInv, UNCHANGED <<parser, mark>>
  PROVE  ParserInv'
  BY DEF ParserInv

\* Going to a state that has neither a mark nor a length.
LEMMA GoInv ==
  ASSUME ParserInv,
         NEW s \in ParserStates \ {"body_identity", "chunk_size_start", "chunk_size",
                                   "chunk_parameters", "chunk_data",
                                   "chunk_data_almost_done"},
         Go(s), mark' = NoMark \/ (mark.item = "none" /\ mark' = mark)
  PROVE  ParserInv'
  BY DEF ParserInv, Go, NoMark

LEMMA NewMessageState ==
  ASSUME NEW p
  PROVE  NewMessage(p) \in {"dead", "start_req"}
  BY DEF NewMessage

\* The states before the headers.
LEMMA RequestLineInv ==
  ASSUME ParserInv, NEW b,
         Dead(b) \/ StartReq(b) \/ ReqMethod(b) \/ ReqSpacesBeforeUrl(b) \/ ReqUrl(b) \/ ReqHttp(b)
  PROVE  ParserInv'
<1>1. CASE Dead(b)
  BY <1>1, FailInv, UnchangedInv DEF Dead
<1>2. CASE StartReq(b)
  <2>1. CASE b = "M"
    <3>1. /\ parser' = [parser EXCEPT !.state = "req_method", !.length = 0, !.flags = {}]
          /\ mark' = mark /\ mark.item = "none"
      BY <1>2, <2>1 DEF StartReq, ParserInv, UrlStates, UrlEnds
    <3>2. /\ parser'.state = "req_method" /\ parser'.length = 0 /\ parser'.flags = {}
          /\ DOMAIN parser' = DOMAIN parser
      BY <3>1 DEF ParserInv
    <3> QED
      BY <3>1, <3>2 DEF ParserInv, ParserStates
  <2> QED
    BY <1>2, <2>1, FailInv, UnchangedInv DEF StartReq
<1>3. CASE ReqMethod(b)
  <2>1. mark.item = "none" /\ "spaces_before_url" \in ParserStates
    BY <1>3 DEF ReqMethod, ParserInv, ParserStates, UrlStates, UrlEnds
  <2> QED
    BY <1>3, <2>1, FailInv, GoInv DEF ReqMethod
<1>4. CASE ReqSpacesBeforeUrl(b)
  <2> DEFINE s == UrlAfter(parser.state, b)
  <2>1. CASE b # " " /\ s # "dead"
    <3>1. Go(s) /\ mark' = Marked("url", b) /\ s \in UrlStates
      BY <1>4, <2>1, UrlAfterState DEF ReqSpacesBeforeUrl
    <3> HIDE DEF s
    <3> QED
      BY <3>1 DEF ParserInv, ParserStates, UrlStates, UrlEnds, Go, Marked
  <2> QED
    BY <1>4, <2>1, FailInv, UnchangedInv DEF ReqSpacesBeforeUrl
<1>5. CASE ReqUrl(b)
  <2> DEFINE s == UrlAfter(parser.state, b)
  <2>1. CASE b = " " /\ parser.state \in UrlEnds
    <3>1. Go("http_start") /\ mark' = NoMark
      BY <1>5, <2>1 DEF ReqUrl, Collect
    <3> QED
      BY <3>1, GoInv DEF ParserStates
  <2>2. CASE b = "NL" /\ parser.state \in UrlEnds
    <3>1. /\ parser' = [parser EXCEPT !.state = "header_field_start", !.flags = @ \cup {"old"}]
          /\ mark' = NoMark
      BY <1>5, <2>2 DEF ReqUrl, Collect
    <3>2. /\ parser'.state = "header_field_start" /\ parser'.length = parser.length
          /\ parser'.flags = parser.flags \cup {"old"} /\ DOMAIN parser' = DOMAIN parser
      BY <3>1 DEF ParserInv
    <3> QED
      BY <3>1, <3>2 DEF ParserInv, ParserStates, NoMark
  <2>3. CASE ~(b \in {" ", "NL"} /\ parser.state \in UrlEnds) /\ s = "dead"
    BY <1>5, <2>3, FailInv DEF ReqUrl
  <2>4. CASE ~(b \in {" ", "NL"} /\ parser.state \in UrlEnds) /\ s # "dead"
    <3>1. Go(s) /\ mark' = Grown(mark, b) /\ s \in UrlStates /\ parser.state \in UrlStates
      BY <1>5, <2>4, UrlAfterState DEF ReqUrl
    <3> HIDE DEF s
    <3> QED
      BY <3>1 DEF ParserInv, ParserStates, UrlStates, UrlEnds, Go, Grown
  <2> QED
    BY <2>1, <2>2, <2>3, <2>4
<1>6. CASE ReqHttp(b)
  <2>1. /\ mark.item = "none"
        /\ "http_end" \in ParserStates /\ "header_field_start" \in ParserStates
    BY <1>6 DEF ReqHttp, ParserInv, ParserStates, UrlStates, UrlEnds
  <2> QED
    BY <1>6, <2>1, FailInv, UnchangedInv, GoInv DEF ReqHttp
<1> QED
  BY <1>1, <1>2, <1>3, <1>4, <1>5, <1>6

-----------------------------------------------------------------------------
(* Headers.                                                                *)

\* What the start of a header line is given as the parser.
Same(p) ==
  /\ DOMAIN p = DOMAIN parser
  /\ p.state = parser.state /\ p.length = parser.length
  /\ parser.flags \subseteq p.flags
  /\ p.flags \subseteq {"length", "chunked", "trailing", "close", "old"}

LEMMA HeadersDoneInv ==
  ASSUME ParserInv, NEW p, NEW r, Same(p), mark' = NoMark, HeadersDone(p, r),
         parser.state \in {"header_field_start", "header_value_lws", "header_value_discard_lws"}
  PROVE  ParserInv'
<1> DEFINE trailing == "trailing" \in p.flags
           chunked == "chunked" \in p.flags
           unclear == ~trailing /\ chunked /\ "length" \in p.flags
           next == IF unclear THEN p.state
                   ELSE IF trailing THEN NewMessage(p)
                   ELSE IF chunked THEN "chunk_size_start"
                   ELSE IF p.length > 0 THEN "body_identity"
                   ELSE NewMessage(p)
<1>1. parser' = [p EXCEPT !.state = next, !.error = unclear]
  BY DEF HeadersDone
<1>2. /\ next \in ParserStates
      /\ next = "chunk_size_start" => chunked
      /\ next = "body_identity" => p.length > 0
      /\ next \notin {"chunk_size", "chunk_parameters", "chunk_data", "chunk_data_almost_done"}
  BY NewMessageState DEF Same, ParserInv, ParserStates
<1> HIDE DEF next
<1>3. /\ parser'.state = next /\ parser'.length = p.length /\ parser'.flags = p.flags
      /\ DOMAIN parser' = DOMAIN parser
  BY <1>1 DEF Same, ParserInv
<1> QED
  BY <1>2, <1>3 DEF ParserInv, Same, NoMark

LEMMA HeaderFieldStartInv ==
  ASSUME ParserInv, NEW b, NEW p, NEW r, Same(p), HeaderFieldStart(b, p, r),
         parser.state \in {"header_field_start", "header_value_lws", "header_value_discard_lws"}
  PROVE  ParserInv'
<1>1. CASE b = "NL"
  BY <1>1, HeadersDoneInv DEF HeaderFieldStart, NoToken
<1>2. CASE b # "NL" /\ b \in NoToken
  BY <1>2, FailInv DEF HeaderFieldStart
<1>3. CASE b # "NL" /\ b \notin NoToken
  <2>1. /\ parser' = [p EXCEPT !.state = "header_field", !.name = <<b>>]
        /\ mark' = Marked("field", b)
    BY <1>3 DEF HeaderFieldStart
  <2>2. /\ parser'.state = "header_field" /\ parser'.length = p.length
        /\ parser'.flags = p.flags /\ DOMAIN parser' = DOMAIN parser
    BY <2>1 DEF Same, ParserInv
  <2> QED
    BY <2>1, <2>2 DEF ParserInv, Same, Marked, ParserStates
<1> QED
  BY <1>1, <1>2, <1>3

LEMMA ValueOctetInv ==
  ASSUME ParserInv, NEW b, NEW value, NEW m, ValueOctet(b, value, m),
         parser.state \in {"header_value_discard_ws", "header_value"},
         DOMAIN m = {"item", "text"}, m.item \in {"none", "value"}
  PROVE  ParserInv'
<1> DEFINE p == [parser EXCEPT !.state = "header_value", !.value = Append(value, b)]
<1>1. /\ DOMAIN p = DOMAIN parser /\ p.state = "header_value"
      /\ p.length = parser.length /\ p.flags = parser.flags
  BY DEF ParserInv
<1>2. CASE parser.name # <<"L">>
  BY <1>1, <1>2 DEF ValueOctet, ParserInv, ParserStates
<1>3. CASE parser.name = <<"L">> /\ ~LengthOctet(b)
  BY <1>3, FailInv DEF ValueOctet
<1>4. CASE parser.name = <<"L">> /\ LengthOctet(b)
  <2> DEFINE length == IF b = " " THEN p.length
                       ELSE IF value = <<>> THEN Digit[b] ELSE p.length * 10 + Digit[b]
  <2>1. /\ mark' = m
        /\ parser' = [p EXCEPT !.flags = @ \cup {"length"}, !.length = length]
    BY <1>4 DEF ValueOctet
  <2>2. b = " " \/ Digit[b] \in Nat
    BY <1>4, DigitNat DEF LengthOctet
  <2>3. length \in Nat
    <3>1. CASE b = " "
      BY <1>1, <3>1 DEF ParserInv
    <3>2. CASE b # " "
      <4>1. Digit[b] \in Nat /\ p.length \in Nat
        BY <1>1, <2>2, <3>2 DEF ParserInv
      <4>2. length = IF value = <<>> THEN Digit[b] ELSE p.length * 10 + Digit[b]
        BY <3>2
      <4> HIDE DEF p, length
      <4> QED
        BY <4>1, <4>2
    <3> QED
      BY <3>1, <3>2
  <2> HIDE DEF p, length
  <2>4. /\ DOMAIN parser' = DOMAIN parser /\ parser'.state = "header_value"
        /\ parser'.length = length /\ parser'.flags = parser.flags \cup {"length"}
    BY <1>1, <2>1 DEF ParserInv
  <2> QED
    BY <2>1, <2>3, <2>4 DEF ParserInv, ParserStates
<1> QED
  BY <1>2, <1>3, <1>4

LEMMA HeaderInv ==
  ASSUME ParserInv, NEW b,
         HeaderFieldFirst(b) \/ HeaderField(b) \/ HeaderValueDiscardWs(b)
           \/ HeaderValue(b) \/ HeaderValueLws(b)
  PROVE  ParserInv'
<1>1. CASE HeaderFieldFirst(b)
  BY <1>1, HeaderFieldStartInv DEF HeaderFieldFirst, Same, ParserInv
<1>2. CASE HeaderField(b)
  <2>1. CASE b = ":"
    BY <1>2, <2>1, GoInv DEF HeaderField, Collect, ParserStates
  <2>2. CASE b # ":" /\ b \in NoToken \cup {"NL"}
    BY <1>2, <2>2, FailInv DEF HeaderField
  <2>3. CASE b # ":" /\ b \notin NoToken \cup {"NL"}
    BY <1>2, <2>3 DEF HeaderField, Grown, ParserInv
  <2> QED
    BY <2>1, <2>2, <2>3
<1>3. CASE HeaderValueDiscardWs(b)
  <2>1. CASE b = " "
    BY <1>3, <2>1, UnchangedInv DEF HeaderValueDiscardWs
  <2>2. CASE b = "NL"
    <3>1. mark.item = "none" /\ "header_value_discard_lws" \in ParserStates
      BY <1>3 DEF HeaderValueDiscardWs, ParserInv, ParserStates, UrlStates, UrlEnds
    <3> QED
      BY <1>3, <2>2, <3>1, GoInv DEF HeaderValueDiscardWs
  <2>3. CASE b \notin {" ", "NL"}
    BY <1>3, <2>3, ValueOctetInv DEF HeaderValueDiscardWs, Marked
  <2> QED
    BY <2>1, <2>2, <2>3
<1>4. CASE HeaderValue(b)
  <2>1. CASE b = "NL"
    BY <1>4, <2>1, GoInv DEF HeaderValue, Collect, ParserStates
  <2>2. CASE b = "NUL"
    BY <1>4, <2>2, FailInv DEF HeaderValue
  <2>3. CASE b \notin {"NL", "NUL"}
    <3>1. /\ DOMAIN Grown(mark, b) = {"item", "text"}
          /\ Grown(mark, b).item \in {"none", "value"}
      BY <1>4 DEF HeaderValue, Grown, ParserInv, UrlStates, UrlEnds
    <3> QED
      BY <1>4, <2>3, <3>1, ValueOctetInv DEF HeaderValue
  <2> QED
    BY <2>1, <2>2, <2>3
<1>5. CASE HeaderValueLws(b)
  <2>1. CASE parser.state = "header_value_lws"
    <3> DEFINE p == [parser EXCEPT !.flags = LineFlags]
    <3>1. HeaderFieldStart(b, p, rs)
      BY <1>5, <2>1 DEF HeaderValueLws
    <3>2. Same(p)
      BY DEF Same, ParserInv, LineFlags, Said
    <3> QED
      BY <2>1, <3>1, <3>2, HeaderFieldStartInv
  <2>2. CASE parser.state = "header_value_discard_lws" /\ parser.name = <<"L">>
    BY <1>5, <2>2, FailInv DEF HeaderValueLws
  <2>3. CASE parser.state = "header_value_discard_lws" /\ parser.name # <<"L">>
    <3>1. HeaderFieldStart(b, parser, OnHeaderValue(rs, <<>>))
      BY <1>5, <2>3 DEF HeaderValueLws
    <3>2. Same(parser)
      BY DEF Same, ParserInv
    <3> QED
      BY <2>3, <3>1, <3>2, HeaderFieldStartInv
  <2> QED
    BY <1>5, <2>1, <2>2, <2>3 DEF HeaderValueLws
<1> QED
  BY <1>1, <1>2, <1>3, <1>4, <1>5

-----------------------------------------------------------------------------
(* Bodies.                                                                 *)

LEMMA BodyMarkShape ==
  ASSUME ParserInv, NEW b
  PROVE  DOMAIN BodyMark(b) = {"item", "text"} /\ BodyMark(b).item = "body"
  BY DEF BodyMark, Grown, Marked, ParserInv

LEMMA SizeReadInv ==
  ASSUME ParserInv, SizeRead, mark' = mark, mark.item = "none", "chunked" \in parser.flags
  PROVE  ParserInv'
<1>1. CASE parser.length > 0
  BY <1>1 DEF SizeRead, ParserInv, ParserStates
<1>2. CASE ~(parser.length > 0)
  <2>1. parser' = [parser EXCEPT !.state = "header_field_start", !.flags = @ \cup {"trailing"}]
    BY <1>2 DEF SizeRead
  <2>2. /\ parser'.state = "header_field_start" /\ parser'.length = parser.length
        /\ parser'.flags = parser.flags \cup {"trailing"} /\ DOMAIN parser' = DOMAIN parser
    BY <2>1 DEF ParserInv
  <2> QED
    BY <2>2 DEF ParserInv, ParserStates
<1> QED
  BY <1>1, <1>2

LEMMA BodyInv ==
  ASSUME ParserInv, NEW b, BodyIdentity(b) \/ ChunkSize(b) \/ ChunkData(b)
  PROVE  ParserInv'
<1>1. CASE BodyIdentity(b) /\ parser.length = 1
  <2>1. /\ parser' = [parser EXCEPT !.state = NewMessage(parser), !.length = 0]
        /\ mark' = NoMark
    BY <1>1 DEF BodyIdentity
  <2> QED
    BY <2>1, NewMessageState DEF ParserInv, ParserStates, NoMark
<1>2. CASE BodyIdentity(b) /\ parser.length > 1
  <2>1. parser' = [parser EXCEPT !.length = @ - 1] /\ mark' = BodyMark(b)
    BY <1>2 DEF BodyIdentity
  <2> QED
    BY <1>2, <2>1, BodyMarkShape DEF BodyIdentity, ParserInv
<1>3. CASE ChunkSize(b) /\ parser.state = "chunk_size_start"
  <2>1. mark' = mark /\ mark.item = "none" /\ "chunked" \in parser.flags
    BY <1>3 DEF ChunkSize, ParserInv, UrlStates, UrlEnds
  <2>2. CASE b \in DOMAIN Hex
    <3>1. parser' = [parser EXCEPT !.state = "chunk_size", !.length = Hex[b]]
      BY <1>3, <2>2 DEF ChunkSize
    <3> QED
      BY <2>1, <2>2, <3>1, HexNat DEF ParserInv, ParserStates
  <2>3. CASE b \notin DOMAIN Hex
    BY <1>3, <2>1, <2>3 DEF ChunkSize, ParserInv
  <2> QED
    BY <2>2, <2>3
<1>4. CASE ChunkSize(b) /\ parser.state \in {"chunk_size", "chunk_parameters"}
  <2>0. mark' = mark /\ mark.item = "none" /\ "chunked" \in parser.flags
    BY <1>4 DEF ChunkSize, ParserInv, UrlStates, UrlEnds
  <2>1. CASE b = "NL"
    <3>1. SizeRead
      BY <1>4, <2>1, LineEndNoHex DEF ChunkSize
    <3> QED
      BY <2>0, <3>1, SizeReadInv
  <2>2. CASE b # "NL" /\ parser.state = "chunk_size" /\ b \in DOMAIN Hex
    <3>1. parser' = [parser EXCEPT !.length = @ * 16 + Hex[b]]
      BY <1>4, <2>2, LineEndNoHex DEF ChunkSize
    <3>2. parser.length * 16 + Hex[b] \in Nat
      BY <2>2, HexNat DEF ParserInv
    <3> QED
      BY <1>4, <2>0, <3>1, <3>2 DEF ParserInv
  <2>3. CASE b # "NL" /\ parser.state = "chunk_size" /\ b \notin DOMAIN Hex
    <3>1. \/ parser' = [parser EXCEPT !.state = "chunk_parameters"]
          \/ parser' = [parser EXCEPT !.error = TRUE]
      BY <1>4, <2>3 DEF ChunkSize, Go
    <3> QED
      BY <2>0, <2>3, <3>1 DEF ParserInv, ParserStates
  <2>4. CASE b # "NL" /\ parser.state = "chunk_parameters"
    BY <1>4, <2>0, <2>4, UnchangedInv DEF ChunkSize
  <2> QED
    BY <1>4, <2>1, <2>2, <2>3, <2>4
<1>5. CASE ChunkData(b) /\ parser.state = "chunk_data"
  <2>1. /\ parser' = [parser EXCEPT !.length = @ - 1,
                        !.state = IF parser.length = 1 THEN "chunk_data_almost_done" ELSE @]
        /\ mark' = BodyMark(b)
    BY <1>5 DEF ChunkData
  <2> QED
    BY <1>5, <2>1, BodyMarkShape DEF ParserInv, ParserStates
<1>6. CASE ChunkData(b) /\ parser.state = "chunk_data_almost_done"
  <2>1. CASE b = "NL"
    BY <1>6, <2>1 DEF ChunkData, Go, Collect, NoMark, ParserInv, ParserStates
  <2> QED
    BY <1>6, <2>1, FailInv DEF ChunkData
<1> QED
  BY <1>1, <1>2, <1>3, <1>4, <1>5, <1>6 DEF BodyIdentity, ChunkSize, ChunkData

-----------------------------------------------------------------------------
LEMMA ParseInv ==
  ASSUME ParserInv, NEW b, Parse(b)
  PROVE  ParserInv'
<1>1. CASE parser.error
  BY <1>1, UnchangedInv DEF Parse
<1>2. CASE ~parser.error
  BY <1>2, RequestLineInv, HeaderInv, BodyInv DEF Parse
<1> QED
  BY <1>1, <1>2

LEMMA NextIInv ==
  ASSUME IInv, [Next]_vars
  PROVE  IInv'
<1>1. CASE UNCHANGED vars
  BY <1>1, UnchangedInv DEF vars, IInv
<1>2. ASSUME NEW r \in Requests, Ask(r)
      PROVE  IInv'
  BY <1>2, UnchangedInv, RequestAssumption DEF Ask, IInv
<1>3. CASE Octet
  BY <1>3, ParseInv DEF Octet, IInv
<1>4. CASE ChunkEnd
  <2>1. ParserInv'
    BY <1>4 DEF ChunkEnd, IInv, ParserInv, NoMark
  <2> QED
    BY <1>4, <2>1 DEF ChunkEnd, IInv
<1> QED
  BY <1>1, <1>2, <1>3, <1>4 DEF Next

\* A mark is set only in the state whose item it marks, a body is read only while
\* octets of it are to come, and chunks only if the request announced them, for
\* all requests and all ways to cut them (http_parser_execute).
THEOREM TypeCorrect == Spec => []TypeOK
<1>1. IInv => TypeOK
  BY DEF IInv, ParserInv, TypeOK
<1> QED
  BY <1>1, InitIInv, NextIInv, PTL DEF Spec

-----------------------------------------------------------------------------
(* The points of a text.                                                   *)

\* A set of numbers has a least: what makes a definition over a text's octets hold
\* at all of them.
LEMMA LeastOf ==
  ASSUME NEW S \in SUBSET Nat, S # {}
  PROVE  \E m \in S : \A n \in S : m <= n
<1>1. IsWellFoundedOn(OpToRel(<, Nat), Nat)
  BY NatLessThanWellFounded
<1>2. PICK x \in S : \A y \in S : ~(<<y, x>> \in OpToRel(<, Nat))
  BY <1>1, WFMin
<1>3. ASSUME NEW y \in S
      PROVE  x <= y
  <2>1. x \in Nat /\ y \in Nat
    OBVIOUS
  <2>2. ~(<<y, x>> \in OpToRel(<, Nat))
    BY <1>2
  <2>3. <<y, x>> \in Nat \X Nat
    BY <2>1
  <2>4. ~(y < x)
    BY <2>2, <2>3, Zenon DEF OpToRel
  <2> QED
    BY <2>1, <2>4
<1> QED
  BY <1>3

\* The points of the first n octets of a text.
PointsTo(text, n, f) ==
  /\ DOMAIN f = 0..n
  /\ f[0] = Fresh
  /\ \A i \in 1..n : f[i] = After(f[i - 1], text[i])

\* There is a function that reads a text octet by octet.
LEMMA PointsExist ==
  ASSUME NEW text \in Seq(Octets), NEW n \in 0..Len(text)
  PROVE  \E f : PointsTo(text, n, f)
<1> DEFINE S == {m \in 0..Len(text) : ~\E f : PointsTo(text, m, f)}
<1>1. SUFFICES ASSUME S # {}
               PROVE  FALSE
  OBVIOUS
<1>2. PICK m \in S : \A k \in S : m <= k
  <2>1. S \in SUBSET Nat
    OBVIOUS
  <2> HIDE DEF S
  <2> QED
    BY <1>1, <2>1, LeastOf
<1>3. m \in 0..Len(text) /\ ~\E f : PointsTo(text, m, f)
  OBVIOUS
<1>4. CASE m = 0
  <2>1. PointsTo(text, 0, [i \in 0..0 |-> Fresh])
    BY DEF PointsTo
  <2> QED
    BY <1>3, <1>4, <2>1
<1>5. CASE m # 0
  <2>1. m - 1 \in 0..Len(text) /\ ~(m <= m - 1)
    BY <1>3, <1>5
  <2>2. PICK f : PointsTo(text, m - 1, f)
    BY <1>2, <2>1
  <2> DEFINE g == [i \in 0..m |-> IF i < m THEN f[i] ELSE After(f[m - 1], text[m])]
  <2>3. ASSUME NEW i \in 1..m
        PROVE  g[i] = After(g[i - 1], text[i])
    <3>1. i - 1 \in 0..m /\ i - 1 < m /\ i \in 0..m /\ m \in Nat
      BY <1>3
    <3>2. g[i - 1] = f[i - 1]
      BY <3>1
    <3>3. CASE i = m
      BY <3>1, <3>2, <3>3
    <3>4. CASE i # m
      <4>1. i < m /\ i \in 1..(m - 1)
        BY <3>1, <3>4
      <4>2. g[i] = f[i]
        BY <3>1, <4>1
      <4>3. f[i] = After(f[i - 1], text[i])
        BY <2>2, <4>1 DEF PointsTo
      <4> QED
        BY <3>2, <4>2, <4>3
    <3> QED
      BY <3>3, <3>4
  <2>4. DOMAIN g = 0..m /\ g[0] = Fresh
    BY <1>3, <1>5, <2>2 DEF PointsTo
  <2>5. PointsTo(text, m, g)
    <3> HIDE DEF g
    <3> QED
      BY <2>3, <2>4 DEF PointsTo
  <2> QED
    BY <1>3, <2>5
<1> QED
  BY <1>4, <1>5

\* Reading is that function.
LEMMA ReadingPoints ==
  ASSUME NEW text \in Seq(Octets)
  PROVE  PointsTo(text, Len(text), Reading(text))
<1>1. PICK f : PointsTo(text, Len(text), f)
  BY PointsExist
<1> DEFINE h == [i \in 0..Len(text) |-> f[i]]
           R(g) == [i \in 0..Len(text) |-> IF i = 0 THEN Fresh ELSE After(g[i - 1], text[i])]
<1>2. ASSUME NEW i \in 0..Len(text)
      PROVE  h[i] = R(h)[i]
  <2>1. CASE i = 0
    BY <1>1, <2>1 DEF PointsTo
  <2>2. CASE i # 0
    <3>1. i \in 1..Len(text) /\ i - 1 \in 0..Len(text)
      BY <2>2
    <3> QED
      BY <1>1, <2>2, <3>1 DEF PointsTo
  <2> QED
    BY <2>1, <2>2
<1>3. h = R(h)
  BY <1>2
<1>4. Reading(text) = CHOOSE g : g = R(g)
  BY DEF Reading
<1>5. Reading(text) = R(Reading(text))
  <2> HIDE DEF h, R
  <2> QED
    BY <1>3, <1>4
<1> QED
  <2> DEFINE g == Reading(text)
  <2>1. g = R(g)
    BY <1>5
  <2> HIDE DEF g
  <2>2. /\ DOMAIN g = 0..Len(text)
        /\ \A i \in 0..Len(text) : g[i] = IF i = 0 THEN Fresh ELSE After(g[i - 1], text[i])
    BY <2>1
  <2>3. PointsTo(text, Len(text), g)
    BY <2>2 DEF PointsTo
  <2> QED
    BY <2>3 DEF g

-----------------------------------------------------------------------------
(* The invariant: the parser is where the text that was read leads.        *)

\* The request line's end and what the next line finds.
ParserNow == IF parser.state = "header_value_lws"
             THEN [parser EXCEPT !.flags = LineFlags] ELSE parser

RequestNow == IF parser.state = "header_value_discard_lws"
              THEN OnHeaderValue(rs, <<>>) ELSE rs

\* The state of the parser for where p is.  The end of a line is only told from the
\* next line, and a value without octets from that of a length, by one octet more.
At(p) ==
  \/ /\ p.at \in ParserStates
     /\ p.at \notin {"header_field_start", "header_value_discard_lws", "header_value_lws", "dead"}
     /\ parser.state = p.at
  \/ p.at = "line" /\ parser.state \in {"header_field_start", "header_value_lws"}
  \/ /\ p.at = IF parser.name = <<"L">> THEN "no_length" ELSE "line"
     /\ parser.state = "header_value_discard_lws"

\* While no chunk has cut an item, what is marked and collected is what the text
\* said so far.
Whole(p) ==
  /\ p.at \in UrlStates => mark = [item |-> "url", text |-> p.url]
  /\ p.at \notin {"start_req", "req_method", "spaces_before_url"} \cup UrlStates =>
       rs.url = {p.url}
  /\ p.at = "header_field" => mark = [item |-> "field", text |-> p.name]
  /\ p.at \in {"header_value_discard_ws", "header_value"} => rs.current = {p.name}
  /\ p.at = "header_value" => mark = [item |-> "value", text |-> p.value]
  /\ p.at # "start_req" => RequestNow.headers = p.headers

\* What follows of a body, after what was handed over before.
Joined(before, text) == IF before = Null THEN {text} ELSE {s \o text : s \in before}

\* The body was handed over as far as it is not marked, up to a NUL.
BodyRead(sent) ==
  /\ sent \subseteq Seq(Octets)
  /\ mark.item # "body" => Kept(rs.body, sent)
  /\ mark.item = "body" =>
       \E before \in SUBSET Seq(Octets) :
         Kept(rs.body, before) /\ sent = Joined(before, mark.text)

\* Within a request: length, flags and body are those of the text, however it was
\* cut.
Following(p) ==
  /\ DOMAIN p = DOMAIN Fresh
  /\ ~parser.error /\ ~died
  /\ Len(calls) = Len(asked) - 1
  /\ At(p)
  /\ p.at # "start_req" => parser.length = p.left /\ ParserNow.flags = p.flags
  /\ p.at \in {"header_field", "header_value_discard_ws", "header_value"} => parser.name = p.name
  /\ p.at = "header_value" =>
       parser.value = p.value /\ p.value \in Seq(Octets) /\ p.value # <<>>
  /\ BodyRead(p.body)
  /\ p.at = "start_req" => p = Fresh
  /\ ~torn => Whole(p)

\* Past its end: the request is recorded, or the process died of it.
Completed(p) ==
  \/ died
  \/ /\ Len(calls) = Len(asked)
     /\ ~parser.error
     /\ parser.state = IF Closes(p) THEN "dead" ELSE "start_req"
     /\ rs.body = Null

\* The connection for point p of the last request.
Current(p) ==
  CASE p.at = "refused" -> parser.error /\ ~died /\ Len(calls) = Len(asked) - 1
    [] p.at = "done" -> Completed(p)
    [] OTHER -> Following(p)

\* What becomes of a request whose text was read up to point q.
Handed(q) ==
  \/ UNCHANGED outcome
  \/ /\ q.at = "done"
     /\ q.body # Null /\ q.body \cap Json = {}
     /\ died' = TRUE /\ UNCHANGED calls
  \/ /\ q.at = "done"
     /\ UNCHANGED died
     /\ \E c : /\ calls' = Append(calls, c)
               /\ Kept(c.request.body, q.body)
               /\ ~c.torn => c.request.url = {q.url} /\ c.request.headers = q.headers

\* Request k leaves the connection without a next one.
Stops(k) == ~asked[k].wellFormed \/ asked[k].close

\* A request before the last one has ended the connection.
Ended == \E k \in 1..(Len(asked) - 1) : Stops(k)

\* The last request is read up to some point.
Underway ==
  \E r \in Requests : \E i \in 0..Len(r.text) :
    /\ asked[Len(asked)] = r
    /\ todo = SubSeq(r.text, i + 1, Len(r.text))
    /\ Current(Reading(r.text)[i])

\* A request as REST_URL collects it.
Collected(r) ==
  DOMAIN r = {"url", "current", "headers", "body"} /\ r.body \subseteq Seq(Octets)

Shape ==
  /\ Collected(rs)
  /\ mark.text \in Seq(Octets)
  /\ todo \in Seq(Octets)
  /\ parser.error \in BOOLEAN
  /\ calls \in Seq({calls[k] : k \in DOMAIN calls})

\* What is recorded is what was sent, in order, and nothing after a request that
\* ended the connection.
CallsInv ==
  /\ Len(calls) <= Len(asked)
  /\ \A k \in 1..Len(calls) :
       /\ Kept(calls[k].request.body, asked[k].body)
       /\ ~calls[k].torn => /\ calls[k].request.url = {asked[k].url}
                            /\ calls[k].request.headers = asked[k].headers
       /\ \A j \in 1..(k - 1) : ~Stops(j)

\* The inductive invariant.
TextInv ==
  /\ Shape
  /\ CallsInv
  /\ DiesOfItsBody
  /\ asked = <<>> => /\ parser.state = "start_req" /\ ~parser.error /\ rs.body = Null
                     /\ todo = <<>> /\ calls = <<>> /\ ~died
  /\ asked # <<>> => IF Ended THEN parser.error \/ parser.state = "dead" ELSE Underway

-----------------------------------------------------------------------------
(* Steps that are much alike.                                              *)

\* The fields of a point.
LEMMA FreshFields ==
  DOMAIN Fresh = {"at", "url", "name", "value", "headers", "body", "left", "flags"}
  BY DEF Fresh

LEMMA MovedFields ==
  ASSUME NEW p, DOMAIN p = DOMAIN Fresh, NEW at
  PROVE  LET q == Moved(p, at)
         IN  /\ DOMAIN q = DOMAIN Fresh
             /\ q.at = at /\ q.url = p.url /\ q.name = p.name /\ q.value = p.value
             /\ q.headers = p.headers /\ q.body = p.body /\ q.left = p.left
             /\ q.flags = p.flags
  BY FreshFields DEF Moved

\* What an error comes to.
LEMMA RefusedCurrent ==
  ASSUME NEW CONSTANT p, Following(p), NEW CONSTANT q, q = Refused(p),
         parser'.error = TRUE, UNCHANGED <<outcome, asked>>
  PROVE  Current(q)'
<1>1. q.at = "refused"
  BY MovedFields DEF Refused, Following
<1> QED
  BY <1>1 DEF Following, Current, outcome

\* The same when the parser calls it an error.
LEMMA FailCurrent ==
  ASSUME ParserInv, NEW CONSTANT p, Following(p), NEW CONSTANT q, q = Refused(p),
         Fail, UNCHANGED <<outcome, asked>>
  PROVE  Current(q)'
<1>1. parser'.error = TRUE
  BY DEF ParserInv, Fail
<1> QED
  BY <1>1, RefusedCurrent

\* A step within the request line.
LEMMA GoFields ==
  ASSUME ParserInv, NEW s, Go(s)
  PROVE  /\ parser'.state = s /\ parser'.name = parser.name /\ parser'.value = parser.value
         /\ parser'.length = parser.length /\ parser'.flags = parser.flags
         /\ parser'.error = parser.error
  BY DEF ParserInv, Go

\* In the request line the parser's state is the point's.
LEMMA AtLine ==
  ASSUME NEW p, At(p), parser.state \in {"start_req", "req_method", "spaces_before_url",
           "http_start", "http_end"} \cup UrlStates
  PROVE  p.at = parser.state
  BY DEF At, UrlStates, UrlEnds

\* No mark of a body before, and none after.
LEMMA BodyStays ==
  ASSUME NEW CONSTANT sent, BodyRead(sent), mark.item # "body", mark'.item # "body",
         rs'.body = rs.body
  PROVE  BodyRead(sent)'
  BY DEF BodyRead

LEMMA BodyStill ==
  ASSUME NEW CONSTANT sent, BodyRead(sent), mark' = mark, rs'.body = rs.body
  PROVE  BodyRead(sent)'
  BY DEF BodyRead

\* Handing over an url or a header leaves the body alone.
LEMMA HandOverBody ==
  ASSUME DOMAIN rs = {"url", "current", "headers", "body"},
         mark.item \in {"none", "url", "field", "value"}
  PROVE  HandOver(rs, mark).body = rs.body
  BY DEF HandOver, OnUrl, OnHeaderField, OnHeaderValue

\* An octet that changes nothing.
LEMMA StillCurrent ==
  ASSUME NEW CONSTANT p, Following(p), p.at \notin {"refused", "done"},
         UNCHANGED <<parser, mark, rs, outcome, asked, torn>>
  PROVE  Current(p)'
<1>1. ParserNow' = ParserNow /\ RequestNow' = RequestNow
  BY DEF ParserNow, RequestNow, LineFlags
<1>2. At(p)'
  BY DEF At, Following
<1>3. BodyRead(p.body)'
  BY BodyStill DEF Following
<1>4. Following(p)'
  BY <1>1, <1>2, <1>3 DEF Following, Whole, outcome
<1> QED
  BY <1>4 DEF Current

\* Without a mark there is nothing to hand over, and outside a header nothing is
\* pending.
LEMMA NothingPending ==
  /\ mark.item = "none" => HandOver(rs, mark) = rs
  /\ parser.state # "header_value_lws" => ParserNow = parser
  /\ parser.state # "header_value_discard_lws" => RequestNow = rs
  BY DEF HandOver, ParserNow, RequestNow

LEMMA NothingPendingNext ==
  /\ mark'.item = "none" => HandOver(rs, mark)' = rs'
  /\ parser'.state # "header_value_lws" => ParserNow' = parser'
  /\ parser'.state # "header_value_discard_lws" => RequestNow' = rs'
  BY DEF HandOver, ParserNow, RequestNow

-----------------------------------------------------------------------------
(* The request line.                                                       *)

LEMMA StartReqStep ==
  ASSUME ParserInv, Shape, NEW CONSTANT p, Following(p), NEW CONSTANT b, StartReq(b),
         UNCHANGED <<asked, torn>>
  PROVE  Current(After(p, b))'
<1>1. p.at = "start_req" /\ DOMAIN p = DOMAIN Fresh /\ mark.item = "none" /\ p = Fresh
  BY AtLine DEF StartReq, Following, ParserInv, UrlStates, UrlEnds
<1> DEFINE q == After(p, b)
<1>2. CASE b = "NL"
  <2>1. q = p
    BY <1>1, <1>2 DEF After, AfterLine, InHeaders, UrlStates, UrlEnds
  <2>2. UNCHANGED <<parser, mark, rs, calls, died>>
    BY <1>2 DEF StartReq, outcome
  <2>3. Following(p)'
    BY <2>2 DEF Following, At, BodyRead, Whole, ParserNow, RequestNow, LineFlags
  <2> HIDE DEF q
  <2>4. Current(p)'
    BY <1>1, <2>3 DEF Current
  <2> QED
    BY <2>1, <2>4 DEF q
<1>3. CASE b = "M"
  <2>1. q = Moved(p, "req_method")
    BY <1>1, <1>3 DEF After, AfterLine, InHeaders, UrlStates, UrlEnds
  <2>2. /\ parser' = [parser EXCEPT !.state = "req_method", !.length = 0, !.flags = {}]
        /\ rs' = Cleared /\ UNCHANGED <<mark, calls, died>>
    BY <1>3 DEF StartReq, outcome
  <2>3. /\ parser'.state = "req_method" /\ parser'.length = 0 /\ parser'.flags = {}
        /\ parser'.error = parser.error
    BY <2>2 DEF ParserInv
  <2>4. /\ DOMAIN q = DOMAIN Fresh /\ q.at = "req_method" /\ q.left = 0 /\ q.flags = {}
        /\ q.headers = <<>> /\ q.body = {}
    BY <2>1, <1>1 DEF Moved, Fresh
  <2>5. rs'.headers = <<>> /\ rs'.body = {}
    BY <2>2 DEF Cleared, Null
  <2> HIDE DEF q
  <2>6. At(q)' /\ BodyRead(q.body)' /\ ParserNow' = parser' /\ RequestNow' = rs'
    BY <1>1, <2>2, <2>3, <2>4, <2>5 DEF At, BodyRead, Kept, Null, ParserNow, RequestNow, ParserStates
  <2>7. Following(q)'
    BY <1>1, <2>2, <2>3, <2>4, <2>5, <2>6 DEF Following, Whole, UrlStates, UrlEnds
  <2>8. Current(q)'
    BY <2>4, <2>7 DEF Current
  <2> QED
    BY <2>8 DEF q
<1>4. CASE b \notin {"NL", "M"}
  <2>1. q = Refused(p)
    BY <1>1, <1>4 DEF After, AfterLine, InHeaders, UrlStates, UrlEnds
  <2>2. Fail /\ UNCHANGED outcome
    BY <1>4 DEF StartReq
  <2> QED
    BY <2>1, <2>2, FailCurrent
<1> QED
  BY <1>2, <1>3, <1>4

\* From one state without a mark to another.
LEMMA QuietStep ==
  ASSUME ParserInv, NEW CONSTANT p, Following(p), NEW CONSTANT s, NEW CONSTANT at,
         Go(s), UNCHANGED <<mark, rs, calls, died, asked, torn>>, mark.item = "none",
         parser.state = p.at,
         at = IF s = "header_field_start" THEN "line" ELSE s,
         \/ p.at = "req_method" /\ s = "spaces_before_url"
         \/ p.at = "http_start" /\ s = "http_end"
         \/ p.at = "http_end" /\ s = "header_field_start"
         \/ p.at = "chunk_data_almost_done" /\ s = "chunk_size_start"
         \/ p.at = "chunk_size" /\ s = "chunk_parameters"
         \/ p.at \in {"chunk_size", "chunk_parameters"} /\ s = "chunk_data"
  PROVE  Current(Moved(p, at))'
<1> DEFINE q == Moved(p, at)
<1>1. /\ DOMAIN q = DOMAIN Fresh
      /\ q.at = at /\ q.url = p.url /\ q.name = p.name /\ q.value = p.value
      /\ q.headers = p.headers /\ q.body = p.body /\ q.left = p.left
      /\ q.flags = p.flags
  BY MovedFields DEF Following
<1> HIDE DEF q
<1>2. /\ parser'.state = s /\ parser'.length = parser.length /\ parser'.flags = parser.flags
      /\ parser'.error = parser.error
  BY GoFields
<1>3. /\ ParserNow = parser /\ RequestNow = rs
      /\ BodyRead(q.body)' /\ ParserNow' = parser' /\ RequestNow' = rs
  BY <1>1, <1>2, NothingPending, NothingPendingNext, BodyStill DEF Following
<1>4. At(q)'
  BY <1>1, <1>2 DEF At, ParserStates
<1>5. torn \/ Whole(q)'
  BY <1>1, <1>3 DEF Following, Whole, UrlStates, UrlEnds
<1>6. Following(q)'
  BY <1>1, <1>2, <1>3, <1>4, <1>5 DEF Following
<1>7. Current(q)'
  BY <1>1, <1>6 DEF Current
<1> QED
  BY <1>7 DEF q

LEMMA ReqMethodStep ==
  ASSUME ParserInv, NEW CONSTANT p, Following(p), NEW CONSTANT b, ReqMethod(b),
         UNCHANGED <<asked, torn>>
  PROVE  Current(After(p, b))'
<1>1. p.at = "req_method" /\ mark.item = "none"
  BY AtLine DEF ReqMethod, Following, ParserInv, UrlStates, UrlEnds
<1>2. CASE b = " "
  <2>1. After(p, b) = Moved(p, "spaces_before_url")
    BY <1>1, <1>2 DEF After, AfterLine, InHeaders, UrlStates, UrlEnds
  <2>2. Go("spaces_before_url") /\ UNCHANGED <<mark, rs, calls, died>>
    BY <1>2 DEF ReqMethod, outcome
  <2> QED
    BY <1>1, <2>1, <2>2, QuietStep DEF ReqMethod
<1>3. CASE b # " "
  <2>1. After(p, b) = Refused(p)
    BY <1>1, <1>3 DEF After, AfterLine, InHeaders, UrlStates, UrlEnds
  <2>2. Fail /\ UNCHANGED outcome
    BY <1>3 DEF ReqMethod
  <2> QED
    BY <2>1, <2>2, FailCurrent
<1> QED
  BY <1>2, <1>3

LEMMA ReqHttpStep ==
  ASSUME ParserInv, NEW CONSTANT p, Following(p), NEW CONSTANT b, ReqHttp(b),
         UNCHANGED <<asked, torn>>
  PROVE  Current(After(p, b))'
<1>1. p.at \in {"http_start", "http_end"} /\ p.at = parser.state /\ mark.item = "none"
  BY AtLine DEF ReqHttp, Following, ParserInv, UrlStates, UrlEnds
<1>2. CASE p.at = "http_start" /\ b = " "
  <2>1. After(p, b) = p
    BY <1>2 DEF After, AfterLine, InHeaders, UrlStates, UrlEnds
  <2> QED
    BY <1>1, <1>2, <2>1, StillCurrent DEF ReqHttp
<1>3. CASE p.at = "http_start" /\ b = "V"
  <2>1. After(p, b) = Moved(p, "http_end")
    BY <1>3 DEF After, AfterLine, InHeaders, UrlStates, UrlEnds
  <2>2. Go("http_end") /\ UNCHANGED <<mark, rs, calls, died>>
    BY <1>1, <1>3 DEF ReqHttp, outcome
  <2> QED
    BY <1>1, <1>3, <2>1, <2>2, QuietStep
<1>4. CASE p.at = "http_end" /\ b = "NL"
  <2>1. After(p, b) = Moved(p, "line")
    BY <1>4 DEF After, AfterLine, InHeaders, UrlStates, UrlEnds
  <2>2. Go("header_field_start") /\ UNCHANGED <<mark, rs, calls, died>>
    BY <1>1, <1>4 DEF ReqHttp, outcome
  <2> QED
    BY <1>1, <1>4, <2>1, <2>2, QuietStep
<1>5. CASE \/ p.at = "http_start" /\ b \notin {" ", "V"}
           \/ p.at = "http_end" /\ b # "NL"
  <2>1. After(p, b) = Refused(p)
    BY <1>5 DEF After, AfterLine, InHeaders, UrlStates, UrlEnds
  <2>2. Fail /\ UNCHANGED outcome
    BY <1>1, <1>5 DEF ReqHttp
  <2> QED
    BY <2>1, <2>2, FailCurrent
<1> QED
  BY <1>1, <1>2, <1>3, <1>4, <1>5

LEMMA ReqSpacesStep ==
  ASSUME ParserInv, NEW CONSTANT p, Following(p), NEW CONSTANT b, ReqSpacesBeforeUrl(b),
         UNCHANGED <<asked, torn>>
  PROVE  Current(After(p, b))'
<1>1. p.at = "spaces_before_url" /\ p.at = parser.state /\ mark.item = "none"
  BY AtLine DEF ReqSpacesBeforeUrl, Following, ParserInv, UrlStates, UrlEnds
<1>2. CASE b = " "
  <2>1. After(p, b) = p
    BY <1>1, <1>2, UrlBlank DEF After, AfterLine, InHeaders, UrlStates, UrlEnds
  <2> QED
    BY <1>1, <1>2, <2>1, StillCurrent DEF ReqSpacesBeforeUrl
<1> DEFINE at == UrlAfter(p.at, b)
<1>3. CASE b # " " /\ at = "dead"
  <2>1. After(p, b) = Refused(p)
    BY <1>1, <1>3 DEF After, AfterLine, InHeaders, UrlStates, UrlEnds
  <2>2. Fail /\ UNCHANGED outcome
    BY <1>1, <1>3 DEF ReqSpacesBeforeUrl
  <2> QED
    BY <2>1, <2>2, FailCurrent
<1>4. CASE b # " " /\ at # "dead"
  <2> DEFINE q == After(p, b)
  <2>1. q = [p EXCEPT !.at = at, !.url = <<b>>] /\ at \in UrlStates
    BY <1>1, <1>4, UrlAfterState DEF After, AfterLine, InHeaders, UrlStates, UrlEnds
  <2>2. /\ Go(at) /\ UNCHANGED <<rs, calls, died>>
        /\ mark' = [item |-> "url", text |-> <<b>>]
    BY <1>1, <1>4 DEF ReqSpacesBeforeUrl, outcome, Marked
  <2> HIDE DEF q, at
  <2>3. /\ DOMAIN q = DOMAIN Fresh
        /\ q.at = at /\ q.url = <<b>> /\ q.headers = p.headers /\ q.body = p.body
        /\ q.left = p.left /\ q.flags = p.flags
    BY <2>1, FreshFields DEF Following
  <2>4. /\ parser'.state = at /\ parser'.length = parser.length
        /\ parser'.flags = parser.flags /\ parser'.error = parser.error
    BY <2>2, GoFields
  <2>5. /\ ParserNow = parser /\ RequestNow = rs
        /\ ParserNow' = parser' /\ RequestNow' = rs
    BY <1>1, <2>1, <2>2, <2>4, NothingPending, NothingPendingNext DEF UrlStates, UrlEnds
  <2>6. BodyRead(q.body)'
    BY <1>1, <2>2, <2>3, BodyStays DEF Following
  <2>7. At(q)'
    BY <2>1, <2>3, <2>4 DEF At, ParserStates, UrlStates, UrlEnds
  <2>8. torn \/ Whole(q)'
    BY <1>1, <2>1, <2>2, <2>3, <2>5 DEF Following, Whole, UrlStates, UrlEnds
  <2>9. Following(q)'
    BY <1>1, <2>1, <2>2, <2>3, <2>4, <2>5, <2>6, <2>7, <2>8 DEF Following, UrlStates, UrlEnds
  <2>10. Current(q)'
    BY <2>1, <2>3, <2>9 DEF Current, UrlStates, UrlEnds
  <2> QED
    BY <2>10 DEF q
<1> QED
  BY <1>2, <1>3, <1>4

\* Marking one more octet.
LEMMA MarkGrown ==
  ASSUME NEW item, NEW text, NEW b
  PROVE  Grown([item |-> item, text |-> text], b) = [item |-> item, text |-> Append(text, b)]
  BY DEF Grown

LEMMA ReqUrlStep ==
  ASSUME ParserInv, Shape, NEW CONSTANT p, Following(p), NEW CONSTANT b, ReqUrl(b),
         UNCHANGED <<asked, torn>>
  PROVE  Current(After(p, b))'
<1>1. p.at \in UrlStates /\ p.at = parser.state /\ mark.item \in {"none", "url"}
  BY AtLine DEF ReqUrl, Following, ParserInv, UrlStates, UrlEnds
<1> DEFINE q == After(p, b)
           next == UrlAfter(p.at, b)
<1>2. CASE b \in {" ", "NL"} /\ p.at \in UrlEnds
  <2> DEFINE flags == IF b = "NL" THEN parser.flags \cup {"old"} ELSE parser.flags
             state == IF b = "NL" THEN "header_field_start" ELSE "http_start"
             at == IF b = "NL" THEN "line" ELSE "http_start"
  <2>1. /\ DOMAIN q = DOMAIN Fresh /\ q.at = at
        /\ q.url = p.url /\ q.headers = p.headers /\ q.body = p.body /\ q.left = p.left
        /\ q.flags = IF b = "NL" THEN p.flags \cup {"old"} ELSE p.flags
    <3>1. CASE b = " "
      <4>1. q = Moved(p, "http_start")
        BY <1>1, <1>2, <3>1, UrlBlank DEF After, AfterLine, InHeaders, UrlStates, UrlEnds
      <4> HIDE DEF q
      <4> QED
        BY <3>1, <4>1, MovedFields DEF Following
    <3>2. CASE b = "NL"
      <4>1. q = [p EXCEPT !.at = "line", !.flags = @ \cup {"old"}]
        BY <1>1, <1>2, <3>2, UrlBlank DEF After, AfterLine, InHeaders, UrlStates, UrlEnds
      <4> HIDE DEF q
      <4> QED
        BY <3>2, <4>1, FreshFields DEF Following
    <3> QED
      BY <1>2, <3>1, <3>2
  <2>2. /\ parser'.state = state /\ parser'.length = parser.length
        /\ parser'.flags = flags /\ parser'.error = parser.error
        /\ mark' = NoMark /\ rs' = HandOver(rs, mark) /\ UNCHANGED <<calls, died>>
    <3>1. CASE b = " "
      BY <1>1, <1>2, <3>1, GoFields DEF ReqUrl, Collect, outcome
    <3>2. CASE b = "NL"
      <4>1. /\ parser' = [parser EXCEPT !.state = "header_field_start", !.flags = @ \cup {"old"}]
            /\ Collect /\ UNCHANGED outcome
        BY <1>1, <1>2, <3>2 DEF ReqUrl
      <4> QED
        BY <3>2, <4>1 DEF Collect, outcome, ParserInv
    <3> QED
      BY <1>2, <3>1, <3>2
  <2>3. ParserNow = parser /\ RequestNow = rs /\ ParserNow' = parser' /\ RequestNow' = rs'
    BY <1>1, <2>2, NothingPending, NothingPendingNext DEF UrlStates, UrlEnds
  <2> HIDE DEF q
  <2>8. BodyRead(q.body)'
    BY <1>1, <2>1, <2>2, HandOverBody, BodyStays DEF Following, NoMark, Shape, Collected
  <2>4. At(q)'
    BY <1>2, <2>1, <2>2 DEF At, ParserStates
  <2>5. torn \/ Whole(q)'
    <3>1. SUFFICES ASSUME ~torn
                   PROVE  Whole(q)'
      OBVIOUS
    <3>2. mark = [item |-> "url", text |-> p.url] /\ rs.headers = p.headers
      BY <1>1, <2>3, <3>1 DEF Following, Whole, UrlStates, UrlEnds
    <3>3. rs' = OnUrl(rs, p.url)
      BY <2>2, <3>2 DEF HandOver
    <3>4. rs'.url = {p.url} /\ rs'.headers = p.headers
      BY <3>2, <3>3 DEF OnUrl, Shape, Collected
    <3> QED
      BY <1>2, <2>1, <2>3, <3>4 DEF Whole, UrlStates, UrlEnds
  <2>6. Following(q)'
    BY <1>1, <1>2, <2>1, <2>2, <2>3, <2>4, <2>5, <2>8 DEF Following, UrlStates, UrlEnds
  <2>7. Current(q)'
    BY <1>2, <2>1, <2>6 DEF Current
  <2> QED
    BY <2>7 DEF q
<1>3. CASE ~(b \in {" ", "NL"} /\ p.at \in UrlEnds) /\ next = "dead"
  <2>1. After(p, b) = Refused(p)
    BY <1>1, <1>3 DEF After, AfterLine, InHeaders, UrlStates, UrlEnds
  <2>2. Fail /\ UNCHANGED outcome
    BY <1>1, <1>3 DEF ReqUrl
  <2> QED
    BY <2>1, <2>2, FailCurrent
<1>4. CASE ~(b \in {" ", "NL"} /\ p.at \in UrlEnds) /\ next # "dead"
  <2>1. q = [p EXCEPT !.at = next, !.url = Append(@, b)] /\ next \in UrlStates
    BY <1>1, <1>4, UrlAfterState DEF After, AfterLine, InHeaders, UrlStates, UrlEnds
  <2>2. Go(next) /\ UNCHANGED <<rs, calls, died>> /\ mark' = Grown(mark, b)
    BY <1>1, <1>4 DEF ReqUrl, outcome
  <2> HIDE DEF q, next
  <2>3. /\ DOMAIN q = DOMAIN Fresh
        /\ q.at = next /\ q.url = Append(p.url, b) /\ q.headers = p.headers /\ q.body = p.body
        /\ q.left = p.left /\ q.flags = p.flags
    BY <2>1, FreshFields DEF Following
  <2>4. /\ parser'.state = next /\ parser'.length = parser.length
        /\ parser'.flags = parser.flags /\ parser'.error = parser.error
    BY <2>2, GoFields
  <2>5. mark'.item = mark.item
    BY <2>2 DEF Grown, ParserInv
  <2>6. ParserNow = parser /\ RequestNow = rs /\ ParserNow' = parser' /\ RequestNow' = rs
    BY <1>1, <2>1, <2>2, <2>4, NothingPending, NothingPendingNext DEF UrlStates, UrlEnds
  <2>7. BodyRead(q.body)'
    BY <1>1, <2>2, <2>3, <2>5, BodyStays DEF Following
  <2>8. At(q)'
    BY <2>1, <2>3, <2>4 DEF At, ParserStates, UrlStates, UrlEnds
  <2>9. torn \/ Whole(q)'
    <3>1. torn \/ mark' = [item |-> "url", text |-> q.url]
      <4>1. torn \/ mark = [item |-> "url", text |-> p.url]
        BY <1>1 DEF Following, Whole
      <4> QED
        BY <2>2, <2>3, <4>1, MarkGrown
    <3> QED
      BY <1>1, <2>1, <2>2, <2>3, <2>6, <3>1 DEF Following, Whole, UrlStates, UrlEnds
  <2>10. Following(q)'
    BY <1>1, <2>1, <2>2, <2>3, <2>4, <2>6, <2>7, <2>8, <2>9 DEF Following, UrlStates, UrlEnds
  <2>11. Current(q)'
    BY <2>1, <2>3, <2>10 DEF Current, UrlStates, UrlEnds
  <2> QED
    BY <2>11 DEF q
<1> QED
  BY <1>2, <1>3, <1>4

-----------------------------------------------------------------------------
(* The end of the headers.                                                 *)

\* How far a string goes is one number.
LEMMA StrlenIs ==
  ASSUME NEW text \in Seq(Octets)
  PROVE  /\ Strlen(text) \in 0..Len(text)
         /\ \A i \in 1..Strlen(text) : text[i] # "NUL"
         /\ Strlen(text) = Len(text) \/ text[Strlen(text) + 1] = "NUL"
<1> DEFINE Stop(n) == n = Len(text) \/ text[n + 1] = "NUL"
           Ends == {n \in 0..Len(text) : Stop(n)}
<1>1. Len(text) \in Ends /\ Ends \subseteq Nat
  OBVIOUS
<1>2. PICK m \in Ends : \A n \in Ends : m <= n
  <2> HIDE DEF Ends
  <2> QED
    BY <1>1, LeastOf
<1>3. m \in 0..Len(text) /\ Stop(m)
  OBVIOUS
<1>4. ASSUME NEW i \in 1..m
      PROVE  text[i] # "NUL"
  <2>1. i - 1 \in 0..Len(text) /\ ~(m <= i - 1) /\ (i - 1) + 1 = i
    BY <1>3
  <2>2. i - 1 \notin Ends
    BY <1>2, <2>1
  <2> QED
    BY <2>1, <2>2
<1>5. \E n \in 0..Len(text) :
        /\ \A i \in 1..n : text[i] # "NUL"
        /\ n = Len(text) \/ text[n + 1] = "NUL"
  BY <1>3, <1>4
<1> HIDE DEF Ends
<1> QED
  BY <1>5 DEF Strlen

LEMMA StrlenOf ==
  ASSUME NEW text \in Seq(Octets), NEW n \in 0..Len(text),
         \A i \in 1..n : text[i] # "NUL",
         n = Len(text) \/ text[n + 1] = "NUL"
  PROVE  Strlen(text) = n
<1> DEFINE m == Strlen(text)
<1>1. /\ m \in 0..Len(text)
      /\ \A i \in 1..m : text[i] # "NUL"
      /\ m = Len(text) \/ text[m + 1] = "NUL"
  BY StrlenIs
<1> HIDE DEF m
<1>2. ~(m < n)
  BY <1>1
<1>3. ~(n < m)
  BY <1>1
<1>4. m = n
  BY <1>1, <1>2, <1>3
<1> QED
  BY <1>4 DEF m

\* What is kept of JSON is all of it.
LEMMA KeptJson ==
  ASSUME NEW kept \in SUBSET Seq(Octets), NEW sent \in SUBSET Seq(Octets), Kept(kept, sent),
         kept # Null, kept \cap Json = {}
  PROVE  sent # Null /\ sent \cap Json = {}
<1>1. sent # Null
  BY DEF Kept
<1>2. ASSUME NEW s \in sent, s \in Json
      PROVE  FALSE
  <2>1. PICK k \in kept : TRUE
    BY DEF Null
  <2>2. k \in Seq(Octets) /\ s \in Seq(Octets) /\ \A i \in 1..Len(s) : s[i] # "NUL"
    BY <1>2, JsonAssumption
  <2>3. Strlen(s) = Len(s)
    BY <2>2, StrlenOf
  <2>4. Len(s) <= Len(k) /\ Len(k) <= Len(s) /\ \A i \in 1..Len(s) : k[i] = s[i]
    BY <2>3 DEF Kept
  <2>5. Len(k) = Len(s)
    BY <2>2, <2>4
  <2>6. k = s
    BY <2>2, <2>4, <2>5
  <2> QED
    BY <1>2, <2>6
<1> QED
  BY <1>1, <1>2

\* A request is complete.
LEMMA CompleteStep ==
  ASSUME Shape, NEW CONSTANT q, q.at = "done", NEW STATE r,
         Collected(r), Kept(r.body, q.body), q.body \subseteq Seq(Octets),
         torn \/ (r.url = {q.url} /\ r.headers = q.headers),
         MessageComplete(r), ~died, Len(calls) = Len(asked) - 1, asked \in Seq(Requests),
         parser'.error = FALSE, parser'.state = IF Closes(q) THEN "dead" ELSE "start_req",
         UNCHANGED asked
  PROVE  Current(q)' /\ Handed(q)
<1>1. CASE r.body # Null /\ r.body \cap Json = {}
  <2>1. died' = TRUE /\ UNCHANGED calls
    BY <1>1 DEF MessageComplete, Null
  <2>2. q.body # Null /\ q.body \cap Json = {}
    BY <1>1, KeptJson DEF Collected
  <2> QED
    BY <2>1, <2>2 DEF Current, Completed, Handed
<1>2. CASE ~(r.body # Null /\ r.body \cap Json = {})
  <2>1. /\ rs' = Freed(r) /\ UNCHANGED died
        /\ \E now \in Times :
             calls' = Append(calls, [request |-> r, verdict |-> Verdict(r, now),
                                     now |-> now, torn |-> torn])
    BY <1>2 DEF MessageComplete
  <2>2. Freed(r).body = {}
    BY DEF Freed, Null, Collected
  <2>3. PICK c : calls' = Append(calls, c) /\ c.request = r /\ c.torn = torn
    BY <2>1
  <2>4. Len(calls') = Len(asked)
    BY <2>1 DEF Shape, Collected
  <2>5. Current(q)'
    BY <2>1, <2>2, <2>4 DEF Current, Completed, Null
  <2>6. Handed(q)
    BY <2>1, <2>3 DEF Handed
  <2> QED
    BY <2>5, <2>6
<1> QED
  BY <1>1, <1>2

\* What the blank line makes of a point.
LEMMA AfterHeadersFields ==
  ASSUME NEW p, DOMAIN p = DOMAIN Fresh, p.left \in Nat
  PROVE  LET q == AfterHeaders(p) IN
           /\ DOMAIN q = DOMAIN Fresh
           /\ q.url = p.url /\ q.headers = p.headers /\ q.body = p.body
           /\ q.left = p.left /\ q.flags = p.flags
           /\ q.at = IF "trailing" \in p.flags THEN "done"
                     ELSE IF "chunked" \in p.flags
                          THEN IF "length" \in p.flags THEN "refused" ELSE "chunk_size_start"
                          ELSE IF p.left > 0 THEN "body_identity" ELSE "done"
  BY FreshFields DEF AfterHeaders, Moved, Refused

\* The end of the headers.
LEMMA HeadersDoneStep ==
  ASSUME ParserInv, Shape, asked \in Seq(Requests), NEW CONSTANT p, Following(p), p.at = "line",
         HeadersDone(ParserNow, RequestNow), mark.item = "none", mark' = NoMark,
         parser.state \in {"header_field_start", "header_value_lws", "header_value_discard_lws"},
         UNCHANGED <<asked, torn>>
  PROVE  Current(AfterHeaders(p))' /\ Handed(AfterHeaders(p))
<1> DEFINE q == AfterHeaders(p)
           done == OnHeadersComplete(RequestNow)
           unclear == "trailing" \notin p.flags /\ {"chunked", "length"} \subseteq p.flags
           next == IF unclear THEN parser.state
                   ELSE IF "trailing" \in p.flags THEN NewMessage(p)
                   ELSE IF "chunked" \in p.flags THEN "chunk_size_start"
                   ELSE IF p.left > 0 THEN "body_identity" ELSE NewMessage(p)
<1>1. /\ DOMAIN ParserNow = {"state", "name", "value", "length", "flags", "error"}
      /\ ParserNow.state = parser.state /\ ParserNow.length = p.left
      /\ ParserNow.flags = p.flags /\ p.left \in Nat
  BY DEF Following, ParserNow, ParserInv
<1>2. /\ DOMAIN RequestNow = {"url", "current", "headers", "body"}
      /\ RequestNow.body = rs.body /\ BodyRead(p.body) /\ p.body \subseteq Seq(Octets)
      /\ Kept(rs.body, p.body)
      /\ torn \/ (RequestNow.url = {p.url} /\ RequestNow.headers = p.headers)
  <2>1. DOMAIN RequestNow = DOMAIN rs /\ RequestNow.body = rs.body /\ RequestNow.url = rs.url
    BY DEF RequestNow, OnHeaderValue, Shape, Collected
  <2> QED
    BY <2>1, NothingPending DEF Shape, Collected, Following, BodyRead, Whole, UrlStates, UrlEnds
<1>3. /\ DOMAIN done = DOMAIN RequestNow /\ done.url = RequestNow.url
      /\ done.headers = RequestNow.headers /\ done.body = RequestNow.body
  BY <1>2 DEF OnHeadersComplete
<1>4. /\ DOMAIN q = DOMAIN Fresh
      /\ q.url = p.url /\ q.headers = p.headers /\ q.body = p.body
      /\ q.left = p.left /\ q.flags = p.flags
      /\ q.at = IF "trailing" \in p.flags THEN "done"
                ELSE IF "chunked" \in p.flags
                     THEN IF "length" \in p.flags THEN "refused" ELSE "chunk_size_start"
                     ELSE IF p.left > 0 THEN "body_identity" ELSE "done"
  BY <1>1, AfterHeadersFields DEF Following
<1>5. NewMessage(ParserNow) = NewMessage(p)
  BY <1>1 DEF NewMessage
<1>6. /\ parser' = [ParserNow EXCEPT !.state = next, !.error = unclear]
      /\ IF next \in {"start_req", "dead"}
         THEN MessageComplete(IF "trailing" \in p.flags THEN RequestNow ELSE done)
         ELSE rs' = (IF unclear THEN RequestNow ELSE done) /\ UNCHANGED outcome
  BY <1>1, <1>5 DEF HeadersDone
<1> HIDE DEF q, done
<1>7. /\ parser'.state = next /\ parser'.error = unclear /\ parser'.length = p.left
      /\ parser'.flags = p.flags
  <2> HIDE DEF next, unclear
  <2> QED
    BY <1>1, <1>6
<1>8. CASE q.at = "refused"
  <2>1. unclear /\ next \notin {"start_req", "dead"}
    BY <1>4, <1>8
  <2>2. parser'.error /\ UNCHANGED outcome
    BY <1>6, <1>7, <2>1
  <2> HIDE DEF next, unclear
  <2>3. Current(q)'
    BY <1>8, <2>2 DEF Current, Following, outcome
  <2> QED
    BY <2>2, <2>3 DEF q, Handed
<1>9. CASE q.at = "done"
  <2>1. ~unclear /\ next = NewMessage(p)
    BY <1>4, <1>9
  <2>2. next = IF Closes(q) THEN "dead" ELSE "start_req"
    BY <1>4, <2>1 DEF NewMessage, Closes
  <2> DEFINE r == IF "trailing" \in p.flags THEN RequestNow ELSE done
  <2>3. MessageComplete(r) /\ parser'.error = FALSE /\ parser'.state = next
    BY <1>6, <1>7, <2>1, <2>2
  <2>4. /\ Collected(r) /\ Kept(r.body, q.body) /\ q.body \subseteq Seq(Octets)
        /\ torn \/ (r.url = {q.url} /\ r.headers = q.headers)
    BY <1>2, <1>3, <1>4 DEF Shape, Collected
  <2> HIDE DEF r, next, unclear
  <2>5. Current(q)' /\ Handed(q)
    BY <1>9, <2>2, <2>3, <2>4, CompleteStep DEF Following
  <2> QED
    BY <2>5 DEF q
<1>10. CASE q.at \in {"chunk_size_start", "body_identity"}
  <2>1. ~unclear /\ next = q.at
    BY <1>4, <1>10
  <2>2. rs' = done /\ UNCHANGED outcome /\ parser'.error = FALSE /\ parser'.state = q.at
    BY <1>6, <1>7, <1>10, <2>1
  <2>3. BodyRead(q.body)' /\ ParserNow' = parser' /\ RequestNow' = done
    BY <1>2, <1>3, <1>4, <1>10, <2>2, NothingPendingNext, BodyStays DEF NoMark
  <2>4. At(q)'
    BY <1>10, <2>2 DEF At, ParserStates
  <2>5. torn \/ Whole(q)'
    BY <1>2, <1>3, <1>4, <1>10, <2>2, <2>3 DEF Whole, UrlStates, UrlEnds
  <2>6. Following(q)'
    BY <1>2, <1>3, <1>4, <1>7, <1>10, <2>2, <2>3, <2>4, <2>5 DEF Following, outcome
  <2>7. Current(q)'
    BY <1>10, <2>6 DEF Current
  <2> QED
    BY <2>2, <2>7 DEF q, Handed
<1> QED
  BY <1>4, <1>8, <1>9, <1>10

-----------------------------------------------------------------------------
(* Header lines.                                                           *)

\* The first octet of a line: the headers end, or another one starts.
LEMMA LineStartStep ==
  ASSUME ParserInv, Shape, asked \in Seq(Requests), NEW CONSTANT p, Following(p), p.at = "line",
         NEW CONSTANT b, HeaderFieldStart(b, ParserNow, RequestNow),
         parser.state \in {"header_field_start", "header_value_lws", "header_value_discard_lws"},
         UNCHANGED <<asked, torn>>
  PROVE  Current(After(p, b))' /\ Handed(After(p, b))
<1>1. mark.item = "none"
  BY DEF ParserInv, UrlStates, UrlEnds
<1>2. CASE b = "NL"
  <2>1. After(p, b) = AfterHeaders(p)
    BY <1>2 DEF After, AfterHeader, InHeaders, UrlStates, UrlEnds
  <2> QED
    BY <1>1, <1>2, <2>1, HeadersDoneStep DEF HeaderFieldStart, NoToken
<1>3. CASE b # "NL" /\ b \in NoToken
  <2>1. After(p, b) = Refused(p)
    BY <1>3 DEF After, AfterHeader, InHeaders, UrlStates, UrlEnds
  <2>2. Fail /\ UNCHANGED outcome
    BY <1>3 DEF HeaderFieldStart
  <2> QED
    BY <2>1, <2>2, FailCurrent DEF Handed
<1>4. CASE b # "NL" /\ b \notin NoToken
  <2> DEFINE q == After(p, b)
  <2>1. q = [p EXCEPT !.at = "header_field", !.name = <<b>>]
    BY <1>4 DEF After, AfterHeader, InHeaders, UrlStates, UrlEnds
  <2> HIDE DEF q
  <2>2. /\ DOMAIN q = DOMAIN Fresh
        /\ q.at = "header_field" /\ q.url = p.url /\ q.name = <<b>> /\ q.headers = p.headers
        /\ q.body = p.body /\ q.left = p.left /\ q.flags = p.flags
    BY <2>1, FreshFields DEF Following
  <2>3. /\ parser' = [ParserNow EXCEPT !.state = "header_field", !.name = <<b>>]
        /\ mark' = [item |-> "field", text |-> <<b>>]
        /\ rs' = RequestNow /\ UNCHANGED <<calls, died>>
    BY <1>4 DEF HeaderFieldStart, Marked, outcome
  <2>4. /\ parser'.state = "header_field" /\ parser'.name = <<b>> /\ parser'.length = p.left
        /\ parser'.flags = p.flags /\ parser'.error = FALSE
    BY <2>3 DEF Following, ParserNow, ParserInv, Shape, Collected
  <2>5. /\ DOMAIN RequestNow = DOMAIN rs /\ RequestNow.body = rs.body
        /\ RequestNow.url = rs.url
    BY DEF RequestNow, OnHeaderValue, Shape, Collected
  <2>6. BodyRead(q.body)'
    BY <1>1, <2>2, <2>3, <2>5, BodyStays DEF Following
  <2>7. ParserNow' = parser' /\ RequestNow' = RequestNow
    BY <2>3, <2>4, NothingPendingNext
  <2>8. At(q)'
    BY <2>2, <2>4 DEF At, ParserStates
  <2>9. torn \/ Whole(q)'
    BY <2>2, <2>3, <2>5, <2>7 DEF Following, Whole, UrlStates, UrlEnds
  <2>10. Following(q)'
    BY <2>2, <2>3, <2>4, <2>6, <2>7, <2>8, <2>9 DEF Following
  <2>11. Current(q)'
    BY <2>2, <2>10 DEF Current
  <2> QED
    BY <2>3, <2>11 DEF q, Handed, outcome
<1> QED
  BY <1>2, <1>3, <1>4

\* The same from either state that awaits a line.
LEMMA LineStep ==
  ASSUME ParserInv, Shape, asked \in Seq(Requests), NEW CONSTANT p, Following(p),
         NEW CONSTANT b, HeaderFieldFirst(b) \/ HeaderValueLws(b), UNCHANGED <<asked, torn>>
  PROVE  Current(After(p, b))' /\ Handed(After(p, b))
<1>1. CASE p.at = "line"
  <2>1. /\ HeaderFieldStart(b, ParserNow, RequestNow)
        /\ parser.state \in {"header_field_start", "header_value_lws", "header_value_discard_lws"}
    BY <1>1 DEF HeaderFieldFirst, HeaderValueLws, ParserNow, RequestNow, Following, At
  <2> QED
    BY <1>1, <2>1, LineStartStep
<1>2. CASE p.at # "line"
  <2>1. p.at = "no_length" /\ parser.state = "header_value_discard_lws" /\ parser.name = <<"L">>
    BY <1>2 DEF HeaderFieldFirst, HeaderValueLws, Following, At
  <2>2. Fail /\ UNCHANGED outcome
    BY <2>1 DEF HeaderFieldFirst, HeaderValueLws
  <2>3. After(p, b) = Refused(p)
    BY <2>1 DEF After, AfterHeader, InHeaders, UrlStates, UrlEnds
  <2> QED
    BY <2>2, <2>3, FailCurrent DEF Handed
<1> QED
  BY <1>1, <1>2

LEMMA HeaderFieldStep ==
  ASSUME ParserInv, Shape, NEW CONSTANT p, Following(p), NEW CONSTANT b, HeaderField(b),
         UNCHANGED <<asked, torn>>
  PROVE  Current(After(p, b))'
<1>1. p.at = "header_field" /\ p.at = parser.state /\ mark.item \in {"none", "field"}
  BY DEF HeaderField, Following, ParserInv, At, UrlStates, UrlEnds
<1>2. ParserNow = parser /\ RequestNow = rs /\ HandOver(rs, mark).body = rs.body
  BY <1>1, NothingPending, HandOverBody DEF Shape, Collected
<1> DEFINE q == After(p, b)
<1>3. CASE b = ":"
  <2>1. q = Moved(p, "header_value_discard_ws")
    BY <1>1, <1>3 DEF NoToken, After, AfterHeader, InHeaders, UrlStates, UrlEnds
  <2> HIDE DEF q
  <2>2. /\ DOMAIN q = DOMAIN Fresh /\ q.at = "header_value_discard_ws" /\ q.url = p.url
        /\ q.name = p.name /\ q.headers = p.headers /\ q.body = p.body
        /\ q.left = p.left /\ q.flags = p.flags
    BY <2>1, MovedFields DEF Following
  <2>3. /\ Go("header_value_discard_ws") /\ rs' = HandOver(rs, mark) /\ mark' = NoMark
        /\ UNCHANGED <<calls, died>>
    BY <1>3 DEF HeaderField, Collect, outcome
  <2>4. /\ parser'.state = "header_value_discard_ws" /\ parser'.name = parser.name
        /\ parser'.length = parser.length /\ parser'.flags = parser.flags
        /\ parser'.error = parser.error
    BY <2>3, GoFields
  <2>5. ParserNow' = parser' /\ RequestNow' = rs' /\ BodyRead(q.body)'
    BY <1>1, <1>2, <2>2, <2>3, <2>4, NothingPendingNext, BodyStays DEF NoMark, Following
  <2>6. At(q)'
    BY <2>2, <2>4 DEF At, ParserStates
  <2>7. torn \/ Whole(q)'
    <3>1. torn \/ (rs.url = {p.url} /\ rs.headers = p.headers /\ rs' = OnHeaderField(rs, p.name))
      BY <1>1, <1>2, <2>3 DEF Following, Whole, HandOver, UrlStates, UrlEnds
    <3>2. torn \/ (rs'.url = {p.url} /\ rs'.headers = p.headers /\ rs'.current = {p.name})
      BY <3>1 DEF OnHeaderField, Shape, Collected
    <3> QED
      BY <2>2, <2>5, <3>2 DEF Whole, UrlStates, UrlEnds
  <2>8. Following(q)'
    BY <1>1, <1>2, <2>2, <2>3, <2>4, <2>5, <2>6, <2>7 DEF Following
  <2>9. Current(q)'
    BY <2>2, <2>8 DEF Current
  <2> QED
    BY <2>9 DEF q
<1>4. CASE b # ":" /\ b \in NoToken \cup {"NL"}
  <2>1. q = Refused(p)
    BY <1>1, <1>4 DEF After, AfterHeader, InHeaders, UrlStates, UrlEnds
  <2>2. Fail /\ UNCHANGED outcome
    BY <1>4 DEF HeaderField
  <2> QED
    BY <2>1, <2>2, FailCurrent
<1>5. CASE b # ":" /\ b \notin NoToken \cup {"NL"}
  <2>1. q = [p EXCEPT !.name = Append(@, b)]
    BY <1>1, <1>5 DEF After, AfterHeader, InHeaders, UrlStates, UrlEnds
  <2> HIDE DEF q
  <2>2. /\ DOMAIN q = DOMAIN Fresh /\ q.at = "header_field" /\ q.url = p.url
        /\ q.name = Append(p.name, b) /\ q.headers = p.headers /\ q.body = p.body
        /\ q.left = p.left /\ q.flags = p.flags
    BY <1>1, <2>1, FreshFields DEF Following
  <2>3. /\ parser' = [parser EXCEPT !.name = Append(@, b)] /\ mark' = Grown(mark, b)
        /\ UNCHANGED <<rs, calls, died>>
    BY <1>5 DEF HeaderField, outcome
  <2>4. /\ parser'.state = parser.state /\ parser'.name = Append(parser.name, b)
        /\ parser'.length = parser.length /\ parser'.flags = parser.flags
        /\ parser'.error = parser.error
    BY <2>3 DEF ParserInv
  <2>5. mark'.item = mark.item
    BY <2>3 DEF Grown, ParserInv
  <2>6. ParserNow' = parser' /\ RequestNow' = rs /\ BodyRead(q.body)'
    BY <1>1, <2>2, <2>3, <2>4, <2>5, NothingPendingNext, BodyStays DEF Following
  <2>7. At(q)'
    BY <1>1, <2>2, <2>4 DEF At, ParserStates
  <2>8. torn \/ Whole(q)'
    <3>1. torn \/ mark' = [item |-> "field", text |-> q.name]
      <4>1. torn \/ mark = [item |-> "field", text |-> p.name]
        BY <1>1 DEF Following, Whole, UrlStates, UrlEnds
      <4> QED
        BY <2>2, <2>3, <4>1, MarkGrown
    <3> QED
      BY <1>1, <1>2, <2>2, <2>3, <2>6, <3>1 DEF Following, Whole, UrlStates, UrlEnds
  <2>9. Following(q)'
    BY <1>1, <1>2, <2>2, <2>3, <2>4, <2>6, <2>7, <2>8 DEF Following
  <2>10. Current(q)'
    BY <2>2, <2>9 DEF Current
  <2> QED
    BY <2>10 DEF q
<1> QED
  BY <1>3, <1>4, <1>5

\* An octet of a value.
LEMMA ValueOctetStep ==
  ASSUME ParserInv, Shape, NEW CONSTANT p, Following(p), NEW CONSTANT b \in Octets,
         NEW CONSTANT v, NEW STATE m, ValueOctet(b, v, m),
         \/ p.at = "header_value_discard_ws" /\ v = <<>>
         \/ p.at = "header_value" /\ v = p.value,
         DOMAIN m = {"item", "text"}, m.item \in {"none", "value"},
         torn \/ m = [item |-> "value", text |-> Append(v, b)],
         UNCHANGED <<rs, outcome, asked, torn>>
  PROVE  Current(AfterValue(p, v, b))'
<1> DEFINE q == AfterValue(p, v, b)
           value == Append(v, b)
           valid == b = " " \/ b \in DOMAIN Digit
<1>1. /\ p.at = parser.state /\ parser.name = p.name
      /\ parser.length = p.left /\ parser.flags = p.flags
      /\ BodyRead(p.body) /\ mark.item \in {"none", "value"} /\ DOMAIN p = DOMAIN Fresh
      /\ RequestNow = rs
  <2>1. p.at = parser.state
    BY DEF Following, At
  <2>2. mark.item \in {"none", "value"}
    BY <2>1 DEF ParserInv, UrlStates, UrlEnds
  <2> QED
    BY <2>1, <2>2, NothingPending DEF Following
<1>2. v \in Seq(Octets) /\ value \in Seq(Octets) /\ value # <<>>
      /\ (v = <<>> <=> p.at = "header_value_discard_ws")
  <2>1. v \in Seq(Octets) /\ (v = <<>> <=> p.at = "header_value_discard_ws")
    <3>1. p.at = "header_value" => p.value \in Seq(Octets) /\ p.value # <<>>
      BY DEF Following
    <3>2. CASE p.at = "header_value"
      BY <3>1, <3>2
    <3>3. CASE p.at = "header_value_discard_ws"
      BY <3>3
    <3> QED
      BY <3>2, <3>3
  <2>2. value \in Seq(Octets) /\ Len(value) = Len(v) + 1 /\ Len(v) \in Nat
    BY <2>1
  <2>3. value # <<>>
    <3>1. Len(value) # 0
      BY <2>2
    <3> HIDE DEF value
    <3> QED
      BY <3>1
  <2> QED
    BY <2>1, <2>2, <2>3
<1>3. p.at = "header_value" => parser.value = v
  BY DEF Following
<1> DEFINE fits == IF v = <<>> THEN b \in DOMAIN Digit /\ "length" \notin p.flags
                   ELSE b = " " \/ (b \in DOMAIN Digit /\ \A i \in DOMAIN v : v[i] # " ")
           left == IF b = " " THEN p.left
                   ELSE IF v = <<>> THEN Digit[b] ELSE p.left * 10 + Digit[b]
<1>4. LengthOctet(b) <=> fits
  <2>1. CASE p.at = "header_value"
    <3>1. v # <<>> /\ parser.state = "header_value" /\ parser.value = v
      BY <1>1, <1>2, <1>3, <2>1
    <3> QED
      BY <3>1 DEF LengthOctet
  <2>2. CASE p.at = "header_value_discard_ws"
    <3>1. v = <<>> /\ parser.state # "header_value" /\ parser.flags = p.flags
      BY <1>1, <1>2, <2>2
    <3> QED
      BY <3>1 DEF LengthOctet
  <2> QED
    BY <2>1, <2>2
<1>5. CASE p.name = <<"L">> /\ ~fits
  <2>1. q = Refused(p)
    BY <1>5 DEF AfterValue
  <2>2. Fail
    BY <1>1, <1>4, <1>5 DEF ValueOctet
  <2> QED
    BY <2>1, <2>2, FailCurrent
<1>6. CASE p.name # <<"L">> \/ fits
  <2> DEFINE flags == IF p.name = <<"L">> THEN p.flags \cup {"length"} ELSE p.flags
             length == IF p.name = <<"L">> THEN left ELSE p.left
  <2>1. /\ parser'.state = "header_value" /\ parser'.name = p.name /\ parser'.value = value
        /\ parser'.flags = flags /\ parser'.length = length /\ parser'.error = parser.error
        /\ mark' = m
    <3> DEFINE P == [parser EXCEPT !.state = "header_value", !.value = value]
    <3>1. /\ P.state = "header_value" /\ P.name = p.name /\ P.value = value
          /\ P.flags = p.flags /\ P.length = p.left /\ P.error = parser.error
          /\ DOMAIN P = DOMAIN parser
      BY <1>1 DEF ParserInv
    <3>2. CASE p.name # <<"L">>
      <4>1. parser' = P /\ mark' = m
        BY <1>1, <3>2 DEF ValueOctet
      <4> HIDE DEF P, value
      <4> QED
        BY <3>1, <3>2, <4>1
    <3>3. CASE p.name = <<"L">> /\ fits
      <4>1. /\ mark' = m
            /\ parser' = [P EXCEPT !.flags = @ \cup {"length"},
                            !.length = IF b = " " THEN @
                                       ELSE IF v = <<>> THEN Digit[b]
                                       ELSE @ * 10 + Digit[b]]
        BY <1>1, <1>4, <3>3 DEF ValueOctet
      <4> HIDE DEF P, value, fits
      <4> QED
        BY <3>1, <3>3, <4>1 DEF ParserInv
    <3> QED
      BY <1>6, <3>2, <3>3
  <2>2. /\ DOMAIN q = DOMAIN Fresh /\ q.at = "header_value" /\ q.url = p.url /\ q.name = p.name
        /\ q.value = value /\ q.headers = p.headers /\ q.body = p.body
        /\ q.flags = flags /\ q.left = length
    <3> DEFINE Q == [p EXCEPT !.at = "header_value", !.value = value]
    <3>1. /\ DOMAIN Q = DOMAIN Fresh /\ Q.at = "header_value" /\ Q.url = p.url
          /\ Q.name = p.name /\ Q.value = value /\ Q.headers = p.headers /\ Q.body = p.body
          /\ Q.flags = p.flags /\ Q.left = p.left
      BY <1>1, FreshFields
    <3>2. CASE p.name # <<"L">>
      <4>1. q = Q
        BY <3>2 DEF AfterValue
      <4> HIDE DEF Q, q, value
      <4> QED
        BY <3>1, <3>2, <4>1
    <3>3. CASE p.name = <<"L">> /\ fits
      <4>1. q = [Q EXCEPT !.flags = @ \cup {"length"}, !.left = left]
        BY <3>3 DEF AfterValue
      <4> HIDE DEF Q, q, value, fits, left
      <4> QED
        BY <3>1, <3>3, <4>1, FreshFields
    <3> QED
      BY <1>6, <3>2, <3>3
  <2> HIDE DEF q, value, flags, length, fits
  <2>3. At(q)'
    BY <2>1, <2>2 DEF At, ParserStates
  <2>4. ParserNow' = parser' /\ RequestNow' = rs
    BY <2>1, NothingPendingNext
  <2>5. BodyRead(q.body)'
    BY <1>1, <2>1, <2>2, BodyStays
  <2>6. torn \/ Whole(q)'
    BY <1>1, <2>1, <2>2, <2>4 DEF Following, Whole, value, UrlStates, UrlEnds
  <2>7. Following(q)'
    BY <1>1, <1>2, <2>1, <2>2, <2>3, <2>4, <2>5, <2>6 DEF Following, outcome
  <2>8. Current(q)'
    BY <2>2, <2>7 DEF Current
  <2> QED
    BY <2>8 DEF q
<1> QED
  BY <1>5, <1>6

LEMMA HeaderValueDiscardWsStep ==
  ASSUME ParserInv, Shape, NEW CONSTANT p, Following(p), NEW CONSTANT b \in Octets,
         HeaderValueDiscardWs(b), UNCHANGED <<asked, torn>>
  PROVE  Current(After(p, b))'
<1>1. /\ p.at = "header_value_discard_ws" /\ p.at = parser.state /\ mark.item = "none"
      /\ DOMAIN p = DOMAIN Fresh
  BY DEF HeaderValueDiscardWs, Following, ParserInv, At, UrlStates, UrlEnds
<1>2. CASE b = " "
  <2>1. After(p, b) = p
    BY <1>1, <1>2 DEF After, AfterHeader, InHeaders, UrlStates, UrlEnds
  <2> QED
    BY <1>1, <1>2, <2>1, StillCurrent DEF HeaderValueDiscardWs
<1>3. CASE b = "NL"
  <2> DEFINE q == After(p, b)
             at == IF p.name = <<"L">> THEN "no_length" ELSE "line"
             headers == Stored(p.headers, p.name, <<>>)
  <2>1. q = [p EXCEPT !.at = at, !.headers = headers]
    BY <1>1, <1>3 DEF After, AfterHeader, InHeaders, UrlStates, UrlEnds
  <2> HIDE DEF q, headers
  <2>2. /\ DOMAIN q = DOMAIN Fresh /\ q.at = at /\ q.url = p.url
        /\ q.headers = headers /\ q.body = p.body /\ q.left = p.left /\ q.flags = p.flags
    BY <1>1, <2>1, FreshFields
  <2>3. Go("header_value_discard_lws") /\ UNCHANGED <<mark, rs, calls, died>>
    BY <1>3 DEF HeaderValueDiscardWs, outcome
  <2>4. /\ parser'.state = "header_value_discard_lws" /\ parser'.name = p.name
        /\ parser'.length = parser.length /\ parser'.flags = parser.flags
        /\ parser'.error = parser.error
    BY <1>1, <2>3, GoFields DEF Following
  <2>5. /\ ParserNow' = parser' /\ ParserNow = parser /\ RequestNow = rs
        /\ BodyRead(q.body)'
    BY <1>1, <2>2, <2>3, <2>4, NothingPending, NothingPendingNext, BodyStill DEF Following
  <2>6. RequestNow' = OnHeaderValue(rs, <<>>)
    BY <2>3, <2>4 DEF RequestNow
  <2>7. At(q)'
    BY <2>2, <2>4 DEF At
  <2>8. torn \/ Whole(q)'
    <3>1. torn \/ (rs.url = {p.url} /\ rs.headers = p.headers /\ rs.current = {p.name})
      BY <1>1, <2>5 DEF Following, Whole, UrlStates, UrlEnds
    <3>2. torn \/ OnHeaderValue(rs, <<>>).headers = headers
      BY <3>1 DEF OnHeaderValue, Stored, Shape, Collected, headers
    <3> QED
      BY <2>2, <2>3, <2>6, <3>1, <3>2 DEF Whole, UrlStates, UrlEnds
  <2>9. Following(q)'
    BY <1>1, <2>2, <2>3, <2>4, <2>5, <2>7, <2>8 DEF Following
  <2>10. Current(q)'
    BY <2>2, <2>9 DEF Current
  <2> QED
    BY <2>10 DEF q
<1>4. CASE b \notin {" ", "NL"}
  <2> DEFINE m == Marked("value", b)
  <2>1. After(p, b) = AfterValue(p, <<>>, b)
    BY <1>1, <1>4 DEF After, AfterHeader, InHeaders, UrlStates, UrlEnds
  <2>2. ValueOctet(b, <<>>, m) /\ UNCHANGED <<rs, outcome>>
    BY <1>4 DEF HeaderValueDiscardWs
  <2>3. m = [item |-> "value", text |-> Append(<<>>, b)]
    BY DEF Marked
  <2>4. DOMAIN m = {"item", "text"} /\ m.item = "value"
    BY DEF Marked
  <2> HIDE DEF m
  <2> QED
    BY <1>1, <2>1, <2>2, <2>3, <2>4, ValueOctetStep
<1> QED
  BY <1>2, <1>3, <1>4

LEMMA HeaderValueStep ==
  ASSUME ParserInv, Shape, NEW CONSTANT p, Following(p), NEW CONSTANT b \in Octets,
         HeaderValue(b), UNCHANGED <<asked, torn>>
  PROVE  Current(After(p, b))'
<1>1. /\ p.at = "header_value" /\ p.at = parser.state /\ mark.item \in {"none", "value"}
      /\ DOMAIN p = DOMAIN Fresh /\ parser.value = p.value
  BY DEF HeaderValue, Following, ParserInv, At, UrlStates, UrlEnds
<1>2. CASE b = "NL"
  <2> DEFINE q == After(p, b)
             headers == Stored(p.headers, p.name, p.value)
             flags == p.flags \cup Said(p.name, p.value)
  <2>1. q = [p EXCEPT !.at = "line", !.headers = headers, !.flags = flags]
    BY <1>1, <1>2 DEF After, AfterHeader, InHeaders, UrlStates, UrlEnds
  <2> HIDE DEF q, headers, flags
  <2>2. /\ DOMAIN q = DOMAIN Fresh /\ q.at = "line" /\ q.url = p.url
        /\ q.headers = headers /\ q.body = p.body /\ q.left = p.left /\ q.flags = flags
    BY <1>1, <2>1, FreshFields
  <2>3. /\ Go("header_value_lws") /\ rs' = HandOver(rs, mark) /\ mark' = NoMark
        /\ UNCHANGED <<calls, died>>
    BY <1>2 DEF HeaderValue, Collect, outcome
  <2>4. /\ parser'.state = "header_value_lws" /\ parser'.name = p.name
        /\ parser'.value = p.value
        /\ parser'.length = parser.length /\ parser'.flags = parser.flags
        /\ parser'.error = parser.error /\ DOMAIN parser' = DOMAIN parser
    BY <1>1, <2>3, GoFields DEF Following, Go, ParserInv
  <2>5. /\ ParserNow = parser /\ RequestNow = rs /\ RequestNow' = rs'
    BY <1>1, <2>3, <2>4, NothingPending, NothingPendingNext
  <2>6. ParserNow'.flags = flags
    <3>1. ParserNow' = [parser' EXCEPT !.flags = LineFlags']
      BY <2>4 DEF ParserNow
    <3>2. ParserNow'.flags = LineFlags'
      BY <2>4, <3>1 DEF ParserInv
    <3>3. parser.flags = p.flags
      BY <1>1, <2>5 DEF Following
    <3>4. LineFlags' = flags
      BY <2>4, <3>3 DEF LineFlags, flags
    <3> QED
      BY <3>2, <3>4
  <2>7. At(q)'
    BY <2>2, <2>4 DEF At
  <2>8. torn \/ Whole(q)'
    <3>1. torn \/ (rs.url = {p.url} /\ rs.headers = p.headers /\ rs.current = {p.name})
      BY <1>1, <2>5 DEF Following, Whole, UrlStates, UrlEnds
    <3>2. torn \/ rs' = OnHeaderValue(rs, p.value)
      BY <1>1, <2>3 DEF Following, Whole, HandOver, UrlStates, UrlEnds
    <3>3. torn \/ (rs'.url = {p.url} /\ rs'.headers = headers)
      <4>1. torn \/ OnHeaderValue(rs, p.value).headers = headers
        BY <3>1 DEF OnHeaderValue, Stored, Shape, Collected, headers
      <4>2. OnHeaderValue(rs, p.value).url = rs.url
        BY DEF OnHeaderValue, Shape, Collected
      <4> QED
        BY <3>1, <3>2, <4>1, <4>2
    <3> QED
      BY <2>2, <2>5, <3>3 DEF Whole, UrlStates, UrlEnds
  <2>9. BodyRead(q.body)'
    BY <1>1, <2>2, <2>3, HandOverBody, BodyStays DEF Following, NoMark, Shape, Collected
  <2>10. Following(q)'
    BY <1>1, <2>2, <2>3, <2>4, <2>5, <2>6, <2>7, <2>8, <2>9 DEF Following
  <2>11. Current(q)'
    BY <2>2, <2>10 DEF Current
  <2> QED
    BY <2>11 DEF q
<1>3. CASE b = "NUL"
  <2>1. After(p, b) = Refused(p)
    BY <1>1, <1>3 DEF After, AfterHeader, InHeaders, UrlStates, UrlEnds
  <2>2. Fail /\ UNCHANGED outcome
    BY <1>3 DEF HeaderValue
  <2> QED
    BY <2>1, <2>2, FailCurrent
<1>4. CASE b \notin {"NL", "NUL"}
  <2> DEFINE m == Grown(mark, b)
  <2>1. After(p, b) = AfterValue(p, p.value, b)
    BY <1>1, <1>4 DEF After, AfterHeader, InHeaders, UrlStates, UrlEnds
  <2>2. ValueOctet(b, p.value, m) /\ UNCHANGED <<rs, outcome>>
    BY <1>1, <1>4 DEF HeaderValue
  <2>3. torn \/ m = [item |-> "value", text |-> Append(p.value, b)]
    <3>1. torn \/ mark = [item |-> "value", text |-> p.value]
      BY <1>1 DEF Following, Whole, UrlStates, UrlEnds
    <3> QED
      BY <3>1, MarkGrown
  <2>4. DOMAIN m = {"item", "text"} /\ m.item = mark.item
    BY DEF Grown, ParserInv
  <2> HIDE DEF m
  <2> QED
    BY <1>1, <2>1, <2>2, <2>3, <2>4, ValueOctetStep
<1> QED
  BY <1>2, <1>3, <1>4

-----------------------------------------------------------------------------
(* The body.                                                               *)

LEMMA CStringIs ==
  ASSUME NEW text \in Seq(Octets)
  PROVE  /\ CString(text) \in Seq(Octets)
         /\ Len(CString(text)) = Strlen(text)
         /\ \A i \in 1..Strlen(text) : CString(text)[i] = text[i]
<1>1. Strlen(text) \in 0..Len(text)
  BY StrlenIs
<1> QED
  BY <1>1 DEF CString

LEMMA ConcatIs ==
  ASSUME NEW a \in Seq(Octets), NEW c \in Seq(Octets)
  PROVE  /\ a \o c \in Seq(Octets)
         /\ Len(a \o c) = Len(a) + Len(c)
         /\ \A i \in 1..Len(a) : (a \o c)[i] = a[i]
         /\ \A i \in 1..Len(c) : (a \o c)[Len(a) + i] = c[i]
  OBVIOUS

\* The octets up to the first NUL of two texts, one after the other.
LEMMA KeptPair ==
  ASSUME NEW k \in Seq(Octets), NEW s \in Seq(Octets), NEW text \in Seq(Octets),
         Strlen(s) <= Len(k), Len(k) <= Len(s), \A i \in 1..Strlen(s) : k[i] = s[i]
  PROVE  LET x == k \o CString(text)
             y == s \o text
         IN  /\ Strlen(y) <= Len(x) /\ Len(x) <= Len(y)
             /\ \A i \in 1..Strlen(y) : x[i] = y[i]
<1> DEFINE t == CString(text)
           x == k \o t
           y == s \o text
           m == Strlen(s)
           n == Strlen(text)
<1>1. /\ m \in 0..Len(s) /\ \A i \in 1..m : s[i] # "NUL"
      /\ m = Len(s) \/ s[m + 1] = "NUL"
  BY StrlenIs
<1>2. /\ n \in 0..Len(text) /\ \A i \in 1..n : text[i] # "NUL"
      /\ n = Len(text) \/ text[n + 1] = "NUL"
  BY StrlenIs
<1>3. t \in Seq(Octets) /\ Len(t) = n /\ \A i \in 1..n : t[i] = text[i]
  BY CStringIs
<1>4. m <= Len(k) /\ Len(k) <= Len(s) /\ \A i \in 1..m : k[i] = s[i]
  OBVIOUS
<1>9. Len(k) \in Nat /\ Len(s) \in Nat /\ Len(text) \in Nat
  OBVIOUS
<1> HIDE DEF t, m, n
<1>5. /\ y \in Seq(Octets) /\ Len(y) = Len(s) + Len(text) /\ Len(x) = Len(k) + n
      /\ \A i \in 1..Len(s) : y[i] = s[i]
      /\ \A i \in 1..Len(text) : y[Len(s) + i] = text[i]
      /\ \A i \in 1..Len(k) : x[i] = k[i]
      /\ \A i \in 1..n : x[Len(k) + i] = t[i]
  BY <1>3, ConcatIs
<1> HIDE DEF x, y
<1>6. Len(x) <= Len(y)
  BY <1>2, <1>4, <1>5
<1>7. CASE m < Len(s)
  <2>1. Strlen(y) = m
    <3>1. ASSUME NEW i \in 1..m
          PROVE  y[i] # "NUL"
      <4>1. i \in 1..Len(s)
        BY <1>1, <1>9
      <4> QED
        BY <1>1, <1>5, <4>1
    <3>2. y[m + 1] = "NUL" /\ m \in 0..Len(y)
      <4>1. m + 1 \in 1..Len(s) /\ m # Len(s) /\ m \in 0..(Len(s) + Len(text))
        BY <1>1, <1>7, <1>9
      <4>2. y[m + 1] = s[m + 1]
        BY <1>5, <4>1
      <4>3. m \in 0..Len(y)
        BY <1>5, <4>1
      <4> QED
        BY <1>1, <4>1, <4>2, <4>3
    <3> QED
      BY <1>5, <3>1, <3>2, StrlenOf
  <2>2. m <= Len(x) /\ \A i \in 1..m : x[i] = y[i]
    <3>1. m \in Nat /\ n \in Nat /\ m <= Len(k)
      BY <1>1, <1>2, <1>4
    <3>2. m <= Len(k) + n
      BY <1>9, <3>1
    <3>3. ASSUME NEW i \in 1..m
          PROVE  x[i] = y[i]
      <4>1. i \in 1..Len(k) /\ i \in 1..Len(s)
        BY <1>7, <1>9, <3>1
      <4> QED
        BY <1>4, <1>5, <4>1
    <3>4. m <= Len(x)
      BY <1>5, <3>2
    <3> QED
      BY <3>3, <3>4
  <2> QED
    BY <1>6, <2>1, <2>2 DEF x, y, t
<1>8. CASE m = Len(s)
  <2>1. Len(k) = Len(s)
    BY <1>4, <1>8
  <2>2. ASSUME NEW i \in 1..(Len(s) + n)
        PROVE  x[i] = y[i] /\ y[i] # "NUL"
    <3>1. CASE i <= Len(s)
      BY <1>1, <1>4, <1>5, <1>8, <2>1, <3>1
    <3>2. CASE i > Len(s)
      <4>1. i - Len(s) \in 1..n /\ i - Len(s) \in 1..Len(text) /\ i = Len(s) + (i - Len(s))
        BY <1>2, <3>2
      <4>2. y[i] = text[i - Len(s)] /\ x[i] = t[i - Len(s)]
        BY <1>5, <2>1, <4>1
      <4> QED
        BY <1>2, <1>3, <4>1, <4>2
    <3> QED
      BY <3>1, <3>2
  <2>3. Strlen(y) = Len(s) + n
    <3>1. Len(s) + n \in 0..Len(y)
      BY <1>2, <1>5
    <3>2. Len(s) + n = Len(y) \/ y[(Len(s) + n) + 1] = "NUL"
      <4>1. CASE n = Len(text)
        BY <1>5, <4>1
      <4>2. CASE n # Len(text)
        <5>1. n + 1 \in 1..Len(text) /\ (Len(s) + n) + 1 = Len(s) + (n + 1)
          BY <1>2, <4>2
        <5> QED
          BY <1>2, <1>5, <4>2, <5>1
      <4> QED
        BY <4>1, <4>2
    <3>3. \A i \in 1..(Len(s) + n) : y[i] # "NUL"
      BY <2>2
    <3> QED
      BY <1>5, <3>1, <3>2, <3>3, StrlenOf
  <2>4. Len(x) = Len(s) + n
    BY <1>5, <2>1
  <2>5. \A i \in 1..Strlen(y) : x[i] = y[i]
    BY <2>2, <2>3
  <2>6. Strlen(y) <= Len(x)
    BY <1>2, <2>3, <2>4
  <2> QED
    BY <1>6, <2>5, <2>6 DEF x, y, t
<1>10. m < Len(s) \/ m = Len(s)
  BY <1>1, <1>9
<1> QED
  BY <1>7, <1>8, <1>10

\* What OnBody keeps of a piece.
LEMMA KeptJoined ==
  ASSUME NEW kept \in SUBSET Seq(Octets), NEW before \in SUBSET Seq(Octets),
         NEW text \in Seq(Octets), Kept(kept, before)
  PROVE  Kept(IF kept = Null THEN {CString(text)} ELSE {x \o CString(text) : x \in kept},
              Joined(before, text))
<1>1. CASE before = Null
  <2>1. kept = Null /\ Joined(before, text) = {text}
    BY <1>1 DEF Kept, Joined
  <2>2. /\ Strlen(text) <= Len(CString(text)) /\ Len(CString(text)) <= Len(text)
        /\ \A i \in 1..Strlen(text) : CString(text)[i] = text[i]
    BY CStringIs, StrlenIs
  <2>3. Kept({CString(text)}, {text})
    BY <2>2 DEF Kept, Null
  <2> QED
    BY <2>1, <2>3
<1>2. CASE before # Null
  <2> DEFINE more == {x \o CString(text) : x \in kept}
             joined == {s \o text : s \in before}
  <2>1. kept # Null /\ Joined(before, text) = joined
    BY <1>2 DEF Kept, Joined
  <2>2. more # {} /\ joined # {}
    BY <1>2, <2>1 DEF Null
  <2>3. ASSUME NEW m \in more, NEW j \in joined
        PROVE  /\ Strlen(j) <= Len(m) /\ Len(m) <= Len(j)
               /\ \A i \in 1..Strlen(j) : m[i] = j[i]
    <3>1. PICK k \in kept : m = k \o CString(text)
      OBVIOUS
    <3>2. PICK s \in before : j = s \o text
      OBVIOUS
    <3>3. /\ Strlen(s) <= Len(k) /\ Len(k) <= Len(s)
          /\ \A i \in 1..Strlen(s) : k[i] = s[i]
      BY DEF Kept
    <3>4. k \in Seq(Octets) /\ s \in Seq(Octets)
      OBVIOUS
    <3> QED
      BY <3>1, <3>2, <3>3, <3>4, KeptPair
  <2> HIDE DEF more, joined
  <2>4. Kept(more, joined)
    BY <2>2, <2>3 DEF Kept, Null
  <2> QED
    BY <2>1, <2>4 DEF more
<1> QED
  BY <1>1, <1>2

\* One octet more.
LEMMA JoinedMore ==
  ASSUME NEW before \in SUBSET Seq(Octets), NEW text \in Seq(Octets), NEW b \in Octets
  PROVE  /\ Joined(before, Append(text, b)) = More(Joined(before, text), b)
         /\ Joined(before, <<b>>) = More(before, b)
<1>1. CASE before = Null
  BY <1>1 DEF Joined, More, Null
<1>2. CASE before # Null
  <2>1. /\ Joined(before, Append(text, b)) = {s \o Append(text, b) : s \in before}
        /\ Joined(before, text) = {s \o text : s \in before}
        /\ Joined(before, <<b>>) = {s \o <<b>> : s \in before}
    BY <1>2 DEF Joined
  <2>2. /\ \A s \in before : s \o Append(text, b) = Append(s \o text, b)
        /\ \A s \in before : s \o <<b>> = Append(s, b)
    OBVIOUS
  <2>3. {s \o text : s \in before} # {}
    BY <1>2 DEF Null
  <2>4. {s \o Append(text, b) : s \in before} = {Append(y, b) : y \in {s \o text : s \in before}}
    <3> DEFINE u == Append(text, b)
    <3>1. \A s \in before : s \o u = Append(s \o text, b)
      BY <2>2
    <3> HIDE DEF u
    <3>2. {s \o u : s \in before} = {Append(y, b) : y \in {s \o text : s \in before}}
      BY <3>1
    <3> QED
      BY <3>2 DEF u
  <2>5. {s \o <<b>> : s \in before} = {Append(s, b) : s \in before}
    BY <2>2
  <2> QED
    BY <1>2, <2>1, <2>3, <2>4, <2>5 DEF More, Null
<1> QED
  BY <1>1, <1>2

LEMMA MoreOctets ==
  ASSUME NEW sent \in SUBSET Seq(Octets), NEW b \in Octets
  PROVE  More(sent, b) \in SUBSET Seq(Octets)
  BY DEF More

\* Handing over a body, as far as it is marked.
LEMMA BodyHanded ==
  ASSUME Shape, NEW sent, NEW before \in SUBSET Seq(Octets), NEW m,
         m.item = "body", m.text \in Seq(Octets),
         Kept(rs.body, before), sent = Joined(before, m.text)
  PROVE  LET r == HandOver(rs, m) IN
           /\ Kept(r.body, sent)
           /\ DOMAIN r = DOMAIN rs /\ r.url = rs.url /\ r.headers = rs.headers
<1>1. HandOver(rs, m) = OnBody(rs, m.text)
  BY DEF HandOver
<1>2. /\ OnBody(rs, m.text).body =
           IF rs.body = Null THEN {CString(m.text)} ELSE {x \o CString(m.text) : x \in rs.body}
      /\ DOMAIN OnBody(rs, m.text) = DOMAIN rs /\ OnBody(rs, m.text).url = rs.url
      /\ OnBody(rs, m.text).headers = rs.headers
  BY DEF OnBody, Shape, Collected
<1>3. rs.body \in SUBSET Seq(Octets)
  BY DEF Shape, Collected
<1> QED
  BY <1>1, <1>2, <1>3, KeptJoined

\* The mark of a body with one octet more follows what was handed over before.
LEMMA BodyGrows ==
  ASSUME ParserInv, Shape, mark.item \in {"none", "body"}, NEW b \in Octets,
         NEW CONSTANT sent, BodyRead(sent)
  PROVE  /\ BodyMark(b).item = "body" /\ BodyMark(b).text \in Seq(Octets)
         /\ More(sent, b) \in SUBSET Seq(Octets)
         /\ \E before \in SUBSET Seq(Octets) :
              Kept(rs.body, before) /\ More(sent, b) = Joined(before, BodyMark(b).text)
<1>1. sent \in SUBSET Seq(Octets)
  BY DEF BodyRead
<1>2. More(sent, b) \in SUBSET Seq(Octets)
  BY <1>1, MoreOctets
<1>3. CASE mark.item = "none"
  <2>1. BodyMark(b) = [item |-> "body", text |-> <<b>>]
    BY <1>3 DEF BodyMark, Marked
  <2>2. Kept(rs.body, sent)
    BY <1>3 DEF BodyRead
  <2>3. More(sent, b) = Joined(sent, <<b>>)
    BY <1>1, JoinedMore DEF Shape
  <2> QED
    BY <1>1, <1>2, <2>1, <2>2, <2>3
<1>4. CASE mark.item = "body"
  <2>1. BodyMark(b).item = "body" /\ BodyMark(b).text = Append(mark.text, b)
    BY <1>4 DEF BodyMark, Grown, ParserInv
  <2>2. PICK before \in SUBSET Seq(Octets) :
          Kept(rs.body, before) /\ sent = Joined(before, mark.text)
    BY <1>4 DEF BodyRead
  <2>3. mark.text \in Seq(Octets)
    BY DEF Shape
  <2>4. More(sent, b) = Joined(before, Append(mark.text, b))
    BY <2>2, <2>3, JoinedMore
  <2> QED
    BY <1>2, <2>1, <2>2, <2>3, <2>4
<1> QED
  BY <1>3, <1>4

\* The items that can be marked.
Items == {"url", "field", "value", "body", "none"}

\* What REST_URL has collected keeps its shape.
LEMMA CallbackShape ==
  ASSUME NEW r, Collected(r)
  PROVE  /\ \A m : m.text \in Seq(Octets) /\ m.item \in Items => Collected(HandOver(r, m))
         /\ Collected(Cleared)
         /\ Collected(OnHeaderValue(r, <<>>))
         /\ Collected(OnHeadersComplete(r))
         /\ Collected(Freed(r))
<1>1. ASSUME NEW m, m.text \in Seq(Octets), m.item \in Items
      PROVE  Collected(HandOver(r, m))
  <2>1. CASE m.item = "body"
    <3>1. HandOver(r, m) = OnBody(r, m.text)
      BY <2>1 DEF HandOver
    <3> DEFINE t == CString(m.text)
    <3>5. t \in Seq(Octets)
      BY <1>1, CStringIs
    <3>3. OnBody(r, m.text).body = IF r.body = {} THEN {t} ELSE {x \o t : x \in r.body}
      BY DEF OnBody, Null, Collected
    <3> HIDE DEF t
    <3>2. \A x \in r.body : x \o t \in Seq(Octets)
      BY <3>5 DEF Collected
    <3>4. OnBody(r, m.text).body \subseteq Seq(Octets)
      <4>1. CASE r.body = {}
        BY <3>3, <3>5, <4>1
      <4>2. CASE r.body # {}
        <5>1. OnBody(r, m.text).body = {x \o t : x \in r.body}
          BY <3>3, <4>2
        <5> QED
          BY <3>2, <5>1
      <4> QED
        BY <4>1, <4>2
    <3> QED
      BY <3>1, <3>4 DEF OnBody, Collected
  <2>2. CASE m.item # "body"
    BY <1>1, <2>2 DEF Items, HandOver, OnUrl, OnHeaderField, OnHeaderValue, Collected
  <2> QED
    BY <2>1, <2>2
<1>2. Collected(Cleared)
  BY DEF Cleared, Collected, Null
<1>3. Collected(OnHeaderValue(r, <<>>)) /\ Collected(OnHeadersComplete(r)) /\ Collected(Freed(r))
  BY DEF OnHeaderValue, OnHeadersComplete, Freed, Collected, Null
<1> QED
  BY <1>1, <1>2, <1>3

\* What an octet of a body makes of a point.
LEMMA AfterBodyFields ==
  ASSUME NEW p, NEW b, p.at \in {"body_identity", "chunk_data"}, DOMAIN p = DOMAIN Fresh
  PROVE  LET q == After(p, b) IN
           /\ DOMAIN q = DOMAIN Fresh /\ q.url = p.url /\ q.headers = p.headers
           /\ q.body = More(p.body, b) /\ q.left = p.left - 1 /\ q.flags = p.flags
           /\ q.at = IF p.left > 1 THEN p.at
                     ELSE IF p.at = "chunk_data" THEN "chunk_data_almost_done" ELSE "done"
<1> DEFINE at == IF p.left > 1 THEN p.at
                 ELSE IF p.at = "chunk_data" THEN "chunk_data_almost_done" ELSE "done"
           body == More(p.body, b)
           q == After(p, b)
<1>1. q = [p EXCEPT !.body = body, !.left = @ - 1, !.at = at]
  BY DEF After, AfterBody, InHeaders, UrlStates, UrlEnds
<1> HIDE DEF at, body, q
<1>2. /\ DOMAIN q = DOMAIN Fresh /\ q.url = p.url /\ q.headers = p.headers
      /\ q.body = body /\ q.left = p.left - 1 /\ q.flags = p.flags /\ q.at = at
  BY <1>1, FreshFields
<1> QED
  BY <1>2 DEF at, body, q

\* The mark of a body has grown, and more of it is to come.
LEMMA BodyMarkStep ==
  ASSUME ParserInv, Shape, NEW CONSTANT p, Following(p), NEW CONSTANT b \in Octets,
         NEW CONSTANT q, q = After(p, b),
         p.at \in {"body_identity", "chunk_data"}, parser.state = p.at,
         parser'.state = q.at, q.at # "done", parser'.length = parser.length - 1,
         parser'.flags = parser.flags, parser'.error = parser.error,
         mark' = BodyMark(b), UNCHANGED <<rs, calls, died, asked, torn>>
  PROVE  Current(q)'
<1>1. /\ DOMAIN q = DOMAIN Fresh /\ q.url = p.url /\ q.headers = p.headers
      /\ q.body = More(p.body, b) /\ q.left = p.left - 1 /\ q.flags = p.flags
      /\ q.at \in {"body_identity", "chunk_data", "chunk_data_almost_done"}
  BY AfterBodyFields DEF Following
<1>2. mark.item \in {"none", "body"}
  BY DEF ParserInv, UrlStates, UrlEnds
<1>3. ParserNow = parser /\ RequestNow = rs /\ ParserNow' = parser' /\ RequestNow' = rs
  BY <1>1, NothingPending, NothingPendingNext
<1>4. BodyRead(q.body)'
  <2>1. BodyRead(p.body)
    BY DEF Following
  <2>2. /\ BodyMark(b).item = "body" /\ More(p.body, b) \in SUBSET Seq(Octets)
        /\ \E before \in SUBSET Seq(Octets) :
             Kept(rs.body, before) /\ More(p.body, b) = Joined(before, BodyMark(b).text)
    BY <1>2, <2>1, BodyGrows
  <2>3. q.body = More(p.body, b) /\ mark' = BodyMark(b) /\ rs' = rs
    BY <1>1
  <2> QED
    BY <2>2, <2>3 DEF BodyRead
<1>5. At(q)'
  BY <1>1 DEF At, ParserStates
<1>6. torn \/ Whole(q)'
  BY <1>1, <1>3 DEF Following, Whole, UrlStates, UrlEnds
<1>7. Following(q)'
  BY <1>1, <1>3, <1>4, <1>5, <1>6 DEF Following
<1> QED
  BY <1>1, <1>7 DEF Current

LEMMA BodyIdentityStep ==
  ASSUME ParserInv, Shape, asked \in Seq(Requests), NEW CONSTANT p, Following(p),
         NEW CONSTANT b \in Octets, BodyIdentity(b), UNCHANGED <<asked, torn>>
  PROVE  Current(After(p, b))' /\ Handed(After(p, b))
<1>1. /\ p.at = "body_identity" /\ p.at = parser.state /\ mark.item \in {"none", "body"}
      /\ DOMAIN p = DOMAIN Fresh /\ parser.length \in Nat
  BY DEF BodyIdentity, Following, ParserInv, At, UrlStates, UrlEnds
<1>2. ParserNow = parser /\ RequestNow = rs
  BY <1>1, NothingPending
<1>3. parser.length = p.left /\ parser.flags = p.flags
  BY <1>1, <1>2 DEF Following
<1> DEFINE q == After(p, b)
<1>4. /\ DOMAIN q = DOMAIN Fresh /\ q.url = p.url /\ q.headers = p.headers
      /\ q.body = More(p.body, b) /\ q.left = p.left - 1 /\ q.flags = p.flags
      /\ q.at = IF p.left > 1 THEN "body_identity" ELSE "done"
  <2> HIDE DEF q
  <2>1. q.at = IF p.left > 1 THEN p.at
               ELSE IF p.at = "chunk_data" THEN "chunk_data_almost_done" ELSE "done"
    BY <1>1, AfterBodyFields DEF q
  <2> QED
    BY <1>1, <2>1, AfterBodyFields DEF q
<1> HIDE DEF q
<1>5. CASE parser.length = 1
  <2> DEFINE r == HandOver(rs, BodyMark(b))
  <2>1. /\ parser' = [parser EXCEPT !.state = NewMessage(parser), !.length = 0]
        /\ MessageComplete(r)
    BY <1>5 DEF BodyIdentity
  <2>2. q.at = "done"
    BY <1>3, <1>4, <1>5
  <2>3. /\ parser'.error = FALSE
        /\ parser'.state = IF Closes(q) THEN "dead" ELSE "start_req"
    <3>1. parser'.error = parser.error /\ parser'.state = NewMessage(parser)
      BY <2>1 DEF ParserInv
    <3>2. parser.error = FALSE
      BY DEF Shape, Collected, Following
    <3>3. NewMessage(parser) = IF Closes(q) THEN "dead" ELSE "start_req"
      BY <1>3, <1>4 DEF NewMessage, Closes
    <3> QED
      BY <3>1, <3>2, <3>3
  <2>4. /\ Kept(r.body, q.body) /\ Collected(r) /\ q.body \subseteq Seq(Octets)
        /\ DOMAIN r = DOMAIN rs /\ r.url = rs.url /\ r.headers = rs.headers
    <3>1. BodyRead(p.body)
      BY DEF Following
    <3>2. /\ BodyMark(b).item = "body" /\ BodyMark(b).text \in Seq(Octets)
          /\ q.body \in SUBSET Seq(Octets)
          /\ \E before \in SUBSET Seq(Octets) :
               Kept(rs.body, before) /\ q.body = Joined(before, BodyMark(b).text)
      BY <1>1, <1>4, <3>1, BodyGrows
    <3>3. Collected(r)
      BY <3>2, CallbackShape DEF Shape, Items
    <3> HIDE DEF r
    <3>4. /\ Kept(r.body, q.body)
          /\ DOMAIN r = DOMAIN rs /\ r.url = rs.url /\ r.headers = rs.headers
      BY <3>2, BodyHanded DEF r
    <3> QED
      BY <3>2, <3>3, <3>4
  <2> HIDE DEF r
  <2>5. /\ Collected(r) /\ Kept(r.body, q.body) /\ q.body \subseteq Seq(Octets)
        /\ torn \/ (r.url = {q.url} /\ r.headers = q.headers)
    BY <1>1, <1>2, <1>4, <2>4 DEF Shape, Collected, Following, Whole, UrlStates, UrlEnds
  <2>6. Current(q)' /\ Handed(q)
    BY <2>1, <2>2, <2>3, <2>5, CompleteStep DEF Following
  <2> QED
    BY <2>6 DEF q
<1>6. CASE parser.length > 1
  <2>1. /\ parser' = [parser EXCEPT !.length = @ - 1] /\ mark' = BodyMark(b)
        /\ UNCHANGED <<rs, calls, died>>
    BY <1>6 DEF BodyIdentity, outcome
  <2>2. /\ parser'.state = "body_identity" /\ parser'.length = parser.length - 1
        /\ parser'.flags = parser.flags /\ parser'.error = parser.error
    BY <1>1, <2>1 DEF ParserInv
  <2>3. q.at = "body_identity"
    BY <1>3, <1>4, <1>6
  <2>4. Current(q)'
    BY <1>1, <2>1, <2>2, <2>3, BodyMarkStep DEF q
  <2> QED
    BY <2>1, <2>4 DEF q, Handed, outcome
<1> QED
  BY <1>5, <1>6 DEF BodyIdentity

LEMMA ChunkDataStep ==
  ASSUME ParserInv, Shape, NEW CONSTANT p, Following(p), NEW CONSTANT b \in Octets,
         ChunkData(b), UNCHANGED <<asked, torn>>
  PROVE  Current(After(p, b))'
<1>1. /\ p.at \in {"chunk_data", "chunk_data_almost_done"} /\ p.at = parser.state
      /\ mark.item \in {"none", "body"} /\ DOMAIN p = DOMAIN Fresh
  BY DEF ChunkData, Following, ParserInv, At, UrlStates, UrlEnds
<1>2. ParserNow = parser /\ RequestNow = rs
  BY <1>1, NothingPending
<1>3. parser.length = p.left /\ parser.flags = p.flags
  BY <1>1, <1>2 DEF Following
<1> DEFINE q == After(p, b)
<1>4. CASE p.at = "chunk_data"
  <2>1. parser.length \in Nat /\ parser.length > 0
    BY <1>1, <1>4 DEF ParserInv
  <2>2. q.at = IF p.left > 1 THEN p.at
               ELSE IF p.at = "chunk_data" THEN "chunk_data_almost_done" ELSE "done"
    BY <1>1, <1>4, AfterBodyFields
  <2> HIDE DEF q
  <2>3. q.at = IF parser.length = 1 THEN "chunk_data_almost_done" ELSE "chunk_data"
    BY <1>3, <1>4, <2>1, <2>2
  <2>4. /\ parser' = [parser EXCEPT !.length = @ - 1,
                        !.state = IF parser.length = 1 THEN "chunk_data_almost_done" ELSE @]
        /\ mark' = BodyMark(b) /\ UNCHANGED <<rs, calls, died>>
    BY <1>1, <1>4 DEF ChunkData, outcome
  <2>5. /\ parser'.state = q.at /\ parser'.length = parser.length - 1
        /\ parser'.flags = parser.flags /\ parser'.error = parser.error
    BY <1>1, <1>4, <2>3, <2>4 DEF ParserInv
  <2> QED
    BY <1>1, <1>4, <2>3, <2>4, <2>5, BodyMarkStep DEF q
<1>5. CASE p.at = "chunk_data_almost_done" /\ b = "NL"
  <2>1. q = Moved(p, "chunk_size_start")
    BY <1>5 DEF After, AfterBody, InHeaders, UrlStates, UrlEnds
  <2>2. /\ Go("chunk_size_start") /\ rs' = HandOver(rs, mark) /\ mark' = NoMark
        /\ UNCHANGED <<calls, died>>
    BY <1>1, <1>5 DEF ChunkData, Collect, outcome
  <2> HIDE DEF q
  <2>3. /\ DOMAIN q = DOMAIN Fresh /\ q.at = "chunk_size_start" /\ q.url = p.url
        /\ q.headers = p.headers /\ q.body = p.body
        /\ q.left = p.left /\ q.flags = p.flags
    BY <1>1, <2>1, MovedFields
  <2>4. /\ parser'.state = "chunk_size_start" /\ parser'.length = parser.length
        /\ parser'.flags = parser.flags /\ parser'.error = parser.error
    BY <2>2, GoFields
  <2>5. ParserNow' = parser' /\ RequestNow' = rs'
    BY <2>2, <2>4, NothingPendingNext
  <2>6. rs'.url = rs.url /\ rs'.headers = rs.headers /\ BodyRead(q.body)'
    <3>1. CASE mark.item = "none"
      <4>1. rs' = rs /\ mark'.item = "none"
        BY <2>2, <3>1 DEF HandOver, NoMark
      <4> QED
        BY <2>3, <3>1, <4>1, BodyStays DEF Following
    <3>2. CASE mark.item = "body"
      <4>1. PICK before \in SUBSET Seq(Octets) :
              Kept(rs.body, before) /\ q.body = Joined(before, mark.text)
        BY <2>3, <3>2 DEF Following, BodyRead
      <4>2. /\ Kept(rs'.body, q.body)
            /\ rs'.url = rs.url /\ rs'.headers = rs.headers
        BY <2>2, <3>2, <4>1, BodyHanded DEF Shape
      <4>3. q.body \subseteq Seq(Octets) /\ mark'.item = "none"
        BY <2>2, <2>3 DEF Following, BodyRead, NoMark
      <4> QED
        BY <4>2, <4>3 DEF BodyRead
    <3> QED
      BY <1>1, <3>1, <3>2
  <2>7. At(q)'
    BY <2>3, <2>4 DEF At, ParserStates
  <2>8. torn \/ Whole(q)'
    BY <1>2, <1>5, <2>3, <2>5, <2>6 DEF Following, Whole, UrlStates, UrlEnds
  <2>9. Following(q)'
    BY <1>2, <1>5, <2>2, <2>3, <2>4, <2>5, <2>6, <2>7, <2>8 DEF Following
  <2>10. Current(q)'
    BY <2>3, <2>9 DEF Current
  <2> QED
    BY <2>10 DEF q
<1>6. CASE p.at = "chunk_data_almost_done" /\ b # "NL"
  <2>1. q = Refused(p)
    BY <1>6 DEF After, AfterBody, InHeaders, UrlStates, UrlEnds
  <2>2. Fail /\ UNCHANGED outcome
    BY <1>1, <1>6 DEF ChunkData
  <2> QED
    BY <2>1, <2>2, FailCurrent
<1> QED
  BY <1>1, <1>4, <1>5, <1>6

LEMMA ChunkSizeStep ==
  ASSUME ParserInv, Shape, NEW CONSTANT p, Following(p), NEW CONSTANT b \in Octets,
         ChunkSize(b), UNCHANGED <<asked, torn>>
  PROVE  Current(After(p, b))'
<1>1. /\ p.at \in {"chunk_size_start", "chunk_size", "chunk_parameters"} /\ p.at = parser.state
      /\ mark.item = "none" /\ DOMAIN p = DOMAIN Fresh /\ p.left \in Nat
      /\ parser.length = p.left
  BY DEF ChunkSize, Following, ParserInv, At, UrlStates, UrlEnds
<1>2. ParserNow = parser /\ RequestNow = rs /\ parser.flags = p.flags
  <2>1. ParserNow = parser /\ RequestNow = rs
    BY <1>1, NothingPending
  <2> QED
    BY <1>1, <2>1 DEF Following
<1>3. UNCHANGED <<mark, rs, calls, died>>
  BY DEF ChunkSize, outcome
<1> DEFINE q == After(p, b)
<1>4. CASE b \in DOMAIN Hex /\ p.at # "chunk_parameters"
  <2> DEFINE left == IF p.at = "chunk_size" THEN p.left * 16 + Hex[b] ELSE Hex[b]
  <2>1. b \notin {"NL", " ", ";"}
    BY <1>4, LineEndNoHex
  <2>2. q = [p EXCEPT !.at = "chunk_size", !.left = left]
    <3>1. CASE p.at = "chunk_size_start"
      BY <1>4, <3>1 DEF After, AfterBody, InHeaders, UrlStates, UrlEnds
    <3>2. CASE p.at = "chunk_size"
      <4>1. q = [p EXCEPT !.left = p.left * 16 + Hex[b]]
        BY <1>4, <2>1, <3>2 DEF After, AfterBody, InHeaders, UrlStates, UrlEnds
      <4> DEFINE n == p.left * 16 + Hex[b]
      <4> HIDE DEF n, q
      <4>2. q = [p EXCEPT !.at = "chunk_size", !.left = n]
        BY <1>1, <3>2, <4>1, FreshFields DEF n
      <4> QED
        BY <3>2, <4>2 DEF n
    <3> QED
      BY <1>1, <1>4, <3>1, <3>2
  <2>3. parser' = [parser EXCEPT !.state = "chunk_size", !.length = left]
    <3>1. CASE p.at = "chunk_size_start"
      BY <1>1, <1>4, <3>1 DEF ChunkSize
    <3>2. CASE p.at = "chunk_size"
      <4>1. parser' = [parser EXCEPT !.length = @ * 16 + Hex[b]]
        BY <1>1, <1>4, <2>1, <3>2 DEF ChunkSize
      <4> DEFINE n == p.left * 16 + Hex[b]
      <4> HIDE DEF n
      <4>2. parser' = [parser EXCEPT !.length = n]
        BY <1>1, <4>1 DEF n
      <4>3. parser' = [parser EXCEPT !.state = "chunk_size", !.length = n]
        BY <1>1, <3>2, <4>2 DEF ParserInv
      <4> QED
        BY <3>2, <4>3 DEF n
    <3> QED
      BY <1>1, <1>4, <3>1, <3>2
  <2> HIDE DEF q, left
  <2>4. /\ DOMAIN q = DOMAIN Fresh /\ q.at = "chunk_size" /\ q.url = p.url
        /\ q.headers = p.headers /\ q.body = p.body /\ q.left = left /\ q.flags = p.flags
    BY <1>1, <2>2, FreshFields
  <2>5. /\ parser'.state = "chunk_size" /\ parser'.length = left
        /\ parser'.flags = parser.flags /\ parser'.error = parser.error
    BY <2>3 DEF ParserInv
  <2>6. ParserNow' = parser' /\ RequestNow' = rs /\ BodyRead(q.body)'
    BY <1>1, <1>3, <2>4, <2>5, NothingPendingNext, BodyStill DEF Following
  <2>7. At(q)'
    BY <2>4, <2>5 DEF At, ParserStates
  <2>8. torn \/ Whole(q)'
    BY <1>1, <1>2, <1>3, <2>4, <2>6 DEF Following, Whole, UrlStates, UrlEnds
  <2>9. Following(q)'
    BY <1>1, <1>2, <1>3, <2>4, <2>5, <2>6, <2>7, <2>8 DEF Following
  <2>10. Current(q)'
    BY <2>4, <2>9 DEF Current
  <2> QED
    BY <2>10 DEF q
<1>5. CASE p.at \in {"chunk_size", "chunk_parameters"} /\ b = "NL" /\ p.left > 0
  <2>0. b \notin DOMAIN Hex
    BY <1>5, LineEndNoHex
  <2>1. q = Moved(p, "chunk_data")
    BY <1>1, <1>5, <2>0 DEF After, AfterBody, InHeaders, UrlStates, UrlEnds
  <2>2. Go("chunk_data")
    BY <1>1, <1>5, LineEndNoHex DEF ChunkSize, SizeRead, Go
  <2> QED
    BY <1>1, <1>3, <1>5, <2>1, <2>2, QuietStep
<1>6. CASE p.at \in {"chunk_size", "chunk_parameters"} /\ b = "NL" /\ p.left = 0
  <2>0. b \notin DOMAIN Hex /\ ~(p.left > 0)
    <3>1. b \notin DOMAIN Hex
      BY <1>6, LineEndNoHex
    <3>2. ~(p.left > 0)
      BY <1>6
    <3> QED
      BY <3>1, <3>2
  <2>1. q = [p EXCEPT !.at = "line", !.flags = @ \cup {"trailing"}]
    BY <1>1, <1>6, <2>0 DEF After, AfterBody, InHeaders, UrlStates, UrlEnds
  <2>2. parser' = [parser EXCEPT !.state = "header_field_start",
                                 !.flags = @ \cup {"trailing"}]
    <3>1. SizeRead
      BY <1>1, <1>6, <2>0 DEF ChunkSize
    <3> QED
      BY <1>1, <2>0, <3>1 DEF SizeRead
  <2> HIDE DEF q
  <2>3. /\ DOMAIN q = DOMAIN Fresh /\ q.at = "line" /\ q.url = p.url
        /\ q.headers = p.headers /\ q.body = p.body /\ q.left = p.left
        /\ q.flags = p.flags \cup {"trailing"}
    BY <1>1, <2>1, FreshFields
  <2>4. /\ parser'.state = "header_field_start" /\ parser'.length = parser.length
        /\ parser'.flags = parser.flags \cup {"trailing"} /\ parser'.error = parser.error
    BY <2>2 DEF ParserInv
  <2>5. ParserNow' = parser' /\ RequestNow' = rs /\ BodyRead(q.body)'
    BY <1>1, <1>3, <2>3, <2>4, NothingPendingNext, BodyStill DEF Following
  <2>6. At(q)'
    BY <2>3, <2>4 DEF At
  <2>7. torn \/ Whole(q)'
    BY <1>2, <1>3, <1>6, <2>3, <2>5 DEF Following, Whole, UrlStates, UrlEnds
  <2>8. Following(q)'
    BY <1>1, <1>2, <1>3, <2>3, <2>4, <2>5, <2>6, <2>7 DEF Following
  <2>9. Current(q)'
    BY <2>3, <2>8 DEF Current
  <2> QED
    BY <2>9 DEF q
<1>7. CASE p.at = "chunk_size" /\ b \in {" ", ";"}
  <2>1. q = Moved(p, "chunk_parameters")
    BY <1>1, <1>7, LineEndNoHex DEF After, AfterBody, InHeaders, UrlStates, UrlEnds
  <2>2. Go("chunk_parameters")
    BY <1>1, <1>7, LineEndNoHex DEF ChunkSize
  <2> QED
    BY <1>1, <1>3, <1>7, <2>1, <2>2, QuietStep
<1>8. CASE p.at = "chunk_parameters" /\ b # "NL"
  <2>1. q = p
    BY <1>8 DEF After, AfterBody, InHeaders, UrlStates, UrlEnds
  <2>2. UNCHANGED parser
    BY <1>1, <1>8 DEF ChunkSize
  <2> HIDE DEF q
  <2>3. Current(p)'
    BY <1>1, <1>3, <2>2, StillCurrent DEF outcome
  <2> QED
    BY <2>1, <2>3 DEF q
<1>9. CASE /\ b \notin DOMAIN Hex
           /\ \/ p.at = "chunk_size_start"
              \/ p.at = "chunk_size" /\ b \notin {"NL", " ", ";"}
  <2>1. q = Refused(p)
    BY <1>1, <1>9 DEF After, AfterBody, InHeaders, UrlStates, UrlEnds
  <2>2. parser' = [parser EXCEPT !.error = TRUE]
    BY <1>1, <1>9 DEF ChunkSize
  <2>3. parser'.error = TRUE
    BY <2>2 DEF ParserInv
  <2> QED
    BY <1>3, <2>1, <2>3, RefusedCurrent DEF outcome
<1>10. p.left > 0 \/ p.left = 0
  BY <1>1
<1> QED
  BY <1>1, <1>4, <1>5, <1>6, <1>7, <1>8, <1>9, <1>10

-----------------------------------------------------------------------------
(* Every octet.                                                            *)

\* Whatever octet comes, the connection is where the text leads.
LEMMA ParseStep ==
  ASSUME ParserInv, Shape, asked \in Seq(Requests), NEW CONSTANT p, Following(p),
         NEW CONSTANT b \in Octets, Parse(b), UNCHANGED <<asked, torn>>
  PROVE  Current(After(p, b))' /\ Handed(After(p, b))
<1>1. ~parser.error /\ parser.state # "dead"
  BY DEF Following, At
<1>2. CASE HeaderFieldFirst(b) \/ HeaderValueLws(b)
  BY <1>2, LineStep
<1>3. CASE BodyIdentity(b)
  BY <1>3, BodyIdentityStep
<1>4. CASE StartReq(b) \/ ReqMethod(b) \/ ReqSpacesBeforeUrl(b) \/ ReqUrl(b) \/ ReqHttp(b)
  <2>1. UNCHANGED outcome
    BY <1>4 DEF StartReq, ReqMethod, ReqSpacesBeforeUrl, ReqUrl, ReqHttp
  <2>2. Current(After(p, b))'
    BY <1>4, StartReqStep, ReqMethodStep, ReqSpacesStep, ReqUrlStep, ReqHttpStep
  <2> QED
    BY <2>1, <2>2 DEF Handed
<1>5. CASE \/ HeaderField(b) \/ HeaderValueDiscardWs(b) \/ HeaderValue(b)
           \/ ChunkSize(b) \/ ChunkData(b)
  <2>1. UNCHANGED outcome
    BY <1>5 DEF HeaderField, HeaderValueDiscardWs, HeaderValue, ChunkSize, ChunkData
  <2>2. Current(After(p, b))'
    BY <1>5, HeaderFieldStep, HeaderValueDiscardWsStep, HeaderValueStep, ChunkSizeStep,
       ChunkDataStep
  <2> QED
    BY <2>1, <2>2 DEF Handed
<1> QED
  BY <1>1, <1>2, <1>3, <1>4, <1>5 DEF Parse, Dead

\* One more call is recorded.
LEMMA CallsShape ==
  ASSUME Shape, NEW c, calls' = Append(calls, c)
  PROVE  /\ (calls \in Seq({calls[k] : k \in DOMAIN calls}))'
         /\ Len(calls') = Len(calls) + 1
         /\ \A k \in 1..Len(calls) : calls'[k] = calls[k]
         /\ calls'[Len(calls) + 1] = c
<1> DEFINE S == {calls[k] : k \in DOMAIN calls}
           T == S \cup {c}
           s == Append(calls, c)
<1>1. calls \in Seq(T) /\ c \in T
  BY DEF Shape
<1>2. /\ s \in Seq(T) /\ Len(s) = Len(calls) + 1
      /\ \A k \in 1..Len(calls) : s[k] = calls[k]
      /\ s[Len(calls) + 1] = c
  <2> HIDE DEF S, T
  <2> QED
    BY <1>1
<1>3. s \in Seq({s[k] : k \in DOMAIN s})
  <2> DEFINE U == {s[k] : k \in DOMAIN s}
  <2>1. DOMAIN s = 1..Len(s) /\ Len(s) \in Nat /\ s = [k \in 1..Len(s) |-> s[k]]
    <3> HIDE DEF s, T
    <3> QED
      BY <1>2
  <2> HIDE DEF s
  <2>2. \A k \in 1..Len(s) : s[k] \in U
    BY <2>1
  <2> HIDE DEF U
  <2>3. [k \in 1..Len(s) |-> s[k]] \in Seq(U)
    BY <2>1, <2>2
  <2> QED
    BY <2>1, <2>3 DEF U
<1> HIDE DEF s
<1> QED
  BY <1>2, <1>3 DEF s

\* A request that is completed keeps the shape of what is recorded.
LEMMA CompleteShape ==
  ASSUME Shape, NEW STATE r, Collected(r), MessageComplete(r)
  PROVE  Collected(rs)' /\ (calls \in Seq({calls[k] : k \in DOMAIN calls}))'
<1>1. CASE rs' = r /\ UNCHANGED calls
  BY <1>1 DEF Shape, Collected
<1>2. CASE \E c : rs' = Freed(r) /\ calls' = Append(calls, c)
  BY <1>2, CallbackShape, CallsShape
<1> QED
  BY <1>1, <1>2 DEF MessageComplete

LEMMA HeaderStartShape ==
  ASSUME Shape, NEW b \in Octets, NEW STATE p, NEW STATE r, HeaderFieldStart(b, p, r),
         Collected(r), DOMAIN p = {"state", "name", "value", "length", "flags", "error"},
         p.error \in BOOLEAN, DOMAIN parser = DOMAIN p
  PROVE  /\ Collected(rs)' /\ mark'.text \in Seq(Octets)
         /\ parser'.error \in BOOLEAN /\ (calls \in Seq({calls[k] : k \in DOMAIN calls}))'
<1>1. CASE b = "NL"
  <2>1. HeadersDone(p, r) /\ mark' = NoMark
    BY <1>1 DEF HeaderFieldStart, NoToken
  <2>2. \E s, e : e \in BOOLEAN /\ parser' = [p EXCEPT !.state = s, !.error = e]
    BY <2>1 DEF HeadersDone
  <2>3. parser'.error \in BOOLEAN
    BY <2>2
  <2>4. Collected(OnHeadersComplete(r))
    BY CallbackShape
  <2>5. \/ MessageComplete(r) \/ MessageComplete(OnHeadersComplete(r))
        \/ rs' \in {r, OnHeadersComplete(r)} /\ UNCHANGED calls
    BY <2>1 DEF HeadersDone, outcome
  <2>6. Collected(rs)' /\ (calls \in Seq({calls[k] : k \in DOMAIN calls}))'
    <3>1. CASE MessageComplete(r)
      BY <3>1, CompleteShape
    <3>2. CASE MessageComplete(OnHeadersComplete(r))
      BY <2>4, <3>2, CompleteShape
    <3>3. CASE rs' \in {r, OnHeadersComplete(r)} /\ UNCHANGED calls
      BY <2>4, <3>3 DEF Shape
    <3> QED
      BY <2>5, <3>1, <3>2, <3>3
  <2> QED
    BY <2>1, <2>3, <2>6 DEF NoMark
<1>2. CASE b # "NL" /\ b \in NoToken
  <2>1. Fail /\ rs' = r /\ UNCHANGED calls
    BY <1>2 DEF HeaderFieldStart, outcome
  <2>2. mark'.text \in Seq(Octets) /\ parser'.error = TRUE
    BY <2>1 DEF Fail, NoMark
  <2> QED
    BY <2>1, <2>2 DEF Shape
<1>3. CASE b # "NL" /\ b \notin NoToken
  <2>1. /\ parser' = [p EXCEPT !.state = "header_field", !.name = <<b>>]
        /\ mark' = Marked("field", b) /\ rs' = r /\ UNCHANGED calls
    BY <1>3 DEF HeaderFieldStart, outcome
  <2> QED
    BY <2>1 DEF Marked, Shape
<1> QED
  BY <1>1, <1>2, <1>3

\* An octet keeps the shape of what is collected, whatever the parser makes of it.
LEMMA ParseShape ==
  ASSUME ParserInv, Shape, NEW b \in Octets, Parse(b)
  PROVE  /\ Collected(rs)' /\ mark'.text \in Seq(Octets)
         /\ parser'.error \in BOOLEAN /\ (calls \in Seq({calls[k] : k \in DOMAIN calls}))'
<1>1. /\ mark.item \in Items /\ DOMAIN mark = {"item", "text"} /\ mark.text \in Seq(Octets)
      /\ Append(mark.text, b) \in Seq(Octets) /\ <<b>> \in Seq(Octets)
  BY DEF ParserInv, Items, Shape
<1>2. Collected(HandOver(rs, mark)) /\ Collected(OnHeaderValue(rs, <<>>)) /\ Collected(Cleared)
  BY <1>1, CallbackShape DEF Shape
<1>3. Grown(mark, b).item = mark.item /\ Grown(mark, b).text \in Seq(Octets)
  BY <1>1 DEF Grown
<1>4. BodyMark(b).item = "body" /\ BodyMark(b).text \in Seq(Octets)
  BY <1>1, <1>3 DEF BodyMark, Marked
<1> DEFINE quiet == /\ mark'.text \in Seq(Octets) /\ parser'.error = parser.error
                    /\ rs' \in {rs, HandOver(rs, mark), Cleared} /\ UNCHANGED calls
<1>5. CASE quiet
  <2>1. Collected(rs)'
    BY <1>2, <1>5 DEF Shape
  <2>2. (calls \in Seq({calls[k] : k \in DOMAIN calls}))'
    BY <1>5 DEF Shape
  <2> QED
    BY <1>5, <2>1, <2>2 DEF Shape
<1>6. NoMark.text \in Seq(Octets)
  BY DEF NoMark
<1>7. CASE UNCHANGED <<parser, mark, rs, outcome>>
  BY <1>7 DEF Shape, outcome
<1>8. CASE Fail /\ UNCHANGED <<rs, outcome>>
  BY <1>8 DEF Shape, Fail, NoMark, ParserInv, outcome
<1>9. CASE Dead(b) \/ StartReq(b) \/ ReqMethod(b) \/ ReqSpacesBeforeUrl(b) \/ ReqUrl(b)
  <2>1. CASE Dead(b)
    BY <1>7, <1>8, <2>1 DEF Dead
  <2>2. CASE StartReq(b)
    <3>1. CASE b = "M"
      <4>1. /\ parser' = [parser EXCEPT !.state = "req_method", !.length = 0, !.flags = {}]
            /\ mark' = mark /\ rs' = Cleared /\ UNCHANGED calls
        BY <2>2, <3>1 DEF StartReq, outcome
      <4>2. parser'.error = parser.error
        BY <4>1 DEF ParserInv
      <4> QED
        BY <1>1, <1>5, <4>1, <4>2
    <3> QED
      BY <1>7, <1>8, <2>2, <3>1 DEF StartReq
  <2>3. CASE ReqMethod(b)
    <3>1. CASE b = " "
      <4>1. Go("spaces_before_url") /\ UNCHANGED <<mark, rs, calls>>
        BY <2>3, <3>1 DEF ReqMethod, outcome
      <4> QED
        BY <1>1, <1>5, <4>1, GoFields
    <3> QED
      BY <1>8, <2>3, <3>1 DEF ReqMethod
  <2>4. CASE ReqSpacesBeforeUrl(b)
    <3> DEFINE s == UrlAfter(parser.state, b)
    <3>1. CASE b # " " /\ s # "dead"
      <4>1. Go(s) /\ mark' = Marked("url", b) /\ UNCHANGED <<rs, calls>>
        BY <2>4, <3>1 DEF ReqSpacesBeforeUrl, outcome
      <4>2. mark'.text = <<b>>
        BY <4>1 DEF Marked
      <4> HIDE DEF s
      <4> QED
        BY <1>1, <1>5, <4>1, <4>2, GoFields
    <3> QED
      BY <1>7, <1>8, <2>4, <3>1 DEF ReqSpacesBeforeUrl
  <2>5. CASE ReqUrl(b)
    <3> DEFINE s == UrlAfter(parser.state, b)
    <3>1. CASE b = " " /\ parser.state \in UrlEnds
      <4>1. Go("http_start") /\ Collect /\ UNCHANGED calls
        BY <2>5, <3>1 DEF ReqUrl, outcome
      <4> QED
        BY <1>5, <1>6, <4>1, GoFields DEF Collect
    <3>2. CASE b = "NL" /\ parser.state \in UrlEnds
      <4>1. /\ parser' = [parser EXCEPT !.state = "header_field_start", !.flags = @ \cup {"old"}]
            /\ Collect /\ UNCHANGED calls
        BY <2>5, <3>2 DEF ReqUrl, outcome
      <4>2. parser'.error = parser.error
        BY <4>1 DEF ParserInv
      <4> QED
        BY <1>5, <1>6, <4>1, <4>2 DEF Collect
    <3>3. CASE ~(b \in {" ", "NL"} /\ parser.state \in UrlEnds) /\ s = "dead"
      BY <1>8, <2>5, <3>3 DEF ReqUrl
    <3>4. CASE ~(b \in {" ", "NL"} /\ parser.state \in UrlEnds) /\ s # "dead"
      <4>1. Go(s) /\ mark' = Grown(mark, b) /\ UNCHANGED <<rs, calls>>
        BY <2>5, <3>4 DEF ReqUrl, outcome
      <4> HIDE DEF s
      <4> QED
        BY <1>3, <1>5, <4>1, GoFields
    <3> QED
      BY <3>1, <3>2, <3>3, <3>4
  <2> QED
    BY <1>9, <2>1, <2>2, <2>3, <2>4, <2>5
<1>10. CASE ReqHttp(b) \/ HeaderField(b) \/ HeaderValueDiscardWs(b) \/ HeaderValue(b)
  <2>1. CASE ReqHttp(b)
    <3>1. ASSUME NEW s, Go(s), UNCHANGED mark
          PROVE  quiet
      <4>1. UNCHANGED <<rs, calls>>
        BY <2>1 DEF ReqHttp, outcome
      <4> QED
        BY <1>1, <3>1, <4>1, GoFields
    <3>2. /\ UNCHANGED <<rs, outcome>>
          /\ UNCHANGED <<parser, mark>> \/ Fail \/ \E s : Go(s) /\ UNCHANGED mark
      BY <2>1 DEF ReqHttp
    <3> QED
      BY <1>7, <1>8, <1>5, <3>1, <3>2
  <2>2. CASE HeaderField(b)
    <3>1. CASE b = ":"
      <4>1. Go("header_value_discard_ws") /\ Collect /\ UNCHANGED calls
        BY <2>2, <3>1 DEF HeaderField, outcome
      <4> QED
        BY <1>5, <1>6, <4>1, GoFields DEF Collect
    <3>2. CASE b # ":" /\ b \in NoToken \cup {"NL"}
      BY <1>8, <2>2, <3>2 DEF HeaderField
    <3>3. CASE b # ":" /\ b \notin NoToken \cup {"NL"}
      <4>1. /\ parser' = [parser EXCEPT !.name = Append(@, b)] /\ mark' = Grown(mark, b)
            /\ UNCHANGED <<rs, calls>>
        BY <2>2, <3>3 DEF HeaderField, outcome
      <4>2. parser'.error = parser.error
        BY <4>1 DEF ParserInv
      <4> QED
        BY <1>3, <4>1, <4>2 DEF Shape
    <3> QED
      BY <3>1, <3>2, <3>3
  <2>3. ASSUME NEW v, NEW STATE m, ValueOctet(b, v, m), m.text \in Seq(Octets),
               UNCHANGED <<rs, outcome>>
        PROVE  /\ Collected(rs)' /\ mark'.text \in Seq(Octets)
               /\ parser'.error \in BOOLEAN /\ (calls \in Seq({calls[k] : k \in DOMAIN calls}))'
    <3> DEFINE P == [parser EXCEPT !.state = "header_value", !.value = Append(v, b)]
    <3>1. DOMAIN P = DOMAIN parser /\ P.error = parser.error
      BY DEF ParserInv
    <3>2. \/ parser' = P /\ mark' = m
          \/ Fail
          \/ mark' = m /\ \E n : parser' = [P EXCEPT !.flags = @ \cup {"length"}, !.length = n]
      BY <2>3 DEF ValueOctet
    <3> HIDE DEF P
    <3>3. CASE Fail
      BY <1>8, <2>3, <3>3
    <3>4. CASE mark' = m /\ parser'.error = parser.error
      BY <2>3, <3>4 DEF Shape, outcome
    <3> QED
      BY <3>1, <3>2, <3>3, <3>4 DEF ParserInv
  <2>4. CASE HeaderValueDiscardWs(b)
    <3>1. CASE b = " "
      BY <1>7, <2>4, <3>1 DEF HeaderValueDiscardWs
    <3>2. CASE b = "NL"
      BY <2>4, <3>2 DEF HeaderValueDiscardWs, Go, Shape, ParserInv, outcome
    <3>3. CASE b \notin {" ", "NL"}
      <4>1. ValueOctet(b, <<>>, Marked("value", b)) /\ UNCHANGED <<rs, outcome>>
        BY <2>4, <3>3 DEF HeaderValueDiscardWs
      <4>2. Marked("value", b).text \in Seq(Octets)
        BY <1>1 DEF Marked
      <4> QED
        BY <2>3, <4>1, <4>2
    <3> QED
      BY <3>1, <3>2, <3>3
  <2>5. CASE HeaderValue(b)
    <3>1. CASE b = "NL"
      <4>1. Go("header_value_lws") /\ Collect /\ UNCHANGED calls
        BY <2>5, <3>1 DEF HeaderValue, outcome
      <4> QED
        BY <1>5, <1>6, <4>1, GoFields DEF Collect
    <3>2. CASE b = "NUL"
      BY <1>8, <2>5, <3>2 DEF HeaderValue
    <3>3. CASE b \notin {"NL", "NUL"}
      <4>1. ValueOctet(b, parser.value, Grown(mark, b)) /\ UNCHANGED <<rs, outcome>>
        BY <2>5, <3>3 DEF HeaderValue
      <4> QED
        BY <1>3, <2>3, <4>1
    <3> QED
      BY <3>1, <3>2, <3>3
  <2> QED
    BY <1>10, <2>1, <2>2, <2>4, <2>5
<1>11. CASE HeaderFieldFirst(b)
  <2>1. HeaderFieldStart(b, parser, rs)
    BY <1>11 DEF HeaderFieldFirst
  <2> QED
    BY <2>1, HeaderStartShape DEF Shape, ParserInv
<1>12. CASE HeaderValueLws(b)
  <2>1. CASE parser.state = "header_value_lws"
    <3> DEFINE P == [parser EXCEPT !.flags = LineFlags]
    <3>1. HeaderFieldStart(b, P, rs)
      BY <1>12, <2>1 DEF HeaderValueLws
    <3>2. DOMAIN P = DOMAIN parser /\ P.error = parser.error
      BY DEF ParserInv
    <3> HIDE DEF P
    <3> QED
      BY <3>1, <3>2, HeaderStartShape DEF Shape, ParserInv
  <2>2. CASE parser.state # "header_value_lws" /\ parser.name = <<"L">>
    BY <1>8, <1>12, <2>2 DEF HeaderValueLws
  <2>3. CASE parser.state # "header_value_lws" /\ parser.name # <<"L">>
    <3>1. HeaderFieldStart(b, parser, OnHeaderValue(rs, <<>>))
      BY <1>12, <2>3 DEF HeaderValueLws
    <3> QED
      BY <1>2, <3>1, HeaderStartShape DEF Shape, ParserInv
  <2> QED
    BY <2>1, <2>2, <2>3
<1>13. CASE BodyIdentity(b)
  <2>1. CASE parser.length = 1
    <3>1. /\ parser' = [parser EXCEPT !.state = NewMessage(parser), !.length = 0]
          /\ MessageComplete(HandOver(rs, BodyMark(b))) /\ mark' = NoMark
      BY <1>13, <2>1 DEF BodyIdentity
    <3>2. parser'.error = parser.error
      BY <3>1 DEF ParserInv
    <3>3. Collected(HandOver(rs, BodyMark(b)))
      BY <1>4, CallbackShape DEF Shape, Items
    <3> QED
      BY <3>1, <3>2, <3>3, CompleteShape DEF Shape, NoMark
  <2>2. CASE parser.length # 1
    <3>1. /\ parser' = [parser EXCEPT !.length = @ - 1] /\ mark' = BodyMark(b)
          /\ UNCHANGED <<rs, calls>>
      BY <1>13, <2>2 DEF BodyIdentity, outcome
    <3>2. parser'.error = parser.error
      BY <3>1 DEF ParserInv
    <3> QED
      BY <1>4, <3>1, <3>2 DEF Shape
  <2> QED
    BY <2>1, <2>2
<1>14. CASE ChunkSize(b)
  <2>1. UNCHANGED <<mark, rs, calls>>
    BY <1>14 DEF ChunkSize, outcome
  <2>2. parser'.error \in BOOLEAN
    BY <1>14 DEF ChunkSize, SizeRead, Go, ParserInv, Shape
  <2> QED
    BY <2>1, <2>2 DEF Shape
<1>15. CASE ChunkData(b)
  <2>1. CASE parser.state = "chunk_data"
    <3>1. /\ parser' = [parser EXCEPT !.length = @ - 1,
                          !.state = IF parser.length = 1 THEN "chunk_data_almost_done" ELSE @]
          /\ mark' = BodyMark(b) /\ UNCHANGED <<rs, calls>>
      BY <1>15, <2>1 DEF ChunkData, outcome
    <3>2. parser'.error = parser.error
      BY <3>1 DEF ParserInv
    <3> QED
      BY <1>4, <3>1, <3>2 DEF Shape
  <2>2. CASE parser.state = "chunk_data_almost_done" /\ b = "NL"
    <3>1. Go("chunk_size_start") /\ Collect /\ UNCHANGED calls
      BY <1>15, <2>2 DEF ChunkData, outcome
    <3> QED
      BY <1>5, <1>6, <3>1, GoFields DEF Collect
  <2>3. CASE parser.state = "chunk_data_almost_done" /\ b # "NL"
    BY <1>8, <1>15, <2>3 DEF ChunkData
  <2> QED
    BY <1>15, <2>1, <2>2, <2>3 DEF ChunkData
<1> QED
  BY <1>7, <1>9, <1>10, <1>11, <1>12, <1>13, <1>14, <1>15 DEF Parse

-----------------------------------------------------------------------------
(* The text and the request.                                               *)

\* A step to the next octet of the text.
LEMMA TextStep ==
  ASSUME NEW t \in Seq(Octets), NEW i \in 0..Len(t), NEW s, s = SubSeq(t, i + 1, Len(t))
  PROVE  /\ s \in Seq(Octets)
         /\ s = <<>> <=> i = Len(t)
         /\ s # <<>> => /\ i + 1 \in 1..Len(t) /\ Head(s) = t[i + 1]
                        /\ Tail(s) = SubSeq(t, (i + 1) + 1, Len(t))
<1> DEFINE k == i + 1
<1>1. k \in 1..(Len(t) + 1) /\ Len(t) \in Nat /\ i \in Nat /\ (k \in 1..Len(t) <=> i # Len(t))
  OBVIOUS
<1> HIDE DEF k
<1>2. s \in Seq(Octets) /\ Len(s) = IF k <= Len(t) THEN Len(t) - k + 1 ELSE 0
  BY <1>1 DEF k
<1>3. s = <<>> <=> i = Len(t)
  <2>1. Len(s) = 0 <=> i = Len(t)
    BY <1>1, <1>2 DEF k
  <2>2. s = <<>> <=> Len(s) = 0
    BY <1>2, EmptySeq
  <2> QED
    BY <2>1, <2>2
<1>4. ASSUME s # <<>>
      PROVE  Head(s) = t[k] /\ Tail(s) = SubSeq(t, k + 1, Len(t))
  <2>1. k \in 1..Len(t)
    BY <1>1, <1>3, <1>4
  <2>2. s = SubSeq(t, k, Len(t))
    BY DEF k
  <2> DEFINE n == Len(t)
  <2>3. n \in k..Len(t)
    BY <1>1, <2>1
  <2> HIDE DEF n
  <2>4. Head(SubSeq(t, k, n)) = t[k] /\ Tail(SubSeq(t, k, n)) = SubSeq(t, k + 1, n)
    BY <2>1, <2>3, HeadTailOfSubSeq
  <2> QED
    BY <2>2, <2>4 DEF n
<1> QED
  BY <1>1, <1>2, <1>3, <1>4 DEF k

\* A request is at its end exactly when its text is.
LEMMA EndOfText ==
  ASSUME NEW r \in Requests, NEW i \in 0..Len(r.text), Reading(r.text)[i].at = "done"
  PROVE  LET q == Reading(r.text)[i] IN
           /\ i = Len(r.text) /\ r.wellFormed
           /\ r.url = q.url /\ r.headers = q.headers /\ r.body = q.body /\ r.close = Closes(q)
<1>1. Meant(r)
  BY TextAssumption
<1>2. i = Len(r.text)
  <2>1. Len(r.text) \in Nat
    BY <1>1 DEF Meant
  <2>2. i \notin 0..(Len(r.text) - 1)
    BY <1>1 DEF Meant
  <2> QED
    BY <2>1, <2>2
<1>3. r.wellFormed
  BY <1>1, <1>2 DEF Meant
<1> QED
  BY <1>1, <1>2, <1>3 DEF Meant

\* The points of a request's text.
LEMMA TextPoints ==
  ASSUME NEW r \in Requests
  PROVE  /\ r.text \in Seq(Octets)
         /\ Reading(r.text)[0] = Fresh
         /\ \A i \in 1..Len(r.text) : Reading(r.text)[i] = After(Reading(r.text)[i - 1], r.text[i])
<1>1. r.text \in Seq(Octets)
  BY TextAssumption DEF Meant
<1> QED
  BY <1>1, ReadingPoints DEF PointsTo

\* After a request that ends the connection the parser takes nothing more.
LEMMA EndedStep ==
  ASSUME parser.error \/ parser.state = "dead", NEW b, Parse(b), ParserInv
  PROVE  UNCHANGED outcome /\ (parser'.error \/ parser'.state = "dead")
<1>1. CASE parser.error
  BY <1>1 DEF Parse
<1>2. CASE ~parser.error
  <2>1. Dead(b)
    BY <1>2 DEF Parse, StartReq, ReqMethod, ReqSpacesBeforeUrl, ReqUrl, ReqHttp, HeaderFieldFirst,
                HeaderField, HeaderValueDiscardWs, HeaderValue, HeaderValueLws, BodyIdentity,
                ChunkSize, ChunkData, UrlStates, UrlEnds
  <2>2. Fail => parser'.error
    BY DEF Fail, ParserInv
  <2> QED
    BY <2>1, <2>2 DEF Dead
<1> QED
  BY <1>1, <1>2

\* What is recorded stays true while the client goes on asking.
LEMMA CallsKept ==
  ASSUME CallsInv, UNCHANGED calls, Len(asked') \in Nat, Len(asked) \in Nat,
         Len(calls) \in Nat, Len(asked) <= Len(asked'),
         \A k \in 1..Len(asked) : asked'[k] = asked[k]
  PROVE  CallsInv'
<1>1. \A k \in 1..Len(calls) : k \in 1..Len(asked) /\ asked'[k] = asked[k]
  BY DEF CallsInv
<1>2. ASSUME NEW k \in 1..Len(calls), NEW j \in 1..(k - 1)
      PROVE  ~Stops(j)'
  <2>1. j \in 1..Len(calls)
    OBVIOUS
  <2>2. ~Stops(j)
    BY <1>2 DEF CallsInv
  <2> QED
    BY <1>1, <2>1, <2>2 DEF Stops
<1>3. \A k \in 1..Len(calls) :
        /\ Kept(calls[k].request.body, asked'[k].body)
        /\ ~calls[k].torn => /\ calls[k].request.url = {asked'[k].url}
                             /\ calls[k].request.headers = asked'[k].headers
  BY <1>1 DEF CallsInv
<1>4. Len(calls) <= Len(asked')
  BY DEF CallsInv
<1> QED
  BY <1>2, <1>3, <1>4 DEF CallsInv

-----------------------------------------------------------------------------
(* The steps of the connection.                                            *)

LEMMA InitTextInv == Init => TextInv
  BY EmptySeq DEF Init, TextInv, Shape, Collected, CallsInv, DiesOfItsBody, Null

\* The client sends its next request: what comes before it is either over for
\* good or at the start of a request.
LEMMA AskStep ==
  ASSUME IInv, TextInv, NEW r \in Requests, Ask(r)
  PROVE  TextInv'
<1> DEFINE n == Len(asked)
<1>1. /\ ~died /\ todo = <<>> /\ asked' = Append(asked, r) /\ todo' = r.text /\ torn' = FALSE
      /\ UNCHANGED <<parser, mark, rs, calls, died>>
  BY DEF Ask, outcome
<1>2. /\ asked \in Seq(Requests) /\ n \in Nat /\ Len(asked') = n + 1 /\ asked' # <<>>
      /\ asked'[n + 1] = r /\ \A k \in 1..n : asked'[k] = asked[k]
  <2>1. /\ asked \in Seq(Requests) /\ n \in Nat /\ Len(asked') = n + 1
        /\ asked'[n + 1] = r /\ \A k \in 1..n : asked'[k] = asked[k]
    BY <1>1 DEF IInv
  <2>2. asked' # <<>>
    BY <2>1, EmptySeq
  <2> QED
    BY <2>1, <2>2
<1>3. r.text \in Seq(Octets) /\ Reading(r.text)[0] = Fresh
  BY TextPoints
<1>4. Shape'
  <2>1. (calls \in Seq({calls[k] : k \in DOMAIN calls}))'
    BY <1>1 DEF TextInv, Shape
  <2> QED
    BY <1>1, <1>3, <2>1 DEF TextInv, Shape
<1>5. CallsInv'
  <2>1. Len(calls) \in Nat
    BY DEF TextInv, Shape
  <2> QED
    BY <1>1, <1>2, <2>1, CallsKept DEF TextInv
<1>6. DiesOfItsBody'
  BY <1>1 DEF DiesOfItsBody
<1>7. Ended' <=> Ended \/ (asked # <<>> /\ Stops(n))
  <2>1. asked # <<>> <=> n # 0
    BY <1>2, EmptySeq
  <2>2. \A k \in 1..n : Stops(k)' <=> Stops(k)
    BY <1>2 DEF Stops
  <2>3. Ended' <=> \E k \in 1..n : Stops(k)'
    BY <1>2 DEF Ended
  <2>4. Ended <=> \E k \in 1..(n - 1) : Stops(k)
    BY DEF Ended
  <2> HIDE DEF n
  <2> QED
    BY <1>2, <2>1, <2>2, <2>3, <2>4
<1>8. CASE asked # <<>> /\ Ended
  BY <1>2, <1>4, <1>5, <1>6, <1>7, <1>8, <1>1 DEF TextInv
<1>9. ASSUME asked = <<>> \/ ~Ended, ~Ended', parser.state = "start_req", ~parser.error,
             rs.body = Null, Len(calls) = n
      PROVE  TextInv'
  <2>1. mark.item = "none"
    BY <1>9 DEF IInv, ParserInv, UrlStates, UrlEnds
  <2>2. BodyRead({})'
    BY <1>1, <1>9, <2>1 DEF BodyRead, Kept, Null
  <2>3. Fresh.at = "start_req" /\ Fresh.body = {}
    BY DEF Fresh
  <2>4. At(Fresh)'
    BY <1>1, <1>9, <2>3 DEF At, ParserStates
  <2>5. Following(Fresh)'
    BY <1>1, <1>2, <1>9, <2>2, <2>3, <2>4 DEF Following, Whole, Null, UrlStates, UrlEnds
  <2>6. Current(Fresh)'
    BY <2>3, <2>5 DEF Current
  <2>7. Underway'
    <3>1. 0 \in 0..Len(r.text) /\ todo' = SubSeq(r.text, 0 + 1, Len(r.text))
      BY <1>1, <1>3, SubSeqFull
    <3>2. asked'[Len(asked')] = r /\ Current(Reading(r.text)[0])'
      BY <1>2, <1>3, <2>6
    <3> QED
      BY <3>1, <3>2 DEF Underway
  <2> QED
    BY <1>2, <1>4, <1>5, <1>6, <1>9, <2>7 DEF TextInv
<1>10. CASE asked = <<>>
  <2>1. n = 0 /\ Len(calls) = 0
    BY <1>10, EmptySeq DEF TextInv
  <2>2. ~Ended'
    <3>1. ~Ended
      BY <2>1 DEF Ended
    <3> QED
      BY <1>7, <1>10, <3>1
  <2> QED
    BY <1>9, <1>10, <2>1, <2>2 DEF TextInv
<1>11. CASE asked # <<>> /\ ~Ended
  <2>0. PICK c \in Requests : \E i \in 0..Len(c.text) :
          /\ asked[n] = c /\ todo = SubSeq(c.text, i + 1, Len(c.text))
          /\ Current(Reading(c.text)[i])
    BY <1>11 DEF TextInv, Underway
  <2>1. PICK i \in 0..Len(c.text) :
          /\ asked[n] = c /\ todo = SubSeq(c.text, i + 1, Len(c.text))
          /\ Current(Reading(c.text)[i])
    BY <2>0
  <2> DEFINE p == Reading(c.text)[i]
  <2>2. i = Len(c.text)
    BY <1>1, <2>1, TextPoints, TextStep
  <2>3. Meant(c)
    BY TextAssumption
  <2>4. CASE ~c.wellFormed
    <3>1. p.at = "refused"
      BY <2>2, <2>3, <2>4 DEF Meant
    <3>2. parser.error
      BY <2>1, <3>1 DEF Current
    <3>3. Ended'
      BY <1>7, <1>11, <2>1, <2>4 DEF Stops
    <3> QED
      BY <1>1, <1>2, <1>4, <1>5, <1>6, <3>2, <3>3 DEF TextInv
  <2>5. CASE c.wellFormed
    <3>1. p.at = "done" /\ c.close = Closes(p)
      BY <2>2, <2>3, <2>5 DEF Meant
    <3>2. /\ Len(calls) = n /\ ~parser.error /\ rs.body = Null
          /\ parser.state = IF Closes(p) THEN "dead" ELSE "start_req"
      BY <1>1, <2>1, <3>1 DEF Current, Completed
    <3>3. Stops(n) <=> c.close
      BY <2>1, <2>5 DEF Stops
    <3>4. CASE c.close
      BY <1>1, <1>2, <1>4, <1>5, <1>6, <1>7, <1>11, <3>1, <3>2, <3>3, <3>4 DEF TextInv
    <3>5. CASE ~c.close
      BY <1>7, <1>9, <1>11, <3>1, <3>2, <3>3, <3>5
    <3> QED
      BY <3>4, <3>5
  <2> QED
    BY <2>4, <2>5
<1> QED
  BY <1>8, <1>10, <1>11

\* A completed request is recorded as the one the client sent.
LEMMA RecordStep ==
  ASSUME IInv, TextInv, ~Ended, asked # <<>>, NEW CONSTANT r \in Requests, asked[Len(asked)] = r,
         NEW CONSTANT i \in 0..Len(r.text), Handed(Reading(r.text)[i]), UNCHANGED asked, ~died,
         UNCHANGED outcome \/ Len(calls) = Len(asked) - 1
  PROVE  CallsInv' /\ DiesOfItsBody'
<1> DEFINE q == Reading(r.text)[i]
           n == Len(asked)
<1>1. asked \in Seq(Requests) /\ n \in Nat /\ n # 0 /\ Len(calls) \in Nat
  BY EmptySeq DEF IInv, TextInv, Shape
<1>2. CASE UNCHANGED outcome
  <2>1. CallsInv'
    BY <1>1, <1>2, CallsKept DEF outcome, TextInv
  <2> QED
    BY <1>2, <2>1 DEF outcome, DiesOfItsBody
<1>3. CASE /\ q.at = "done" /\ q.body # Null /\ q.body \cap Json = {}
           /\ died' = TRUE /\ UNCHANGED calls
  <2>1. r.body = q.body
    BY <1>3, EndOfText
  <2>2. CallsInv'
    BY <1>1, <1>3, CallsKept DEF TextInv
  <2> QED
    BY <1>3, <2>1, <2>2 DEF DiesOfItsBody
<1>4. ASSUME q.at = "done", UNCHANGED died, Len(calls) = n - 1,
             NEW c, calls' = Append(calls, c), Kept(c.request.body, q.body),
             ~c.torn => c.request.url = {q.url} /\ c.request.headers = q.headers
      PROVE  CallsInv' /\ DiesOfItsBody'
  <2>1. r.url = q.url /\ r.headers = q.headers /\ r.body = q.body
    BY <1>4, EndOfText
  <2>2. Len(calls') = n /\ calls'[n] = c /\ \A k \in 1..(n - 1) : calls'[k] = calls[k]
    BY <1>1, <1>4, CallsShape DEF TextInv
  <2> HIDE DEF q, n
  <2>3. ASSUME NEW k \in 1..n
        PROVE  /\ Kept(calls'[k].request.body, asked[k].body)
               /\ ~calls'[k].torn => /\ calls'[k].request.url = {asked[k].url}
                                     /\ calls'[k].request.headers = asked[k].headers
               /\ \A j \in 1..(k - 1) : ~Stops(j)
    <3>1. CASE k = n
      <4>1. \A j \in 1..(k - 1) : ~Stops(j)
        BY <3>1 DEF Ended, n
      <4> QED
        BY <1>4, <2>1, <2>2, <3>1, <4>1 DEF n
    <3>2. CASE k # n
      <4>1. k \in 1..(n - 1)
        BY <1>1, <3>2
      <4> QED
        BY <1>4, <2>2, <4>1 DEF TextInv, CallsInv
    <3> QED
      BY <3>1, <3>2
  <2>4. \A j : Stops(j)' <=> Stops(j)
    BY DEF Stops
  <2>5. CallsInv'
    BY <1>1, <2>2, <2>3, <2>4 DEF CallsInv, n
  <2> QED
    BY <1>4, <2>5 DEF DiesOfItsBody
<1>5. Handed(q)
  OBVIOUS
<1> HIDE DEF q
<1>6. ASSUME q.at = "done", UNCHANGED died, ~UNCHANGED outcome,
             \E c : /\ calls' = Append(calls, c)
                    /\ Kept(c.request.body, q.body)
                    /\ ~c.torn => c.request.url = {q.url} /\ c.request.headers = q.headers
      PROVE  CallsInv' /\ DiesOfItsBody'
  <2>1. PICK c : /\ calls' = Append(calls, c)
                 /\ Kept(c.request.body, q.body)
                 /\ ~c.torn => c.request.url = {q.url} /\ c.request.headers = q.headers
    BY <1>6
  <2>2. Len(calls) = n - 1
    BY <1>6
  <2> HIDE DEF n
  <2> QED
    BY <1>4, <1>6, <2>1, <2>2
<1> QED
  BY <1>2, <1>3, <1>5, <1>6 DEF Handed

\* An octet: the next point of the text.
LEMMA OctetStep ==
  ASSUME IInv, TextInv, Octet
  PROVE  TextInv'
<1> DEFINE b == Head(todo)
<1>1. /\ ~died /\ todo # <<>> /\ Parse(b) /\ todo' = Tail(todo) /\ UNCHANGED <<asked, torn>>
  BY DEF Octet
<1>2. b \in Octets /\ todo' \in Seq(Octets)
  BY <1>1 DEF TextInv, Shape
<1>3. asked # <<>> /\ ParserInv /\ Shape /\ asked \in Seq(Requests)
  BY <1>1 DEF TextInv, IInv
<1>4. Shape'
  BY <1>2, <1>3, <1>1, ParseShape DEF Shape
<1>5. Ended' <=> Ended
  BY <1>1 DEF Ended, Stops
<1>6. CASE Ended
  <2>1. UNCHANGED outcome /\ (parser'.error \/ parser'.state = "dead")
    BY <1>1, <1>3, <1>6, EndedStep DEF TextInv
  <2>2. CallsInv'
    BY <1>1, <1>3, <2>1, CallsKept DEF TextInv, Shape, outcome
  <2>3. DiesOfItsBody'
    BY <1>1, <2>1 DEF DiesOfItsBody, outcome
  <2> QED
    BY <1>1, <1>3, <1>4, <1>5, <1>6, <2>1, <2>2, <2>3 DEF TextInv
<1>7. CASE ~Ended
  <2>0. PICK r \in Requests : \E i \in 0..Len(r.text) :
          /\ asked[Len(asked)] = r /\ todo = SubSeq(r.text, i + 1, Len(r.text))
          /\ Current(Reading(r.text)[i])
    BY <1>3, <1>7 DEF TextInv, Underway
  <2>1. PICK i \in 0..Len(r.text) :
          /\ asked[Len(asked)] = r /\ todo = SubSeq(r.text, i + 1, Len(r.text))
          /\ Current(Reading(r.text)[i])
    BY <2>0
  <2> DEFINE p == Reading(r.text)[i]
             q == Reading(r.text)[i + 1]
  <2>2. /\ i + 1 \in 1..Len(r.text) /\ b = r.text[i + 1]
        /\ todo' = SubSeq(r.text, (i + 1) + 1, Len(r.text))
    BY <1>1, <2>1, TextPoints, TextStep
  <2> DEFINE c == r.text[i + 1]
  <2>3. q = After(p, c) /\ Parse(c) /\ c \in Octets
    <3>1. (i + 1) - 1 = i
      OBVIOUS
    <3> QED
      BY <1>1, <1>2, <2>2, <3>1, TextPoints
  <2>4. p.at # "done"
    <3>1. i # Len(r.text)
      BY <2>2
    <3> QED
      BY <3>1, EndOfText
  <2> HIDE DEF b
  <2>5. Current(q)' /\ Handed(q) /\ (UNCHANGED outcome \/ Len(calls) = Len(asked) - 1)
    <3> HIDE DEF c, p, q
    <3>1. CASE p.at = "refused"
      <4>1. parser.error /\ ~died /\ Len(calls) = Len(asked) - 1
        BY <2>1, <3>1 DEF Current, p
      <4>2. UNCHANGED <<parser, outcome>>
        BY <2>3, <4>1 DEF Parse
      <4>3. q = p
        BY <2>3, <3>1 DEF After, InHeaders, UrlStates, UrlEnds
      <4>4. Current(p)'
        BY <1>1, <3>1, <4>1, <4>2 DEF Current, outcome
      <4> QED
        BY <4>1, <4>2, <4>3, <4>4 DEF Handed
    <3>2. CASE p.at # "refused"
      <4>1. Following(p)
        BY <2>1, <2>4, <3>2 DEF Current, p
      <4>2. Len(calls) = Len(asked) - 1
        BY <4>1 DEF Following
      <4>3. Current(After(p, c))' /\ Handed(After(p, c))
        BY <1>1, <1>3, <2>3, <4>1, ParseStep
      <4> QED
        BY <2>3, <4>2, <4>3
    <3> QED
      BY <3>1, <3>2
  <2>6. CallsInv' /\ DiesOfItsBody'
    <3>1. i + 1 \in 0..Len(r.text)
      BY <2>2
    <3> QED
      BY <1>1, <1>3, <1>7, <2>1, <2>5, <3>1, RecordStep
  <2>7. Underway'
    <3>1. i + 1 \in 0..Len(r.text) /\ asked'[Len(asked')] = r
      BY <1>1, <2>1, <2>2
    <3> QED
      BY <2>2, <2>5, <3>1 DEF Underway
  <2> QED
    BY <1>1, <1>3, <1>4, <1>5, <1>7, <2>6, <2>7 DEF TextInv
<1> QED
  BY <1>6, <1>7

\* A chunk ends: what is marked was read, and is handed over, torn or not.
LEMMA ChunkEndCurrent ==
  ASSUME ParserInv, Shape, NEW CONSTANT p, Current(p), ChunkEnd
  PROVE  Current(p)'
<1>1. /\ ~died /\ rs' = HandOver(rs, mark)
      /\ mark' = IF mark.item \in {"none", "body"} THEN NoMark ELSE [mark EXCEPT !.text = <<>>]
      /\ torn' = (torn \/ mark.item \in {"url", "field", "value"})
      /\ UNCHANGED <<parser, todo, asked, calls, died>>
  BY DEF ChunkEnd, outcome
<1>2. CASE p.at = "refused"
  BY <1>1, <1>2 DEF Current
<1>3. CASE p.at = "done"
  <2>1. Completed(p) /\ parser.state \in {"dead", "start_req"}
    BY <1>1, <1>3 DEF Current, Completed
  <2>2. mark.item = "none"
    BY <2>1 DEF ParserInv, UrlStates, UrlEnds
  <2>3. rs' = rs
    BY <1>1, <2>2, NothingPending
  <2> QED
    BY <1>1, <1>3, <2>1, <2>3 DEF Current, Completed
<1>4. CASE p.at \notin {"refused", "done"}
  <2>1. Following(p)
    BY <1>4 DEF Current
  <2>2. At(p)'
    BY <1>1, <2>1 DEF Following, At
  <2>3. ParserNow' = ParserNow
    BY <1>1 DEF ParserNow, LineFlags
  <2>4. BodyRead(p.body)'
    <3>1. CASE mark.item = "none"
      <4>1. rs' = rs /\ mark'.item = "none"
        BY <1>1, <3>1, NothingPending DEF NoMark
      <4> QED
        BY <2>1, <3>1, <4>1, BodyStays DEF Following
    <3>2. CASE mark.item = "body"
      <4>1. PICK before \in SUBSET Seq(Octets) :
              Kept(rs.body, before) /\ p.body = Joined(before, mark.text)
        BY <2>1, <3>2 DEF Following, BodyRead
      <4>2. Kept(rs'.body, p.body)
        BY <1>1, <3>2, <4>1, BodyHanded DEF Shape
      <4>3. p.body \subseteq Seq(Octets) /\ mark'.item = "none"
        BY <1>1, <2>1, <3>2 DEF Following, BodyRead, NoMark
      <4> QED
        BY <4>2, <4>3 DEF BodyRead
    <3>3. CASE mark.item \notin {"none", "body"}
      <4>1. mark.item \in {"url", "field", "value"} /\ mark'.item = mark.item
        BY <1>1, <3>3 DEF ParserInv
      <4>2. rs'.body = rs.body
        BY <1>1, <4>1, HandOverBody DEF Shape, Collected
      <4> QED
        BY <2>1, <4>1, <4>2, BodyStays DEF Following
    <3> QED
      BY <3>1, <3>2, <3>3
  <2>5. torn' \/ Whole(p)'
    <3>1. CASE mark.item = "none"
      <4>1. rs' = rs /\ mark'.item = "none"
        BY <1>1, <3>1, NothingPending DEF NoMark
      <4>2. RequestNow' = RequestNow
        BY <1>1, <4>1 DEF RequestNow
      <4>3. torn \/ (Whole(p) /\ p.at \notin UrlStates \cup {"header_field", "header_value"})
        BY <2>1, <3>1 DEF Following, Whole, UrlStates, UrlEnds
      <4> QED
        BY <1>1, <4>1, <4>2, <4>3 DEF Whole, UrlStates, UrlEnds
    <3>2. CASE mark.item = "body"
      <4>1. p.at = parser.state
            /\ parser.state \in {"body_identity", "chunk_data", "chunk_data_almost_done"}
        BY <2>1, <3>2 DEF ParserInv, Following, At
      <4>2. RequestNow = rs /\ RequestNow' = rs'
        BY <1>1, <4>1, NothingPending, NothingPendingNext
      <4>3. rs'.url = rs.url /\ rs'.headers = rs.headers
        BY <1>1, <3>2 DEF HandOver, OnBody, Shape, Collected
      <4> QED
        BY <1>1, <2>1, <4>1, <4>2, <4>3 DEF Following, Whole, UrlStates, UrlEnds
    <3>3. CASE mark.item \notin {"none", "body"}
      BY <1>1, <3>3 DEF ParserInv
    <3> QED
      BY <3>1, <3>2, <3>3
  <2>6. Following(p)'
    BY <1>1, <2>1, <2>2, <2>3, <2>4, <2>5 DEF Following
  <2> QED
    BY <1>4, <2>6 DEF Current
<1> QED
  BY <1>2, <1>3, <1>4

LEMMA ChunkEndStep ==
  ASSUME IInv, TextInv, ChunkEnd
  PROVE  TextInv'
<1>1. /\ ~died /\ rs' = HandOver(rs, mark)
      /\ mark' = IF mark.item \in {"none", "body"} THEN NoMark ELSE [mark EXCEPT !.text = <<>>]
      /\ UNCHANGED <<parser, todo, asked, calls, died>>
  BY DEF ChunkEnd, outcome
<1>2. mark.item \in Items /\ DOMAIN mark = {"item", "text"}
  BY DEF IInv, ParserInv, Items
<1>3. Shape'
  <2>1. Collected(rs')
    BY <1>1, <1>2, CallbackShape DEF TextInv, Shape
  <2>2. mark'.text \in Seq(Octets)
    BY <1>1, <1>2, EmptySeq DEF NoMark
  <2>3. (calls \in Seq({calls[k] : k \in DOMAIN calls}))'
    BY <1>1 DEF TextInv, Shape
  <2> QED
    BY <1>1, <2>1, <2>2, <2>3 DEF TextInv, Shape
<1>4. CallsInv' /\ DiesOfItsBody'
  BY <1>1, CallsKept DEF TextInv, Shape, IInv, DiesOfItsBody
<1>5. CASE asked = <<>>
  <2>1. mark.item = "none"
    BY <1>5 DEF IInv, ParserInv, TextInv, UrlStates, UrlEnds
  <2>2. rs' = rs
    BY <1>1, <2>1, NothingPending
  <2> QED
    BY <1>1, <1>3, <1>4, <1>5, <2>2 DEF TextInv
<1>6. CASE asked # <<>> /\ Ended
  <2>1. Ended'
    BY <1>1, <1>6 DEF Ended, Stops
  <2> QED
    BY <1>1, <1>3, <1>4, <1>6, <2>1 DEF TextInv
<1>7. CASE asked # <<>> /\ ~Ended
  <2>0. PICK r \in Requests : \E i \in 0..Len(r.text) :
          /\ asked[Len(asked)] = r /\ todo = SubSeq(r.text, i + 1, Len(r.text))
          /\ Current(Reading(r.text)[i])
    BY <1>7 DEF TextInv, Underway
  <2>1. PICK i \in 0..Len(r.text) :
          /\ asked[Len(asked)] = r /\ todo = SubSeq(r.text, i + 1, Len(r.text))
          /\ Current(Reading(r.text)[i])
    BY <2>0
  <2> DEFINE p == Reading(r.text)[i]
  <2>2. Current(p)
    BY <2>1
  <2> HIDE DEF p
  <2>3. Current(p)'
    BY <2>2, ChunkEndCurrent DEF IInv, TextInv
  <2>4. Underway'
    BY <1>1, <2>1, <2>3 DEF Underway, p
  <2>5. ~Ended'
    BY <1>1, <1>7 DEF Ended, Stops
  <2> QED
    BY <1>1, <1>3, <1>4, <1>7, <2>4, <2>5 DEF TextInv
<1> QED
  BY <1>5, <1>6, <1>7

LEMMA UnchangedStep ==
  ASSUME IInv, TextInv, UNCHANGED vars
  PROVE  TextInv'
<1>1. UNCHANGED <<parser, mark, rs, todo, asked, torn, calls, died>>
  BY DEF vars, outcome
<1>2. ASSUME NEW CONSTANT p, Current(p)
      PROVE  Current(p)'
  <2>1. ParserNow' = ParserNow /\ RequestNow' = RequestNow /\ At(p)' <=> At(p)
    BY <1>1 DEF ParserNow, RequestNow, LineFlags, At
  <2> QED
    BY <1>1, <1>2, <2>1 DEF Current, Completed, Following, Whole, BodyRead, UrlStates, UrlEnds
<1>3. Underway => Underway'
  BY <1>1, <1>2 DEF Underway
<1>4. CallsInv' /\ Shape' /\ DiesOfItsBody'
  BY <1>1, CallsKept DEF TextInv, Shape, IInv, DiesOfItsBody
<1>5. Ended' <=> Ended
  BY <1>1 DEF Ended, Stops
<1> QED
  BY <1>1, <1>3, <1>4, <1>5 DEF TextInv

LEMMA NextTextInv ==
  ASSUME IInv, TextInv, [Next]_vars
  PROVE  TextInv'
  BY AskStep, OctetStep, ChunkEndStep, UnchangedStep DEF Next

LEMMA TextInvCorrect == Spec => [](IInv /\ TextInv)
<1>1. Init => IInv /\ TextInv
  BY InitIInv, InitTextInv
<1>2. (IInv /\ TextInv) /\ [Next]_vars => (IInv /\ TextInv)'
  BY NextIInv, NextTextInv
<1> QED
  BY <1>1, <1>2, PTL DEF Spec

\* Every completed request has the body the client sent for it, up to its first
\* NUL, and its url and headers too unless a chunk ended within one of them, for all
\* requests and all ways to cut them (http_parser_execute and the callbacks of
\* REST_URL).
THEOREM RequestAsSentCorrect == Spec => []RequestAsSent
<1>1. IInv /\ TextInv => RequestAsSent
  BY DEF TextInv, Shape, CallsInv, RequestAsSent
<1> QED
  BY <1>1, TextInvCorrect, PTL

\* json::parse only throws for a request whose body, as the client sent it, is no
\* JSON: no cut and no earlier request makes it parse something else.
THEOREM DiesOfItsBodyCorrect == Spec => []DiesOfItsBody
<1>1. IInv /\ TextInv => DiesOfItsBody
  BY DEF TextInv
<1> QED
  BY <1>1, TextInvCorrect, PTL

\* Where requests end does not depend on the chunks: when all octets are parsed,
\* each request before the first that ends the connection was completed, and none
\* after it, for all texts that Meant admits: no header is folded
\* (http_parser_execute, NEW_MESSAGE).
THEOREM FramedCorrect == Spec => []Framed
<1>1. ASSUME IInv, TextInv, todo = <<>>, ~died, asked # <<>>, ~Ended
      PROVE  Len(calls) = Len(asked) \/ ~asked[Len(asked)].wellFormed
  <2>0. PICK r \in Requests : \E i \in 0..Len(r.text) :
          /\ asked[Len(asked)] = r /\ todo = SubSeq(r.text, i + 1, Len(r.text))
          /\ Current(Reading(r.text)[i])
    BY <1>1 DEF TextInv, Underway
  <2>1. PICK i \in 0..Len(r.text) :
          /\ asked[Len(asked)] = r /\ todo = SubSeq(r.text, i + 1, Len(r.text))
          /\ Current(Reading(r.text)[i])
    BY <2>0
  <2>2. i = Len(r.text)
    BY <1>1, <2>1, TextPoints, TextStep
  <2>3. CASE r.wellFormed
    <3>1. Reading(r.text)[i].at = "done"
      BY <2>2, <2>3, TextAssumption DEF Meant
    <3> QED
      BY <1>1, <2>1, <3>1 DEF Current, Completed
  <2> QED
    BY <2>1, <2>3
<1>2. ASSUME IInv, TextInv
      PROVE  Framed
  <2>1. /\ Len(calls) <= Len(asked)
        /\ \A k \in 1..Len(calls) : \A j \in 1..(k - 1) : ~Stops(j)
    BY <1>2 DEF TextInv, CallsInv
  <2>2. todo = <<>> /\ ~died /\ (\A k \in 1..(Len(asked) - 1) : ~Stops(k)) =>
          Len(calls) = Len(asked) \/ ~asked[Len(asked)].wellFormed
    <3>1. CASE asked = <<>>
      BY <1>2, <3>1 DEF TextInv
    <3>2. CASE asked # <<>>
      BY <1>1, <1>2, <3>2 DEF Ended
    <3> QED
      BY <3>1, <3>2
  <2> QED
    BY <2>1, <2>2 DEF Framed, Stops
<1> QED
  BY <1>2, TextInvCorrect, PTL

-----------------------------------------------------------------------------
(* What a request may be authenticated with.                               *)

\* What is collected comes from text t, whatever the names it has.
Drawn(r, t) == r.url \subseteq Pieces(t) /\ \A n \in DOMAIN r.headers : r.headers[n] \in Pieces(t)

\* What is marked ends where i octets were read.
MarkDrawn(m, t, i) ==
  m.item \in {"url", "value"} => \E j \in 1..(i + 1) : m.text = SubSeq(t, j, i)

\* Nothing of an earlier request is left once a request has begun.
FromText(t, i) ==
  ~parser.error /\ parser.state \notin {"start_req", "dead"} =>
    Drawn(rs, t) /\ MarkDrawn(mark, t, i)

\* What a recorded request was let through with.
Allowed(c) ==
  \E s \in Signings :
    /\ \E u \in c.request.url : s.path = Url!Path(u)
    /\ s.body = Hashed(c.request.body)
    /\ s.key \in Secrets
    /\ InWindow(s.date, c.now)

RunsAllowed ==
  MustAuthenticate => \A k \in 1..Len(calls) : calls[k].verdict # "denied" => Allowed(calls[k])

\* What is collected was cut out of the last text, and what was let through signed.
SignedInv ==
  /\ asked # <<>> =>
       LET t == asked[Len(asked)].text IN
         \E i \in 0..Len(t) : todo = SubSeq(t, i + 1, Len(t)) /\ FromText(t, i)
  /\ RunsAllowed

\* What was read since a point is a piece of the text.
LEMMA PieceOf ==
  ASSUME NEW t \in Seq(Octets), NEW i \in 0..Len(t), NEW j \in 1..(i + 1)
  PROVE  SubSeq(t, j, i) \in Pieces(t) /\ <<>> \in Pieces(t)
<1>1. j \in 1..(Len(t) + 1) /\ 1 \in 1..(Len(t) + 1) /\ 0 \in 0..Len(t)
  OBVIOUS
<1>2. SubSeq(t, 1, 0) = <<>>
  BY SubSeqEmpty
<1> QED
  BY <1>1, <1>2 DEF Pieces

\* A mark keeps ending where octets were read.
LEMMA MarkPieces ==
  ASSUME NEW t \in Seq(Octets), NEW i \in 1..Len(t), NEW m, DOMAIN m = {"item", "text"}
  PROVE  /\ MarkDrawn(m, t, i - 1) => MarkDrawn(Grown(m, t[i]), t, i)
         /\ \A x : MarkDrawn(Marked(x, t[i]), t, i)
         /\ MarkDrawn([m EXCEPT !.text = <<>>], t, i - 1)
         /\ MarkDrawn(NoMark, t, i)
<1> DEFINE k == i - 1
<1>1. k \in Nat /\ k + 1 = i /\ k \in 0..Len(t) /\ Len(t) \in Nat /\ i \in Nat
  OBVIOUS
<1>2. ASSUME NEW j \in 1..i
      PROVE  Append(SubSeq(t, j, k), t[i]) = SubSeq(t, j, i)
  OBVIOUS
<1>3. <<t[i]>> = SubSeq(t, i, i) /\ <<>> = SubSeq(t, i, k)
  OBVIOUS
<1>4. MarkDrawn(m, t, k) => MarkDrawn(Grown(m, t[i]), t, i)
  <2>1. Grown(m, t[i]).item = m.item /\ Grown(m, t[i]).text = Append(m.text, t[i])
    BY DEF Grown
  <2>2. ASSUME NEW j \in 1..(k + 1), m.text = SubSeq(t, j, k)
        PROVE  \E h \in 1..(i + 1) : Grown(m, t[i]).text = SubSeq(t, h, i)
    <3>1. j \in 1..i /\ j \in 1..(i + 1)
      BY <1>1
    <3> QED
      BY <1>2, <2>1, <2>2, <3>1
  <2> QED
    BY <2>1, <2>2 DEF MarkDrawn
<1>5. i \in 1..(i + 1) /\ i \in 1..(k + 1)
  BY <1>1
<1>6. \A x : MarkDrawn(Marked(x, t[i]), t, i)
  BY <1>3, <1>5 DEF MarkDrawn, Marked
<1>7. MarkDrawn([m EXCEPT !.text = <<>>], t, k) /\ MarkDrawn(NoMark, t, i)
  BY <1>3, <1>5 DEF MarkDrawn, NoMark
<1> QED
  BY <1>4, <1>6, <1>7

\* What the callbacks make of pieces is made of pieces.
LEMMA CallbackDrawn ==
  ASSUME NEW t \in Seq(Octets), NEW r, Collected(r), Drawn(r, t)
  PROVE  /\ \A m : m.item \in Items /\ (m.item \in {"url", "value"} => m.text \in Pieces(t)) =>
                   Drawn(HandOver(r, m), t)
         /\ Drawn(OnHeaderValue(r, <<>>), t)
         /\ Drawn(OnHeadersComplete(r), t)
         /\ Drawn(Freed(r), t)
<1>1. <<>> \in Pieces(t)
  BY PieceOf
<1>2. ASSUME NEW x \in Pieces(t)
      PROVE  Drawn(OnHeaderValue(r, x), t)
  BY <1>2 DEF OnHeaderValue, Drawn, Collected
<1>3. ASSUME NEW m, m.item \in Items, m.item \in {"url", "value"} => m.text \in Pieces(t)
      PROVE  Drawn(HandOver(r, m), t)
  <2>1. CASE m.item = "value"
    BY <1>2, <1>3, <2>1 DEF HandOver
  <2>2. CASE m.item # "value"
    BY <1>3, <2>2 DEF Items, HandOver, OnUrl, OnHeaderField, OnBody, Drawn, Collected
  <2> QED
    BY <2>1, <2>2
<1>4. Drawn(OnHeadersComplete(r), t) /\ Drawn(Freed(r), t)
  BY DEF OnHeadersComplete, Freed, Drawn, Collected, Null
<1> QED
  BY <1>1, <1>2, <1>3, <1>4

\* What one octet makes of the mark and of what is collected: it hands over, or
\* completes a request.
Becomes(b, r) ==
  /\ \/ rs' = r /\ UNCHANGED outcome
     \/ parser'.state \in {"start_req", "dead"} /\ MessageComplete(r)
  /\ \/ mark'.item \notin {"url", "value"}
     \/ mark' = Grown(mark, b)
     \/ \E x : mark' = Marked(x, b)

\* The first octet of a line.
LEMMA HeaderStartBecomes ==
  ASSUME ParserInv, NEW b, NEW STATE p, NEW STATE r, HeaderFieldStart(b, p, r),
         DOMAIN p = DOMAIN parser
  PROVE  Becomes(b, r) \/ Becomes(b, OnHeadersComplete(r))
<1>1. CASE b = "NL"
  <2>1. HeadersDone(p, r) /\ mark' = NoMark
    BY <1>1 DEF HeaderFieldStart, NoToken
  <2>2. \E next, e : /\ parser' = [p EXCEPT !.state = next, !.error = e]
                     /\ \/ next \in {"start_req", "dead"}
                        \/ rs' \in {r, OnHeadersComplete(r)} /\ UNCHANGED outcome
                     /\ \/ next \notin {"start_req", "dead"}
                        \/ MessageComplete(r) \/ MessageComplete(OnHeadersComplete(r))
    BY <2>1 DEF HeadersDone
  <2>3. \/ parser'.state \in {"start_req", "dead"}
        \/ rs' \in {r, OnHeadersComplete(r)} /\ UNCHANGED outcome
    BY <2>2 DEF ParserInv
  <2>4. \/ rs' \in {r, OnHeadersComplete(r)} /\ UNCHANGED outcome
        \/ MessageComplete(r) \/ MessageComplete(OnHeadersComplete(r))
    BY <2>2
  <2> QED
    BY <2>1, <2>3, <2>4 DEF Becomes, NoMark
<1>2. CASE b # "NL"
  <2>1. rs' = r /\ UNCHANGED outcome /\ (mark' = NoMark \/ mark' = Marked("field", b))
    BY <1>2 DEF HeaderFieldStart, Fail
  <2>2. NoMark.item = "none" /\ Marked("field", b).item = "field"
    BY DEF NoMark, Marked
  <2> QED
    BY <2>1, <2>2 DEF Becomes
<1> QED
  BY <1>1, <1>2

\* Every octet within a request.
LEMMA ParseBecomes ==
  ASSUME ParserInv, Shape, ~parser.error, NEW b \in Octets, Parse(b),
         parser.state \notin {"start_req", "dead"}
  PROVE  \E r \in {rs, HandOver(rs, mark), HandOver(rs, BodyMark(b)), OnHeadersComplete(rs),
                   OnHeaderValue(rs, <<>>), OnHeadersComplete(OnHeaderValue(rs, <<>>))} :
           Becomes(b, r)
<1>1. NoMark.item = "none" /\ (Fail => mark' = NoMark)
  BY DEF NoMark, Fail
<1>2. CASE ReqMethod(b) \/ ReqSpacesBeforeUrl(b) \/ ReqHttp(b) \/ HeaderValueDiscardWs(b)
  <2>1. mark.item = "none" /\ rs' = rs /\ UNCHANGED outcome
    BY <1>2 DEF ParserInv, ReqMethod, ReqSpacesBeforeUrl, ReqHttp, HeaderValueDiscardWs, outcome,
                UrlStates, UrlEnds
  <2>2. mark'.item = "none" \/ \E x : mark' = Marked(x, b)
    BY <1>1, <1>2, <2>1 DEF ReqMethod, ReqSpacesBeforeUrl, ReqHttp, HeaderValueDiscardWs, ValueOctet
  <2> QED
    BY <2>1, <2>2 DEF Becomes
<1>3. CASE ReqUrl(b) \/ HeaderField(b) \/ HeaderValue(b)
  <2>1. UNCHANGED outcome /\ rs' \in {rs, HandOver(rs, mark)}
    BY <1>3 DEF ReqUrl, HeaderField, HeaderValue, Collect
  <2>2. mark'.item = "none" \/ mark' = Grown(mark, b)
    BY <1>1, <1>3 DEF ReqUrl, HeaderField, HeaderValue, Collect, ValueOctet
  <2> QED
    BY <2>1, <2>2 DEF Becomes
<1>4. CASE HeaderFieldFirst(b)
  BY <1>4, HeaderStartBecomes DEF HeaderFieldFirst
<1>5. CASE HeaderValueLws(b)
  <2>1. CASE parser.state = "header_value_lws"
    <3> DEFINE p == [parser EXCEPT !.flags = LineFlags]
    <3>1. HeaderFieldStart(b, p, rs) /\ DOMAIN p = DOMAIN parser
      BY <1>5, <2>1 DEF HeaderValueLws
    <3> HIDE DEF p
    <3> QED
      BY <3>1, HeaderStartBecomes
  <2>2. CASE parser.state = "header_value_discard_lws" /\ parser.name = <<"L">>
    BY <1>1, <1>5, <2>2 DEF HeaderValueLws, Becomes
  <2>3. CASE parser.state = "header_value_discard_lws" /\ parser.name # <<"L">>
    <3>1. HeaderFieldStart(b, parser, OnHeaderValue(rs, <<>>))
      BY <1>5, <2>3 DEF HeaderValueLws
    <3> QED
      BY <3>1, HeaderStartBecomes
  <2> QED
    BY <1>5, <2>1, <2>2, <2>3 DEF HeaderValueLws
<1>6. CASE BodyIdentity(b)
  <2>1. BodyMark(b).item = "body"
    BY BodyMarkShape
  <2>2. parser.length = 1 => parser'.state \in {"start_req", "dead"}
    <3>1. ASSUME parser' = [parser EXCEPT !.state = NewMessage(parser), !.length = 0]
          PROVE  parser'.state = NewMessage(parser)
      BY <3>1 DEF ParserInv
    <3> QED
      BY <1>6, <3>1, NewMessageState DEF BodyIdentity
  <2> QED
    BY <1>1, <1>6, <2>1, <2>2 DEF BodyIdentity, Becomes
<1>7. CASE ChunkSize(b) \/ ChunkData(b)
  <2>1. BodyMark(b).item = "body"
    BY BodyMarkShape
  <2>2. UNCHANGED outcome /\ rs' \in {rs, HandOver(rs, mark)}
    BY <1>7 DEF ChunkSize, ChunkData, Collect, SizeRead, Go
  <2>3. mark'.item \notin {"url", "value"}
    BY <1>1, <1>7, <2>1 DEF ChunkSize, ChunkData, Collect, ParserInv, UrlStates, UrlEnds
  <2> QED
    BY <2>2, <2>3 DEF Becomes
<1> QED
  BY <1>2, <1>3, <1>4, <1>5, <1>6, <1>7 DEF Parse, StartReq, Dead

\* An octet adds nothing to what is collected but pieces of the text.
LEMMA TextOctet ==
  ASSUME ParserInv, Shape, NEW CONSTANT t \in Seq(Octets), NEW CONSTANT i \in 1..Len(t),
         FromText(t, i - 1), Parse(t[i])
  PROVE  /\ FromText(t, i)'
         /\ \/ UNCHANGED calls
            \/ \E r, c : /\ Drawn(r, t) /\ calls' = Append(calls, c)
                         /\ c.request = r /\ c.verdict = Verdict(r, c.now)
<1> DEFINE b == t[i]
<1>1. b \in Octets /\ i - 1 \in 0..Len(t)
  OBVIOUS
<1>2. CASE parser.error \/ parser.state = "dead"
  <2>1. UNCHANGED outcome /\ (parser'.error \/ parser'.state = "dead")
    BY <1>2, EndedStep
  <2> QED
    BY <2>1 DEF FromText, outcome
<1>3. CASE ~parser.error /\ parser.state = "start_req"
  <2>1. StartReq(b) /\ mark.item = "none"
    BY <1>3 DEF Parse, ParserInv, Dead, ReqMethod, ReqSpacesBeforeUrl, ReqUrl, ReqHttp,
                HeaderFieldFirst, HeaderField, HeaderValueDiscardWs, HeaderValue,
                HeaderValueLws, BodyIdentity, ChunkSize, ChunkData, UrlStates, UrlEnds
  <2>2. UNCHANGED calls
    BY <2>1 DEF StartReq, outcome
  <2>3. CASE b = "NL"
    <3>1. parser' = parser
      BY <2>1, <2>3 DEF StartReq
    <3> QED
      BY <1>3, <2>2, <3>1 DEF FromText
  <2>4. CASE b = "M"
    <3>1. rs' = Cleared /\ mark' = mark
      BY <2>1, <2>4 DEF StartReq
    <3>2. Drawn(rs', t) /\ MarkDrawn(mark', t, i)
      BY <2>1, <3>1 DEF Drawn, MarkDrawn, Cleared, Null
    <3> QED
      BY <2>2, <3>2 DEF FromText
  <2>5. CASE b \notin {"NL", "M"}
    <3>1. parser'.error
      BY <2>1, <2>5 DEF StartReq, Fail, ParserInv
    <3> QED
      BY <2>2, <3>1 DEF FromText
  <2> QED
    BY <2>3, <2>4, <2>5
<1>4. CASE ~parser.error /\ parser.state \notin {"start_req", "dead"}
  <2>1. Drawn(rs, t) /\ MarkDrawn(mark, t, i - 1)
    BY <1>4 DEF FromText
  <2> DEFINE S == {rs, HandOver(rs, mark), HandOver(rs, BodyMark(b)), OnHeadersComplete(rs),
                   OnHeaderValue(rs, <<>>), OnHeadersComplete(OnHeaderValue(rs, <<>>))}
  <2>2. PICK r \in S : Becomes(b, r)
    BY <1>1, <1>4, ParseBecomes
  <2>3. Drawn(r, t)
    <3>1. mark.item \in Items /\ BodyMark(b).item = "body" /\ "body" \in Items
      BY BodyMarkShape DEF ParserInv, Items
    <3>2. mark.item \in {"url", "value"} => mark.text \in Pieces(t)
      BY <1>1, <2>1, PieceOf DEF MarkDrawn
    <3>3. Collected(rs) /\ Collected(OnHeaderValue(rs, <<>>))
      BY CallbackShape DEF Shape
    <3>4. Drawn(OnHeaderValue(rs, <<>>), t)
      BY <2>1, <3>3, CallbackDrawn
    <3>5. Drawn(OnHeadersComplete(OnHeaderValue(rs, <<>>)), t)
      BY <3>3, <3>4, CallbackDrawn
    <3>6. /\ Drawn(HandOver(rs, mark), t) /\ Drawn(HandOver(rs, BodyMark(b)), t)
          /\ Drawn(OnHeadersComplete(rs), t)
      BY <2>1, <3>1, <3>2, <3>3, CallbackDrawn
    <3> QED
      BY <2>1, <3>4, <3>5, <3>6
  <2>4. MarkDrawn(mark', t, i)
    <3>1. /\ MarkDrawn(Grown(mark, b), t, i) /\ \A x : MarkDrawn(Marked(x, b), t, i)
      BY <2>1, MarkPieces DEF ParserInv
    <3>2. mark'.item \notin {"url", "value"} => MarkDrawn(mark', t, i)
      BY DEF MarkDrawn
    <3> HIDE DEF b
    <3> QED
      BY <2>2, <3>1, <3>2 DEF Becomes
  <2> HIDE DEF b, S
  <2>5. CASE rs' = r /\ UNCHANGED outcome
    BY <2>3, <2>4, <2>5 DEF FromText, outcome
  <2>6. CASE parser'.state \in {"start_req", "dead"} /\ MessageComplete(r)
    <3>1. FromText(t, i)'
      BY <2>6 DEF FromText
    <3>2. CASE UNCHANGED calls
      BY <3>1, <3>2
    <3>3. CASE ~UNCHANGED calls
      <4>1. PICK now \in Times :
              calls' = Append(calls, [request |-> r, verdict |-> Verdict(r, now),
                                      now |-> now, torn |-> torn])
        BY <2>6, <3>3 DEF MessageComplete
      <4> DEFINE c == [request |-> r, verdict |-> Verdict(r, now), now |-> now, torn |-> torn]
      <4>2. calls' = Append(calls, c) /\ c.request = r /\ c.verdict = Verdict(r, c.now)
        BY <4>1
      <4> HIDE DEF c
      <4> QED
        BY <2>3, <3>1, <4>2
    <3> QED
      BY <3>2, <3>3
  <2> QED
    BY <2>2, <2>5, <2>6 DEF Becomes
<1> QED
  BY <1>2, <1>3, <1>4

\* Once the text of a request is read, the parser is between requests or done.
LEMMA BetweenRequests ==
  ASSUME IInv, TextInv, todo = <<>>, ~died
  PROVE  parser.error \/ parser.state \in {"start_req", "dead"}
<1>1. CASE asked = <<>> \/ Ended
  BY <1>1 DEF TextInv
<1>2. CASE asked # <<>> /\ ~Ended
  <2>1. PICK r \in Requests : \E i \in 0..Len(r.text) :
          /\ asked[Len(asked)] = r /\ todo = SubSeq(r.text, i + 1, Len(r.text))
          /\ Current(Reading(r.text)[i])
    BY <1>2 DEF TextInv, Underway
  <2>2. PICK i \in 0..Len(r.text) :
          todo = SubSeq(r.text, i + 1, Len(r.text)) /\ Current(Reading(r.text)[i])
    BY <2>1
  <2>3. i = Len(r.text)
    BY <2>2, TextPoints, TextStep
  <2>4. Reading(r.text)[i].at \in {"done", "refused"}
    BY <2>3, TextAssumption DEF Meant
  <2> QED
    BY <2>2, <2>4 DEF Current, Completed
<1> QED
  BY <1>1, <1>2

LEMMA SignedAsk ==
  ASSUME IInv, TextInv, SignedInv, NEW r \in Requests, Ask(r)
  PROVE  SignedInv'
<1>1. /\ ~died /\ todo = <<>> /\ asked' = Append(asked, r) /\ todo' = r.text
      /\ UNCHANGED <<parser, mark, rs, calls>>
  BY DEF Ask, outcome
<1>2. asked'[Len(asked')] = r
  BY <1>1 DEF IInv
<1>3. r.text \in Seq(Octets)
  BY TextPoints
<1>4. 0 \in 0..Len(r.text) /\ todo' = SubSeq(r.text, 0 + 1, Len(r.text))
  BY <1>1, <1>3, SubSeqFull
<1>5. parser'.error \/ parser'.state \in {"start_req", "dead"}
  BY <1>1, BetweenRequests
<1>6. asked'[Len(asked')].text = r.text
  BY <1>2
<1>7. \E i \in 0..Len(r.text) :
        todo' = SubSeq(r.text, i + 1, Len(r.text))
        /\ (~parser'.error /\ parser'.state \notin {"start_req", "dead"} =>
              Drawn(rs', r.text) /\ MarkDrawn(mark', r.text, i))
  BY <1>4, <1>5
<1>8. RunsAllowed'
  BY <1>1 DEF SignedInv, RunsAllowed
<1> QED
  BY <1>6, <1>7, <1>8 DEF SignedInv, FromText

\* What authenticates a request that is let through was cut out of a text, so it is
\* the HMAC of something signed, which is then what is to be signed for it.
LEMMA SignedCall ==
  ASSUME MustAuthenticate, NEW q \in Requests, NEW c, Drawn(c.request, q.text),
         c.verdict = Verdict(c.request, c.now), c.verdict # "denied"
  PROVE  Allowed(c)
<1> DEFINE r == c.request
           auth == Header(r, AuthName)
<1>1. ValidateRequestCredentials(r, c.now)
  BY DEF Verdict
<1>2. PICK u \in r.url : ToSign(r, u) \in SignedAs(auth)
  BY <1>1 DEF ValidateRequestCredentials
<1>3. auth \in Pieces(q.text)
  <2>1. q.text \in Seq(Octets)
    BY TextPoints
  <2>2. <<>> \in Pieces(q.text)
    BY <2>1, PieceOf
  <2> QED
    BY <2>2 DEF Header, Drawn
<1> DEFINE s == ToSign(r, u)
<1>4. s \in Signings
  BY <1>2, <1>3, SignAssumption
<1>5. /\ s.path = Url!Path(u) /\ s.body = Hashed(r.body)
      /\ s.date = Header(r, DateName) /\ s.key = Header(r, KeyName)
  BY DEF ToSign
<1>6. s.key \in Secrets /\ InWindow(s.date, c.now)
  BY <1>1, <1>5 DEF ValidateRequestCredentials
<1> HIDE DEF s
<1> QED
  BY <1>2, <1>4, <1>5, <1>6 DEF Allowed

LEMMA SignedOctet ==
  ASSUME IInv, TextInv, SignedInv, Octet
  PROVE  SignedInv'
<1> DEFINE n == Len(asked)
<1>1. /\ ~died /\ todo # <<>> /\ Parse(Head(todo)) /\ todo' = Tail(todo) /\ UNCHANGED asked
  BY DEF Octet
<1>2. asked # <<>> /\ asked \in Seq(Requests) /\ n \in Nat /\ n # 0
  BY <1>1, EmptySeq DEF TextInv, IInv
<1>3. PICK q \in Requests : asked[n] = q
  BY <1>2
<1> DEFINE t == q.text
<1>4. t \in Seq(Octets)
  BY TextPoints
<1>5. PICK i \in 0..Len(t) : todo = SubSeq(t, i + 1, Len(t)) /\ FromText(t, i)
  BY <1>2, <1>3 DEF SignedInv
<1> DEFINE j == i + 1
<1>6. j \in 1..Len(t) /\ Head(todo) = t[j] /\ todo' = SubSeq(t, j + 1, Len(t)) /\ j - 1 = i
  <2> HIDE DEF t
  <2>1. todo # <<>> /\ todo' = Tail(todo) /\ todo = SubSeq(t, i + 1, Len(t))
    BY <1>1, <1>5
  <2> QED
    BY <1>4, <2>1, TextStep
<1>7. j \in 0..Len(t)
  BY <1>6
<1> HIDE DEF j
<1>8. /\ FromText(t, j)'
      /\ \/ UNCHANGED calls
         \/ \E r, c : /\ Drawn(r, t) /\ calls' = Append(calls, c)
                      /\ c.request = r /\ c.verdict = Verdict(r, c.now)
  BY <1>1, <1>4, <1>5, <1>6, TextOctet DEF IInv, TextInv
<1>9. \E k \in 0..Len(t) : todo' = SubSeq(t, k + 1, Len(t)) /\ FromText(t, k)'
  BY <1>6, <1>7, <1>8
<1>10. RunsAllowed'
  <2>1. CASE UNCHANGED calls
    BY <2>1 DEF SignedInv, RunsAllowed
  <2>2. CASE ~UNCHANGED calls
    <3>1. PICK r, c : /\ Drawn(r, t) /\ calls' = Append(calls, c)
                      /\ c.request = r /\ c.verdict = Verdict(r, c.now)
      BY <1>8, <2>2
    <3>2. /\ Len(calls') = Len(calls) + 1 /\ calls'[Len(calls')] = c
          /\ \A k \in 1..Len(calls) : calls'[k] = calls[k]
      BY <3>1, CallsShape DEF TextInv
    <3>3. ASSUME MustAuthenticate, NEW k \in 1..Len(calls'), calls'[k].verdict # "denied"
          PROVE  Allowed(calls'[k])
      <4>1. CASE k = Len(calls')
        BY <3>1, <3>2, <3>3, <4>1, SignedCall
      <4>2. CASE k # Len(calls')
        <5>1. k \in 1..Len(calls)
          BY <3>2, <4>2 DEF TextInv, Shape
        <5> QED
          BY <3>2, <3>3, <5>1 DEF SignedInv, RunsAllowed
      <4> QED
        BY <4>1, <4>2
    <3> QED
      BY <3>3 DEF RunsAllowed, Allowed
  <2> QED
    BY <2>1, <2>2
<1> QED
  BY <1>1, <1>3, <1>9, <1>10 DEF SignedInv

LEMMA SignedChunkEnd ==
  ASSUME IInv, TextInv, SignedInv, ChunkEnd
  PROVE  SignedInv'
<1>1. /\ rs' = HandOver(rs, mark)
      /\ mark' = IF mark.item \in {"none", "body"} THEN NoMark ELSE [mark EXCEPT !.text = <<>>]
      /\ UNCHANGED <<parser, todo, asked, calls>>
  BY DEF ChunkEnd, outcome
<1>2. ASSUME NEW CONSTANT t \in Seq(Octets), NEW CONSTANT i \in 0..Len(t), FromText(t, i)
      PROVE  FromText(t, i)'
  <2>1. SUFFICES ASSUME ~parser.error, parser.state \notin {"start_req", "dead"}
                 PROVE  Drawn(rs', t) /\ MarkDrawn(mark', t, i)
    BY <1>1 DEF FromText
  <2>2. Drawn(rs, t) /\ MarkDrawn(mark, t, i)
    BY <1>2, <2>1 DEF FromText
  <2>3. mark.item \in Items /\ (mark.item \in {"url", "value"} => mark.text \in Pieces(t))
    <3>1. mark.item \in Items
      BY DEF IInv, ParserInv, Items
    <3> QED
      BY <2>2, <3>1, PieceOf DEF MarkDrawn
  <2>4. Drawn(rs', t)
    BY <1>1, <2>2, <2>3, CallbackDrawn DEF TextInv, Shape
  <2>5. i + 1 \in 1..(i + 1) /\ SubSeq(t, i + 1, i) = <<>>
    OBVIOUS
  <2>6. mark'.item = "none" \/ mark'.text = <<>>
    BY <1>1 DEF NoMark, IInv, ParserInv
  <2> QED
    BY <2>4, <2>5, <2>6 DEF MarkDrawn
<1>3. RunsAllowed'
  BY <1>1 DEF SignedInv, RunsAllowed
<1>4. CASE asked = <<>>
  BY <1>1, <1>3, <1>4 DEF SignedInv
<1>5. CASE asked # <<>>
  <2>1. PICK q \in Requests : asked[Len(asked)] = q
    BY <1>5, EmptySeq DEF IInv
  <2>2. PICK i \in 0..Len(q.text) :
          todo = SubSeq(q.text, i + 1, Len(q.text)) /\ FromText(q.text, i)
    BY <1>5, <2>1 DEF SignedInv
  <2>3. FromText(q.text, i)'
    BY <1>2, <2>2, TextPoints
  <2> QED
    BY <1>1, <1>3, <2>1, <2>2, <2>3 DEF SignedInv
<1> QED
  BY <1>4, <1>5

LEMMA SignedNext ==
  ASSUME IInv, TextInv, SignedInv, [Next]_vars
  PROVE  SignedInv'
<1>1. CASE UNCHANGED vars
  BY <1>1 DEF vars, outcome, SignedInv, RunsAllowed, FromText
<1> QED
  BY <1>1, SignedAsk, SignedOctet, SignedChunkEnd DEF Next

\* If requests must be signed, a handler only runs for the path and the body of
\* something signed with a key that has a secret, at a date that is within the window:
\* however the chunks tear the headers that say so, and if they repeat what was signed
\* for another request (RESTServerConnection::validateRequestCredentials).
THEOREM OnlySignedRunCorrect == Spec => []OnlySignedRun
<1>1. Init => IInv /\ TextInv /\ SignedInv
  <2>1. Init => SignedInv
    BY EmptySeq DEF Init, SignedInv, RunsAllowed
  <2> QED
    BY <2>1, InitIInv, InitTextInv
<1>2. (IInv /\ TextInv /\ SignedInv) /\ [Next]_vars => (IInv /\ TextInv /\ SignedInv)'
  BY NextIInv, NextTextInv, SignedNext
<1>3. IInv /\ TextInv /\ SignedInv => OnlySignedRun
  <2>1. TextInv => DOMAIN calls = 1..Len(calls)
    BY DEF TextInv, Shape
  <2> QED
    BY <2>1 DEF SignedInv, RunsAllowed, Allowed, OnlySignedRun
<1> QED
  BY <1>1, <1>2, <1>3, PTL DEF Spec

=============================================================================
