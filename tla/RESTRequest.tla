----------------------------- MODULE RESTRequest -----------------------------
(***************************************************************************)
(* One REST connection: the octets of pipelined requests go through        *)
(* http_parser (src/REST/http_parser.c) in the chunks that recv() returns, *)
(* REST_URL collects what its callbacks hand over, and a complete request  *)
(* is authenticated (RESTServerConnection) and given to the handler of its *)
(* noun (ServerCmdQueue).  TCPServer models how the handler answers.       *)
(*                                                                         *)
(* The parser copies nothing: it marks where an URL, a header's name or    *)
(* value, or a body starts in the chunk, and hands over what lies between  *)
(* the mark and the end of the item, or of the chunk.  Across chunks an    *)
(* item is handed over in pieces.                                          *)
(*                                                                         *)
(* HttpText says what the octets of a text are, and what they mean.  Left  *)
(* out are responses, upgrades, folded header lines and the limits on      *)
(* sizes.                                                                  *)
(***************************************************************************)
EXTENDS HttpText

CONSTANTS
  Requests,          \* what the client may send: url, headers, body and text
  Nouns,             \* first parts of a path that have a handler
  Json,              \* the bodies that are JSON
  AuthName,          \* the names of the headers Authorization,
  DateName,          \*   X-auth-date
  KeyName,           \*   and X-auth-key
  Secrets,           \* the keys that have a secret: getAPISecret
  SignedAs(_),       \* what a header Authorization is the HMAC of
  Signings,          \* what the clients ever signed: path, body, date and key
  Times, Window,     \* what time() may return, and the seconds a date may be off
  MustAuthenticate,  \* apiSecretMustAuthenticate()
  MaxRequests        \* bound: requests of the connection

ASSUME RequestAssumption ==
  MustAuthenticate \in BOOLEAN /\ MaxRequests \in Nat /\ Times \subseteq Nat /\ Window \in Nat

\* The fields of a request are what its text means.
ASSUME TextAssumption == \A r \in Requests : Meant(r)

\* No JSON has a NUL in it.
ASSUME JsonAssumption == \A j \in Json : j \in Seq(Octets) /\ \A i \in DOMAIN j : j[i] # "NUL"

\* Nobody signs who has no secret: what may be cut out of a text is only an HMAC of
\* what was signed some time, for this request or for another.
ASSUME SignAssumption ==
  \A r \in Requests : \A t \in Pieces(r.text) : SignedAs(t) \subseteq Signings

\* yuarel takes the url apart.
Url == INSTANCE Yuarel WITH MaxParts <- 10, MaxQueries <- 10

\* A pointer is the set of what it points to: {} is NULL.
Null == {}

ParserStates ==
  {"start_req", "req_method", "spaces_before_url", "http_start", "http_end",
   "header_field_start", "header_field", "header_value_discard_ws",
   "header_value_discard_lws", "header_value", "header_value_lws",
   "body_identity", "chunk_size_start", "chunk_size", "chunk_parameters",
   "chunk_data", "chunk_data_almost_done", "dead"} \cup UrlStates

VARIABLES
  parser,   \* http_parser: its state, header_state as the text seen of a
            \* header, content_length, flags and errno
  mark,     \* the item whose mark is set, and the octets since
  rs,       \* REST_URL: the request that is being collected
  todo,     \* octets of the last request that are still to be parsed
  fed,      \* the chunk has octets
  asked,    \* the requests of the client
  torn,     \* ghost: a chunk ended within the url or a header of the last one
  calls,    \* the requests that were completed and what became of them
  died      \* json::parse has thrown: nothing catches it

outcome == <<calls, died>>
vars == <<parser, mark, rs, todo, fed, asked, torn, calls, died>>

Init ==
  /\ parser = [state |-> "start_req", name |-> <<>>, value |-> <<>>,
               length |-> 0, flags |-> {}, error |-> FALSE]
  /\ mark = [item |-> "none", text |-> <<>>]
  /\ rs = [url |-> Null, current |-> Null, headers |-> <<>>, body |-> Null]
  /\ todo = <<>> /\ fed = FALSE
  /\ asked = <<>>
  /\ torn = FALSE
  /\ calls = <<>>
  /\ died = FALSE

-----------------------------------------------------------------------------
(* REST_URL: the callbacks.                                                *)

\* REST_URL::clear
Cleared == [url |-> Null, current |-> Null, headers |-> <<>>, body |-> Null]

\* strlen: how far a string goes
Strlen(text) ==
  CHOOSE n \in 0..Len(text) :
    /\ \A i \in 1..n : text[i] # "NUL"
    /\ n = Len(text) \/ text[n + 1] = "NUL"

\* strndup and strncat take a text up to the first NUL.  The parser lets none into
\* an url or the name of a header.
CString(text) == SubSeq(text, 1, Strlen(text))

OnUrl(r, text) == [r EXCEPT !.url = {text}]

\* Variant with a fault: only the last piece of a body is kept.
OnBodyLast(r, text) == [r EXCEPT !.body = {CString(text)}]

OnBody(r, text) ==
  [r EXCEPT !.body = IF @ = Null THEN {CString(text)} ELSE {b \o CString(text) : b \in @}]

OnHeaderField(r, text) == [r EXCEPT !.current = {text}]

\* A value goes under the current name, and is the current name itself from
\* then on.
OnHeaderValue(r, text) ==
  [r EXCEPT !.headers = [n \in DOMAIN @ \cup r.current |->
                           IF n \in r.current THEN text ELSE @[n]],
            !.current = {text}]

OnHeadersComplete(r) == [r EXCEPT !.current = Null]

\* CALLBACK_DATA: hand over what the mark has collected.
HandOver(r, m) ==
  CASE m.item = "url"   -> OnUrl(r, m.text)
    [] m.item = "field" -> OnHeaderField(r, m.text)
    [] m.item = "value" -> OnHeaderValue(r, m.text)
    [] m.item = "body"  -> OnBody(r, m.text)
    [] m.item = "none"  -> r

NoMark == [item |-> "none", text |-> <<>>]
Marked(item, b) == [item |-> item, text |-> <<b>>]
Grown(m, b) == [m EXCEPT !.text = Append(@, b)]

-----------------------------------------------------------------------------
(* A complete request.                                                     *)

Header(r, name) == IF name \in DOMAIN r.headers THEN r.headers[name] ELSE <<>>

\* atoll: blanks, then digits; 0 if there are none
Seconds(text) ==
  LET read[i \in 0..Len(text)] ==
        CASE i = 0 -> [at |-> "blanks", value |-> 0]
          [] i > 0 /\ text[i] = " " /\ read[i - 1].at = "blanks" -> read[i - 1]
          [] i > 0 /\ text[i] \in DOMAIN Digit /\ read[i - 1].at # "end" ->
               [at |-> "digits", value |-> read[i - 1].value * 10 + Digit[text[i]]]
          [] OTHER -> [read[i - 1] EXCEPT !.at = "end"]
  IN  read[Len(text)].value

InWindow(date, now) == Seconds(date) <= now + Window /\ now <= Seconds(date) + Window

\* bodyHash: an empty body and an empty object have the digest of no body.
Hashed(body) == IF body \subseteq {<<>>, <<"{", "}">>} THEN Null ELSE body

\* What is to be signed for a request.
ToSign(r, u) == [path |-> Url!Path(u), body |-> Hashed(r.body),
                 date |-> Header(r, DateName), key |-> Header(r, KeyName)]

\* Variant with a fault: the date is not part of what is signed.
ValidateAnyDate(r, now) ==
  /\ InWindow(Header(r, DateName), now)
  /\ Header(r, KeyName) \in Secrets
  /\ \E u \in r.url : \E s \in SignedAs(Header(r, AuthName)) :
       ToSign(r, u) = [s EXCEPT !.date = Header(r, DateName)]

\* RESTServerConnection::validateRequestCredentials
ValidateRequestCredentials(r, now) ==
  /\ InWindow(Header(r, DateName), now)
  /\ Header(r, KeyName) \in Secrets
  /\ \E u \in r.url : ToSign(r, u) \in SignedAs(Header(r, AuthName))

\* The first part of the path has a handler.
HasHandler(r) ==
  \E u \in r.url : Url!Path(u) # <<>> /\ Head(Url!Path(u)) \in Nouns

Verdict(r, now) ==
  IF MustAuthenticate /\ ~ValidateRequestCredentials(r, now) THEN "denied"
  ELSE IF HasHandler(r) THEN "run" ELSE "not implemented"

\* The buffers are freed before the callback copies the request.
Freed(r) == [r EXCEPT !.url = Null, !.body = Null, !.current = Null]

\* on_message_complete, and RESTServerConnection's callback in it
MessageComplete(r) ==
  \/ /\ r.body # Null /\ r.body \cap Json = {}
     /\ died' = TRUE
     /\ rs' = r
     /\ UNCHANGED calls
  \/ /\ r.body \cap Json = r.body
     /\ rs' = Freed(r)
     /\ \E now \in Times :
          calls' = Append(calls, [request |-> r, verdict |-> Verdict(r, now),
                                  now |-> now, torn |-> torn])
     /\ UNCHANGED died

-----------------------------------------------------------------------------
(* http_parser_execute: one action per state of the parser, for octet b.   *)

Go(s) == parser' = [parser EXCEPT !.state = s]
Fail == parser' = [parser EXCEPT !.error = TRUE] /\ mark' = NoMark
\* Variant with a fault: the mark stays.
CollectKeeps == rs' = HandOver(rs, mark) /\ UNCHANGED mark

Collect == rs' = HandOver(rs, mark) /\ mark' = NoMark

\* NEW_MESSAGE: without keep-alive nothing more is accepted.
NewMessage(p) ==
  IF p.flags \cap {"close", "old"} # {} THEN "dead" ELSE "start_req"

Dead(b) ==
  /\ parser.state = "dead"
  /\ IF b = "NL" THEN UNCHANGED <<parser, mark>> ELSE Fail
  /\ UNCHANGED <<rs, outcome>>

StartReq(b) ==
  /\ parser.state = "start_req"
  /\ UNCHANGED outcome
  /\ \/ b = "NL" /\ UNCHANGED <<parser, mark, rs>>
     \/ /\ b = "M"
        /\ parser' = [parser EXCEPT !.state = "req_method", !.length = 0,
                                    !.flags = {}]
        /\ rs' = Cleared  \* on_message_begin
        /\ UNCHANGED mark
     \/ b \notin {"NL", "M"} /\ Fail /\ UNCHANGED rs

ReqMethod(b) ==
  /\ parser.state = "req_method"
  /\ IF b = " " THEN Go("spaces_before_url") /\ UNCHANGED mark ELSE Fail
  /\ UNCHANGED <<rs, outcome>>

ReqSpacesBeforeUrl(b) ==
  /\ parser.state = "spaces_before_url"
  /\ IF b = " " THEN UNCHANGED <<parser, mark>>
     ELSE LET s == UrlAfter(parser.state, b) IN
          IF s = "dead" THEN Fail ELSE Go(s) /\ mark' = Marked("url", b)
  /\ UNCHANGED <<rs, outcome>>

\* The octets of the url, and its end if it may end here.
ReqUrl(b) ==
  /\ parser.state \in UrlStates
  /\ CASE b = " " /\ parser.state \in UrlEnds -> Go("http_start") /\ Collect
       [] b = "NL" /\ parser.state \in UrlEnds ->
            /\ parser' = [parser EXCEPT !.state = "header_field_start",
                                        !.flags = @ \cup {"old"}]
            /\ Collect  \* HTTP/0.9
       [] OTHER -> LET s == UrlAfter(parser.state, b) IN
                   /\ IF s = "dead" THEN Fail ELSE Go(s) /\ mark' = Grown(mark, b)
                   /\ UNCHANGED rs
  /\ UNCHANGED outcome

ReqHttp(b) ==
  /\ \/ /\ parser.state = "http_start"
        /\ CASE b = " " -> UNCHANGED <<parser, mark>>
             [] b = "V" -> Go("http_end") /\ UNCHANGED mark
             [] OTHER -> Fail
     \/ /\ parser.state = "http_end"
        /\ IF b = "NL" THEN Go("header_field_start") /\ UNCHANGED mark ELSE Fail
  /\ UNCHANGED <<rs, outcome>>

\* The blank line after the headers: on_headers_complete, and what follows.
\* The parser is p by now, and the request collected so far r.
HeadersDone(p, r) ==
  LET done == OnHeadersComplete(r)
      trailing == "trailing" \in p.flags
      chunked == "chunked" \in p.flags
      unclear == ~trailing /\ chunked /\ "length" \in p.flags
      next == IF unclear THEN p.state
              ELSE IF trailing THEN NewMessage(p)
              ELSE IF chunked THEN "chunk_size_start"
              ELSE IF p.length > 0 THEN "body_identity"
              ELSE NewMessage(p)
  IN  /\ parser' = [p EXCEPT !.state = next, !.error = unclear]
      /\ IF next \in {"start_req", "dead"}
         THEN MessageComplete(IF trailing THEN r ELSE done)
         ELSE rs' = (IF unclear THEN r ELSE done) /\ UNCHANGED outcome

\* header_field_start: a line or the end of the headers.
HeaderFieldStart(b, p, r) ==
  \/ /\ b = "NL"
     /\ mark' = NoMark
     /\ HeadersDone(p, r)
  \/ /\ b \in NoToken
     /\ Fail
     /\ rs' = r
     /\ UNCHANGED outcome
  \/ /\ b # "NL" /\ b \notin NoToken
     /\ parser' = [p EXCEPT !.state = "header_field", !.name = <<b>>]
     /\ mark' = Marked("field", b)
     /\ rs' = r
     /\ UNCHANGED outcome

HeaderFieldFirst(b) ==
  /\ parser.state = "header_field_start"
  /\ HeaderFieldStart(b, parser, rs)

HeaderField(b) ==
  /\ parser.state = "header_field"
  /\ CASE b = ":" -> Go("header_value_discard_ws") /\ Collect
       [] b = "NL" \/ b \in NoToken \ {":"} -> Fail /\ UNCHANGED rs
       [] OTHER -> /\ parser' = [parser EXCEPT !.name = Append(@, b)]
                   /\ mark' = Grown(mark, b)
                   /\ UNCHANGED rs
  /\ UNCHANGED outcome

\* The parser reads a content length itself, whatever rs makes of the header;
\* blanks may follow it.
LengthOctet(b) ==
  IF parser.state = "header_value"
  THEN b = " " \/ (b \in DOMAIN Digit /\ \A i \in DOMAIN parser.value : parser.value[i] # " ")
  ELSE b \in DOMAIN Digit /\ "length" \notin parser.flags

ValueOctet(b, value, m) ==
  LET p == [parser EXCEPT !.state = "header_value", !.value = Append(value, b)]
  IN  IF parser.name # <<"L">> THEN parser' = p /\ mark' = m
      ELSE IF ~LengthOctet(b) THEN Fail
      ELSE /\ mark' = m
           /\ parser' = [p EXCEPT !.flags = @ \cup {"length"},
                           !.length = IF b = " " THEN @
                                      ELSE IF value = <<>> THEN Digit[b]
                                      ELSE @ * 10 + Digit[b]]

HeaderValueDiscardWs(b) ==
  /\ parser.state = "header_value_discard_ws"
  /\ CASE b = " " -> UNCHANGED <<parser, mark>>
       [] b = "NL" -> Go("header_value_discard_lws") /\ UNCHANGED mark
       [] OTHER -> ValueOctet(b, <<>>, Marked("value", b))
  /\ UNCHANGED <<rs, outcome>>

HeaderValue(b) ==
  /\ parser.state = "header_value"
  /\ CASE b = "NL" -> Go("header_value_lws") /\ Collect
       [] b = "NUL" -> Fail /\ UNCHANGED rs
       [] OTHER -> ValueOctet(b, parser.value, Grown(mark, b)) /\ UNCHANGED rs
  /\ UNCHANGED outcome

\* What a finished header line means to the parser.
LineFlags == parser.flags \cup Said(parser.name, parser.value)

\* The octet after a header line belongs to the next one (it is no blank: lines
\* are not folded).  An empty value is handed over only now.
HeaderValueLws(b) ==
  \/ /\ parser.state = "header_value_lws"
     /\ HeaderFieldStart(b, [parser EXCEPT !.flags = LineFlags], rs)
  \/ /\ parser.state = "header_value_discard_lws"
     /\ IF parser.name = <<"L">>
        THEN Fail /\ UNCHANGED <<rs, outcome>>
        ELSE HeaderFieldStart(b, parser, OnHeaderValue(rs, <<>>))

\* The mark of a body is set by its first octet in a chunk.
BodyMark(b) == IF mark.item = "body" THEN Grown(mark, b) ELSE Marked("body", b)

BodyIdentity(b) ==
  /\ parser.state = "body_identity"
  /\ \/ /\ parser.length = 1
        /\ parser' = [parser EXCEPT !.state = NewMessage(parser), !.length = 0]
        /\ MessageComplete(HandOver(rs, BodyMark(b)))
        /\ mark' = NoMark
     \/ /\ parser.length > 1
        /\ parser' = [parser EXCEPT !.length = @ - 1]
        /\ mark' = BodyMark(b)
        /\ UNCHANGED <<rs, outcome>>

\* The line of a chunk's size ends.
SizeRead ==
  parser' = IF parser.length > 0 THEN [parser EXCEPT !.state = "chunk_data"]
            ELSE [parser EXCEPT !.state = "header_field_start", !.flags = @ \cup {"trailing"}]

\* A chunk of a body in Transfer-Encoding chunked: its size, maybe parameters, a
\* line end, so many octets and a line end.  After a chunk of size 0 there may be
\* more headers.
ChunkSize(b) ==
  /\ \/ /\ parser.state = "chunk_size_start"
        /\ parser' = IF b \in DOMAIN Hex
                     THEN [parser EXCEPT !.state = "chunk_size", !.length = Hex[b]]
                     ELSE [parser EXCEPT !.error = TRUE]
     \/ /\ parser.state = "chunk_size"
        /\ CASE b = "NL" -> SizeRead
             [] b \in DOMAIN Hex -> parser' = [parser EXCEPT !.length = @ * 16 + Hex[b]]
             [] b \in {" ", ";"} -> Go("chunk_parameters")
             [] OTHER -> parser' = [parser EXCEPT !.error = TRUE]
     \/ /\ parser.state = "chunk_parameters"
        /\ IF b = "NL" THEN SizeRead ELSE UNCHANGED parser
  /\ UNCHANGED <<mark, rs, outcome>>

ChunkData(b) ==
  /\ \/ /\ parser.state = "chunk_data"
        /\ parser' = [parser EXCEPT !.length = @ - 1,
                        !.state = IF parser.length = 1 THEN "chunk_data_almost_done" ELSE @]
        /\ mark' = BodyMark(b)
        /\ UNCHANGED rs
     \/ /\ parser.state = "chunk_data_almost_done"
        /\ IF b = "NL" THEN Go("chunk_size_start") /\ Collect ELSE Fail /\ UNCHANGED rs
  /\ UNCHANGED outcome

\* Variant with a fault: an error lets the parser go on.
ParseOn(b) ==
  \/ Dead(b) \/ StartReq(b) \/ ReqMethod(b) \/ ReqSpacesBeforeUrl(b)
  \/ ReqUrl(b) \/ ReqHttp(b) \/ HeaderFieldFirst(b) \/ HeaderField(b)
  \/ HeaderValueDiscardWs(b) \/ HeaderValue(b) \/ HeaderValueLws(b)
  \/ BodyIdentity(b) \/ ChunkSize(b) \/ ChunkData(b)

\* After an error nothing is parsed any more; processData returns a count that
\* nobody looks at.
Parse(b) ==
  IF parser.error THEN UNCHANGED <<parser, mark, rs, outcome>>
  ELSE \/ Dead(b) \/ StartReq(b) \/ ReqMethod(b) \/ ReqSpacesBeforeUrl(b)
       \/ ReqUrl(b) \/ ReqHttp(b) \/ HeaderFieldFirst(b) \/ HeaderField(b)
       \/ HeaderValueDiscardWs(b) \/ HeaderValue(b) \/ HeaderValueLws(b)
       \/ BodyIdentity(b) \/ ChunkSize(b) \/ ChunkData(b)

-----------------------------------------------------------------------------
\* The client sends another request.
Ask(r) ==
  /\ ~died
  /\ todo = <<>>
  /\ Len(asked) < MaxRequests
  /\ asked' = Append(asked, r)
  /\ todo' = r.text
  /\ torn' = FALSE
  /\ UNCHANGED <<parser, mark, rs, fed, outcome>>

\* The next octet of the chunk.
Octet ==
  /\ ~died
  /\ todo # <<>>
  /\ Parse(Head(todo))
  /\ todo' = Tail(todo)
  /\ fed' = TRUE
  /\ UNCHANGED <<asked, torn>>

\* Variant with a fault: what is marked at the end of a chunk is lost.
ChunkEndLoses ==
  /\ ~died /\ fed
  /\ mark' = IF mark.item \in {"none", "body"} THEN NoMark ELSE [mark EXCEPT !.text = <<>>]
  /\ torn' = (torn \/ mark.item \in {"url", "field", "value"})
  /\ fed' = FALSE
  /\ UNCHANGED <<parser, rs, todo, asked, outcome>>

\* The chunk ends: what is marked is handed over, and the next one starts with
\* the mark at its first octet.
ChunkEnd ==
  /\ ~died /\ fed
  /\ rs' = HandOver(rs, mark)
  /\ mark' = IF mark.item \in {"none", "body"} THEN NoMark ELSE [mark EXCEPT !.text = <<>>]
  /\ torn' = (torn \/ mark.item \in {"url", "field", "value"})
  /\ fed' = FALSE
  /\ UNCHANGED <<parser, todo, asked, outcome>>

Next ==
  \/ \E r \in Requests : Ask(r)
  \/ Octet
  \/ ChunkEnd

Spec == Init /\ [][Next]_vars

-----------------------------------------------------------------------------
(* Properties.                                                             *)

\* The state is one of the parser's, and its own assertions hold: a mark is that
\* of the state, a body has octets to come, and only a chunked one has chunks.
TypeOK ==
  /\ parser.state \in ParserStates
  /\ parser.length \in Nat
  /\ parser.flags \subseteq {"length", "chunked", "trailing", "close", "old"}
  /\ \/ mark.item = "none"
     \/ mark.item = "url" /\ parser.state \in UrlStates
     \/ mark.item = "field" /\ parser.state = "header_field"
     \/ mark.item = "value" /\ parser.state = "header_value"
     \/ /\ mark.item = "body"
        /\ parser.state \in {"body_identity", "chunk_data", "chunk_data_almost_done"}
  /\ parser.state \in {"body_identity", "chunk_data"} => parser.length > 0
  /\ parser.state \in {"chunk_size_start", "chunk_size", "chunk_parameters", "chunk_data",
                      "chunk_data_almost_done"} => "chunked" \in parser.flags
  /\ Len(asked) <= MaxRequests

\* What is kept of a body: the octets up to its first NUL, all of them if there is
\* none, and never more than were sent.
Kept(kept, sent) ==
  /\ kept = Null <=> sent = Null
  /\ \A k \in kept : \A s \in sent :
       /\ Strlen(s) <= Len(k) /\ Len(k) <= Len(s)
       /\ \A i \in 1..Strlen(s) : k[i] = s[i]

\* The body of a completed request is what the client sent for it, however it was
\* cut and whatever came before it, up to a NUL: what is kept of the octets after
\* one depends on the cut, but nothing is added.  Its url and headers are those sent
\* unless a chunk ended within one of them.
RequestAsSent ==
  \A k \in DOMAIN calls :
    LET r == calls[k].request IN
      /\ Kept(r.body, asked[k].body)
      /\ ~calls[k].torn => r.url = {asked[k].url} /\ r.headers = asked[k].headers

\* Where a request ends does not depend on the chunks: once all octets of the
\* client's well-formed requests are parsed, each of them was completed, up to
\* the first that closes the connection or whose body is no JSON.
Framed ==
  LET Stops(k) == ~asked[k].wellFormed \/ asked[k].close
  IN  /\ Len(calls) <= Len(asked)
      /\ \A k \in 1..Len(calls) : \A j \in 1..(k - 1) : ~Stops(j)
      /\ todo = <<>> /\ ~died /\ (\A k \in 1..(Len(asked) - 1) : ~Stops(k)) =>
           Len(calls) = Len(asked) \/ ~asked[Len(asked)].wellFormed

\* A handler only runs for the path and the body of something the client signed, for
\* a key that has a secret and a date that is not long ago: however the chunks tear
\* the headers of a request, and if its signature or its date is another's.
OnlySignedRun ==
  MustAuthenticate =>
    \A k \in DOMAIN calls : calls[k].verdict # "denied" =>
      \E s \in Signings :
        /\ \E u \in calls[k].request.url : s.path = Url!Path(u)
        /\ s.body = Hashed(calls[k].request.body)
        /\ s.key \in Secrets
        /\ InWindow(s.date, calls[k].now)

\* The process dies of a request only if the body the client sent is not JSON:
\* no cut makes it parse half of one.
DiesOfItsBody ==
  died => LET body == asked[Len(asked)].body IN body # Null /\ body \cap Json = {}

\* What http_parser.h says of its callbacks, taken at its word: the headers of a
\* request are those the client sent, also when they come in several pieces.
HeadersAsSent ==
  \A k \in DOMAIN calls : calls[k].request.headers = asked[k].headers

=============================================================================
