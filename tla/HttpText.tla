------------------------------ MODULE HttpText ------------------------------
(***************************************************************************)
(* What the text of one request means: its url, headers and body, and      *)
(* where it ends.  It is read as a whole, octet by octet: there are no     *)
(* chunks, no marks, no callbacks and no request before it.  RESTRequest   *)
(* models how http_parser and REST_URL come to the same.                   *)
(*                                                                         *)
(* An octet is a symbol.  "NUL" is the octet 0, and stands for all control *)
(* characters in the head of a request.  Some symbols are words: "M" is a  *)
(* method other than CONNECT, "V" is HTTP/1.1, "NL" is CR LF, inside which *)
(* no mark is set; "L", "T" and "K" are the names Content-Length,          *)
(* Transfer-Encoding and Connection, "C" and "X" the values chunked and    *)
(* close.  Small letters spell none of them.  What has no symbol is not    *)
(* sent: CR or LF alone, tabs, commas, signs, keep-alive and upgrade.      *)
(***************************************************************************)
EXTENDS Naturals, Sequences

\* The octets of a text.  A capital is a whole word.
Letters == {"a", "b", "c", "d", "e", "f", "g", "h", "i", "j", "k", "l", "m",
            "n", "o", "p", "q", "r", "s", "t", "u", "v", "w", "x", "y", "z"}
Figures == <<"0", "1", "2", "3", "4", "5", "6", "7", "8", "9",
             "a", "b", "c", "d", "e", "f">>
Words == {"M", "V", "NL", "L", "T", "K", "C", "X"}
Octets == Letters \cup {Figures[i] : i \in 1..10} \cup Words
            \cup {"NUL", " ", "/", ":", ";", "?", "#", "@", "*", "{", "}"}

\* The digits of a chunk's size, and those of a length or a date.
Hex == [d \in {Figures[i] : i \in 1..16} |-> (CHOOSE i \in 1..16 : Figures[i] = d) - 1]
Digit == [d \in {Figures[i] : i \in 1..10} |-> Hex[d]]

\* What may not stand in the name of a header (the table tokens).
NoToken == {"NUL", " ", ":", "/", ";", "?", "@", "{", "}", "V"}

-----------------------------------------------------------------------------
(* What an URL is made of.  The states of a query and of a fragment after  *)
(* and before their first octet differ in nothing.                         *)

UrlEnds == {"server", "server_with_at", "path", "query_string", "fragment"}
UrlStates == UrlEnds \cup {"schema", "schema_slash", "schema_slash_slash", "server_start"}

\* parse_url_char: where octet b of an URL leads; "dead" if it may not stand there
UrlAfter(s, b) ==
  LET server == {"server_start", "server", "server_with_at"}
      urlChar == b \notin {"NUL", " ", "NL", "?", "#"}
      userinfo == b \in Letters \cup DOMAIN Digit \cup {":", ";", "*"}
  IN  CASE s = "spaces_before_url" /\ b \in {"/", "*"} -> "path"
        [] s \in {"spaces_before_url", "schema"} /\ b \in Letters -> "schema"
        [] s = "schema" /\ b = ":" -> "schema_slash"
        [] s = "schema_slash" /\ b = "/" -> "schema_slash_slash"
        [] s = "schema_slash_slash" /\ b = "/" -> "server_start"
        [] s \in server /\ b = "/" -> "path"
        [] s \in server \cup {"path"} /\ b = "?" -> "query_string"
        [] s \in server \ {"server_with_at"} /\ b = "@" -> "server_with_at"
        [] s \in server /\ userinfo -> "server"
        [] s \in {"path", "query_string", "fragment"} /\ urlChar -> s
        [] s \in {"path", "query_string", "fragment"} /\ b = "#" -> "fragment"
        [] s \in {"query_string", "fragment"} /\ b = "?" -> s
        [] OTHER -> "dead"

-----------------------------------------------------------------------------
\* A point of the text: what is read there, what was read so far of the url, of
\* the header in hand and of the body, the headers before it, the octets left of
\* the body or chunk, and what the headers said of the connection.
Fresh == [at |-> "start_req", url |-> <<>>, name |-> <<>>, value |-> <<>>,
          headers |-> <<>>, body |-> {}, left |-> 0, flags |-> {}]

Moved(p, at) == [p EXCEPT !.at = at]
Refused(p) == Moved(p, "refused")

InHeaders == {"line", "no_length", "header_field", "header_value_discard_ws", "header_value"}

\* The request line.
AfterLine(p, b) ==
  CASE p.at = "start_req" /\ b = "NL" -> p
    [] p.at = "start_req" /\ b = "M" -> Moved(p, "req_method")
    [] p.at = "req_method" /\ b = " " -> Moved(p, "spaces_before_url")
    [] p.at = "spaces_before_url" /\ b = " " -> p
    [] p.at = "spaces_before_url" /\ UrlAfter(p.at, b) # "dead" ->
         [p EXCEPT !.at = UrlAfter(@, b), !.url = <<b>>]
    [] p.at \in UrlEnds /\ b = " " -> Moved(p, "http_start")
    [] p.at \in UrlEnds /\ b = "NL" -> [p EXCEPT !.at = "line", !.flags = @ \cup {"old"}]
    [] p.at \in UrlStates /\ UrlAfter(p.at, b) # "dead" ->
         [p EXCEPT !.at = UrlAfter(@, b), !.url = Append(@, b)]
    [] p.at = "http_start" /\ b = " " -> p
    [] p.at = "http_start" /\ b = "V" -> Moved(p, "http_end")
    [] p.at = "http_end" /\ b = "NL" -> Moved(p, "line")
    [] OTHER -> Refused(p)

\* The blank line: a chunked body may have no length, and ends with headers.
AfterHeaders(p) ==
  CASE "trailing" \in p.flags -> Moved(p, "done")
    [] "trailing" \notin p.flags /\ {"chunked", "length"} \subseteq p.flags -> Refused(p)
    [] "trailing" \notin p.flags /\ {"chunked", "length"} \cap p.flags = {"chunked"} ->
         Moved(p, "chunk_size_start")
    [] "trailing" \notin p.flags /\ "chunked" \notin p.flags ->
         Moved(p, IF p.left > 0 THEN "body_identity" ELSE "done")

\* A value replaces that of an earlier header of its name.
Stored(headers, name, value) ==
  [n \in DOMAIN headers \cup {name} |-> IF n = name THEN value ELSE headers[n]]

\* A value is a word, and maybe blanks.
Says(value, word) ==
  value # <<>> /\ value[1] = word /\ \A i \in 2..Len(value) : value[i] = " "

Said(name, value) ==
  CASE name = <<"T">> /\ Says(value, "C") -> {"chunked"}
    [] name = <<"K">> /\ Says(value, "X") -> {"close"}
    [] OTHER -> {}

\* Octet b of a value that is read as far as v.  A length has digits, at least
\* one, and then blanks; a request has one length.
AfterValue(p, v, b) ==
  LET q == [p EXCEPT !.at = "header_value", !.value = Append(v, b)]
      follows == IF v = <<>> THEN b \in DOMAIN Digit /\ "length" \notin p.flags
                 ELSE b = " " \/ (b \in DOMAIN Digit /\ \A i \in DOMAIN v : v[i] # " ")
      left == IF b = " " THEN p.left
              ELSE IF v = <<>> THEN Digit[b] ELSE p.left * 10 + Digit[b]
  IN  CASE p.name # <<"L">> -> q
        [] p.name = <<"L">> /\ follows ->
             [q EXCEPT !.flags = @ \cup {"length"}, !.left = left]
        [] OTHER -> Refused(p)

AfterHeader(p, b) ==
  CASE p.at = "line" /\ b = "NL" -> AfterHeaders(p)
    [] p.at = "line" /\ b # "NL" /\ b \notin NoToken ->
         [p EXCEPT !.at = "header_field", !.name = <<b>>]
    [] p.at = "header_field" /\ b = ":" -> Moved(p, "header_value_discard_ws")
    [] p.at = "header_field" /\ b # "NL" /\ b \notin NoToken ->
         [p EXCEPT !.name = Append(@, b)]
    [] p.at = "header_value_discard_ws" /\ b = " " -> p
    [] p.at = "header_value_discard_ws" /\ b = "NL" ->
         [p EXCEPT !.at = IF p.name = <<"L">> THEN "no_length" ELSE "line",
                   !.headers = Stored(@, p.name, <<>>)]
    [] p.at = "header_value_discard_ws" /\ b \notin {" ", "NL"} -> AfterValue(p, <<>>, b)
    [] p.at = "header_value" /\ b = "NL" ->
         [p EXCEPT !.at = "line", !.headers = Stored(@, p.name, p.value),
                   !.flags = @ \cup Said(p.name, p.value)]
    [] p.at = "header_value" /\ b \notin {"NL", "NUL"} -> AfterValue(p, p.value, b)
    [] OTHER -> Refused(p)

\* An octet of the body, which is none before its first.
More(body, b) == IF body = {} THEN {<<b>>} ELSE {Append(x, b) : x \in body}

AfterBody(p, b) ==
  CASE p.at \in {"body_identity", "chunk_data"} ->
         [p EXCEPT !.body = More(@, b), !.left = @ - 1,
                   !.at = IF p.left > 1 THEN @
                          ELSE IF @ = "chunk_data" THEN "chunk_data_almost_done" ELSE "done"]
    [] p.at = "chunk_data_almost_done" /\ b = "NL" -> Moved(p, "chunk_size_start")
    [] p.at = "chunk_size_start" /\ b \in DOMAIN Hex ->
         [p EXCEPT !.at = "chunk_size", !.left = Hex[b]]
    [] p.at = "chunk_size" /\ b \in DOMAIN Hex -> [p EXCEPT !.left = @ * 16 + Hex[b]]
    [] p.at = "chunk_size" /\ b \in {" ", ";"} -> Moved(p, "chunk_parameters")
    [] p.at = "chunk_parameters" /\ b # "NL" -> p
    [] p.at \in {"chunk_size", "chunk_parameters"} /\ b = "NL" /\ p.left > 0 ->
         Moved(p, "chunk_data")
    [] p.at \in {"chunk_size", "chunk_parameters"} /\ b = "NL" /\ p.left = 0 ->
         [p EXCEPT !.at = "line", !.flags = @ \cup {"trailing"}]
    [] OTHER -> Refused(p)

\* The point after octet b.  What follows a request or an error is not read.
After(p, b) ==
  CASE p.at \in {"done", "refused"} -> p
    [] p.at \in {"start_req", "req_method", "spaces_before_url", "http_start", "http_end"}
                  \cup UrlStates -> AfterLine(p, b)
    [] p.at \in InHeaders -> AfterHeader(p, b)
    [] OTHER -> AfterBody(p, b)

\* The points of a text, from the one before its first octet.
Reading(text) ==
  LET point[i \in 0..Len(text)] ==
        IF i = 0 THEN Fresh ELSE After(point[i - 1], text[i])
  IN  point

\* What may be cut out of a text.
Pieces(text) == {SubSeq(text, j, i) : j \in 1..(Len(text) + 1), i \in 0..Len(text)}

\* Nothing more is accepted after the request.
Closes(p) == {"close", "old"} \cap p.flags # {}

\* What is not read as the code would: a word counts as one octet, so no body or
\* url holds one, and no header is continued on a line that starts with a blank.
Unread(at, b) ==
  \/ at \in {"body_identity", "chunk_data"} /\ b \in Words
  \/ at \in UrlStates \cup {"spaces_before_url"} /\ b \in Words \ {"NL"}
  \/ at = "line" /\ b = " "

\* The fields of a request say what its text means: it is one whole request, or
\* it is refused.
Meant(r) ==
  LET point == Reading(r.text)
      end == point[Len(r.text)]
  IN  /\ r.text \in Seq(Octets)
      /\ \A i \in DOMAIN r.text :
           point[i - 1].at # "done" /\ ~Unread(point[i - 1].at, r.text[i])
      /\ IF r.wellFormed
         THEN /\ end.at = "done"
              /\ r.url = end.url /\ r.headers = end.headers /\ r.body = end.body
              /\ r.close = Closes(end)
         ELSE end.at = "refused"
=============================================================================
