------------------------------- MODULE Yuarel -------------------------------
(***************************************************************************)
(* How yuarel (src/REST/yuarel.c) takes an URL apart, and what REST_URL    *)
(* keeps of it.  The functions cut the string in place: each finds a       *)
(* character, writes NUL there and returns what follows, or NULL.  Here a  *)
(* cut is a pair of sequences, and a pointer the set of what it points to. *)
(***************************************************************************)
EXTENDS Naturals, Sequences

CONSTANTS
  MaxParts,   \* maxparts of REST_URL: 10
  MaxQueries  \* maxqueries of REST_URL: 10

Null == {}
The(pointer) == CHOOSE p \in pointer : TRUE

\* strchr: the first position of a character.
Find(s, ch) == {i \in DOMAIN s : s[i] = ch /\ \A j \in 1..(i - 1) : s[j] # ch}

From(s, i) == SubSeq(s, i, Len(s))

\* find_and_terminate: what is left of s, and what follows ch
Cut(s, ch) ==
  IF Find(s, ch) = {} THEN [left |-> s, rest |-> Null]
  ELSE LET i == The(Find(s, ch))
       IN  [left |-> SubSeq(s, 1, i - 1), rest |-> {From(s, i + 1)}]

\* parse_scheme: the scheme and what follows "://", if there is one
SchemeCut(s) ==
  {[left |-> SubSeq(s, 1, i - 1), rest |-> From(s, i + 3)] :
     i \in {j \in Find(s, ":") : /\ j > 1
                             /\ j + 2 <= Len(s)
                             /\ s[j + 1] = "/" /\ s[j + 2] = "/"}}

-----------------------------------------------------------------------------
NoUrl == [scheme |-> Null, username |-> Null, password |-> Null, host |-> Null,
          port |-> Null, path |-> Null, query |-> Null, fragment |-> Null]

\* The credentials before the host, if there is an @
Credentials(url, at) ==
  LET c == Cut(at.left, ":")
  IN  IF at.rest = Null THEN {[url EXCEPT !.host = {at.left}]}
      ELSE IF at.left = <<>> \/ c.rest = Null THEN {}
      ELSE {[url EXCEPT !.username = {c.left}, !.password = c.rest, !.host = at.rest]}

\* The port after the host
Port(url) ==
  LET c == Cut(The(url.host), ":")
  IN  IF c.left = <<>> \/ c.rest = {<<>>} THEN {}
      ELSE {[url EXCEPT !.host = {c.left}, !.port = c.rest]}

\* The scheme, host and path of an URL that is not relative, whose query and
\* fragment are cut off.  A part found before the failure stays.
Absolute(url, u) ==
  LET s == The(SchemeCut(u))
      p == Cut(s.rest, "/")
      found == [url EXCEPT !.scheme = {s.left}, !.path = p.rest]
      whole == UNION {Port(c) : c \in Credentials(found, Cut(p.left, "@"))}
  IN  IF SchemeCut(u) = {} \/ s.rest = <<>> THEN [ok |-> FALSE, url |-> url]
      ELSE IF whole = {} THEN [ok |-> FALSE, url |-> found]
      ELSE [ok |-> TRUE, url |-> The(whole)]

\* What is left of the query and the fragment
Main(url, u) ==
  IF u # <<>> /\ Head(u) = "/"
  THEN [ok |-> TRUE, url |-> [url EXCEPT !.path = Cut(u, "/").rest]]
  ELSE Absolute(url, u)

\* Variant with a fault: the query is looked for before the fragment.
ParseQueryFirst(u) ==
  LET q == Cut(u, "?")
      f == Cut(q.left, "#")
  IN  Main([NoUrl EXCEPT !.fragment = f.rest, !.query = q.rest], f.left)

\* yuarel_parse: whether it succeeds, and the parts
Parse(u) ==
  LET f == Cut(u, "#")
      q == Cut(f.left, "?")
  IN  Main([NoUrl EXCEPT !.fragment = f.rest, !.query = q.rest], q.left)

-----------------------------------------------------------------------------
\* A turn of the loop that splits a path: slashes are skipped, and the next part
\* ends before a slash.  path is what is left of it.
Part(p) ==
  LET path == The(p.path)
      first == {i \in DOMAIN path : path[i] # "/" /\ \A j \in 1..(i - 1) : path[j] = "/"}
      c == Cut(From(path, The(first)), "/")
  IN  IF p.path = Null \/ first = {} THEN [p EXCEPT !.path = Null]
      ELSE [path |-> c.rest, parts |-> Append(p.parts, c.left)]

\* yuarel_split_path
SplitPath(path, max) ==
  LET turn[n \in 0..max] ==
        IF n = 0 THEN [path |-> {path}, parts |-> <<>>] ELSE Part(turn[n - 1])
  IN  turn[max].parts

Param(text) == LET c == Cut(text, "=") IN [key |-> c.left, val |-> c.rest]

\* A turn of the loop that splits a query: the last parameter so far is cut in two.
CutLast(texts) ==
  LET c == Cut(texts[Len(texts)], "&")
  IN  IF c.rest = Null THEN texts
      ELSE Append([texts EXCEPT ![Len(texts)] = c.left], The(c.rest))

\* yuarel_parse_query: the last parameter has what is left.
ParseQuery(query, max) ==
  LET turn[n \in 1..max] == IF n = 1 THEN <<query>> ELSE CutLast(turn[n - 1])
  IN  IF query = <<>> THEN <<>> ELSE [i \in DOMAIN turn[max] |-> Param(turn[max][i])]

-----------------------------------------------------------------------------
\* on_message_complete: _path.  It does not look whether yuarel_parse failed.
Path(u) ==
  LET path == Parse(u).url.path
  IN  IF path = Null THEN <<>> ELSE SplitPath(The(path), MaxParts)

Text(val) == IF val = Null THEN <<>> ELSE The(val)

\* The parameters are stored from the last to the first.
Store(params) ==
  [k \in {params[i].key : i \in DOMAIN params} |->
     LET i == CHOOSE i \in DOMAIN params :
                params[i].key = k /\ \A j \in 1..(i - 1) : params[j].key # k
     IN  Text(params[i].val)]

\* on_message_complete: _queries
Queries(u) ==
  LET query == Parse(u).url.query
  IN  Store(IF query = Null THEN <<>>
            ELSE ParseQuery(The(query), MaxQueries))

=============================================================================
