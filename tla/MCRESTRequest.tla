---------------------------- MODULE MCRESTRequest ----------------------------
\* Instances of RESTRequest: what a client may send.
EXTENDS RESTRequest, SequencesExt

Line(n, v) == n \o (IF n = <<"a", "h">> \/ v = <<>> THEN <<":", " ">> ELSE <<":">>) \o v \o <<"NL">>

\* What was signed: a request without and one with a body today, and another one
\* on another day.
Signing(noun, body, date) == [path |-> <<noun>>, body |-> body, date |-> date, key |-> <<"u">>]
MCSigning ==
  <<Signing(<<"n">>, Null, <<"2">>), Signing(<<"n">>, {<<"b">>}, <<"2">>),
    Signing(<<"m">>, Null, <<"2", "0">>)>>
MCSignings == {MCSigning[i] : i \in 1..3}
MCSignedAs(text) ==
  CASE text = <<"s", "1">> -> {MCSigning[1]}
    [] text = <<"s", "2">> -> {MCSigning[2]}
    [] text = <<"s", "3">> -> {MCSigning[3]}
    [] OTHER -> {}

Request(url, lines, tail, body) ==
  [url |-> url, body |-> body, wellFormed |-> TRUE,
   close |-> \E i \in DOMAIN lines : lines[i][1] = <<"K">> /\ Head(lines[i][2]) = "X",
   headers |-> [n \in {lines[i][1] : i \in DOMAIN lines} |->
                  LET i == CHOOSE j \in DOMAIN lines : lines[j][1] = n
                  IN  lines[i][2]],
   text |-> <<"M", " ">> \o url \o <<" ", "V", "NL">>
              \o FlattenSeq([i \in DOMAIN lines |-> Line(lines[i][1], lines[i][2])])
              \o <<"NL">> \o tail]

Get(lines) == Request(<<"/", "n">>, lines, <<>>, Null)
Put(n, body, lines) ==
  Request(<<"/", "n">>, <<<<<<"L">>, <<n>>>>>> \o lines, body, {body})
Chunked(size, body, lines, trailer) ==
  LET r == Request(<<"/", "n">>, <<<<<<"T">>, <<"C">>>>>> \o lines \o trailer, <<>>, {body})
      text(hs) == FlattenSeq([i \in DOMAIN hs |-> Line(hs[i][1], hs[i][2])])
  IN  [r EXCEPT !.text = <<"M", " ", "/", "n", " ", "V", "NL">>
                         \o text(<<<<<<"T">>, <<"C">>>>>> \o lines) \o <<"NL">>
                         \o size \o <<"NL">> \o body \o <<"NL", "0", "NL">>
                         \o text(trailer) \o <<"NL">>]
Old == [url |-> <<"/", "n">>, body |-> Null, wellFormed |-> TRUE, close |-> TRUE,
        headers |-> <<>>, text |-> <<"M", " ", " ", "/", "n", "NL", "NL">>]
Bad(r, i, b) == [r EXCEPT !.wellFormed = FALSE, !.text[i] = b]

\* A signature, its date and its key.
Auth(v, date) == <<<<<<"a", "h">>, v>>, <<<<"d">>, date>>, <<<<"y">>, <<"u">>>>>>

\* An absolute url, and one that is wrong in octet i.
Absolute == Request(<<"h", ":", "/", "/", "h", "/", "n", "?", "z", "#">>, <<>>, <<>>, Null)

\* Every octet of the head of a request may be bad, a length may have no digit
\* or come with chunks.
MCMalformed ==
  LET r == Put("1", <<"b">>, <<>>)
      chunked == Chunked(<<"1">>, <<"b">>, <<>>, <<>>)
  IN  {Bad(r, i, "NUL") : i \in 1..12} \cup {Bad(r, i, "NL") : i \in {2, 3, 10}}
      \cup {Bad(Absolute, i, b) : i \in 4..7, b \in {" ", "#"}}
      \cup {[Chunked(<<"1">>, <<"b">>, <<<<<<"L">>, <<"1">>>>>>, <<>>)
               EXCEPT !.wellFormed = FALSE]}
      \cup {Bad(chunked, i, "NUL") : i \in {12, 13, 14, 16}}
      \cup {Bad(Get(<<<<<<"h">>, <<>>>>>>), 12, "NUL")}

\* Without signatures: the ways a request ends and what its body is.
MCUnsigned ==
  {Get(<<<<<<"h">>, <<>>>>, <<<<"K">>, <<"X", " ">>>>>>),
   Absolute,
   [Request(<<"/", "u">>, <<>>, <<>>, Null) EXCEPT
      !.text = <<"NL", "M", " ", "/", "u", " ", " ", "V", "NL", "NL">>],
   Chunked(<<"1">>, <<"z">>, <<>>, <<<<<<"h">>, <<>>>>>>),
   Put("1", <<"b">>, <<<<<<"h", "a">>, <<"z">>>>>>),
   Put("2", <<"b", "NUL">>, <<>>),
   Put("2", <<"NUL", "b">>, <<>>),
   Put("2", <<"b", "z">>, <<>>),
   Chunked(<<"0", "2", ";", "z">>, <<"{", "}">>, <<<<<<"h">>, <<>>>>>>, <<<<<<"z">>, <<"y">>>>>>),
   Old} \cup MCMalformed

\* With signatures: one that was made today, one of another day, one of a request
\* without a body at one that has a body, and one of a body with more after it.
MCSigned ==
  {Get(Auth(<<"s", "1">>, <<"2">>)),
   Request(<<"/", "m">>, Auth(<<"s", "3">>, <<"2", "0">>), <<>>, Null),
   Put("1", <<"b">>, Auth(<<"s", "1">>, <<"2">>)),
   Put("3", <<"b", "NUL", "z">>, Auth(<<"s", "2">>, <<"2">>))}

MCRequests == MCUnsigned \cup MCSigned

\* No step reads what was asked and completed before the last request, and the
\* invariants are checked as soon as a request is completed.  Later all that counts of
\* it is whether it ended the connection.
RequestView ==
  <<parser, mark, rs, todo, fed, torn, died, Len(calls),
    IF asked = <<>> THEN {} ELSE {asked[Len(asked)]},
    [k \in 1..(Len(asked) - 1) |-> <<asked[k].wellFormed, asked[k].close>>],
    IF Len(calls) < Len(asked) THEN <<>> ELSE calls>>

\* An object is no JSON before its last octet.
MCJson == {<<"b">>, <<"{", "}">>}
MCAuthName == <<"a", "h">>
MCDateName == <<"d">>
MCKeyName == <<"y">>
MCSecrets == {<<"u">>}
MCTimes == {2, 3}
MCToday == {2}
MCNouns == {<<"n">>, <<"m">>}
=============================================================================
