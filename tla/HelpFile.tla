------------------------------ MODULE HelpFile ------------------------------
(***************************************************************************)
(* CmdLineHelp: the index of the help file (loadHelpFile), and the text of *)
(* a topic (helpForTopic), which is read from the file again when someone  *)
(* asks for it.                                                            *)
(*                                                                         *)
(* A line is of a kind: "start" and "label" lines hold a word, a colon and *)
(* a name in quotes, and the word of a "start" line is TOPIC-START; "end"  *)
(* is TOPIC-END, "text" any other line, comments and blank lines included. *)
(* A position in the file is the number of lines before it.                *)
(***************************************************************************)
EXTENDS Naturals, Sequences

NoTopics == <<>>

Unknown == [state |-> "LOAD_UNKNOWN", topic |-> "", start |-> 0, topics |-> NoTopics]

\* Variant with a fault: the name and the start of the last topic stay.
LoadKeeps(s, line, pos) ==
  CASE line.kind = "start" ->
         [s EXCEPT !.topic = line.name, !.start = pos, !.state = "LOAD_TOPIC"]
    [] line.kind = "label" -> [s EXCEPT !.topic = line.name]
    [] line.kind = "end" ->
         [s EXCEPT !.state = "LOAD_UNKNOWN",
                   !.topics = [t \in DOMAIN @ \cup {s.topic} |->
                                 IF t = s.topic THEN <<s.start, pos - 1>> ELSE @[t]]]
    [] line.kind = "text" -> s

\* The line of number pos is read in state s.  sscanf stores the name of every
\* line that has one; outside a topic it is forgotten with the next line.
Load(s, line, pos) ==
  LET r == IF s.state = "LOAD_UNKNOWN" THEN [s EXCEPT !.topic = "", !.start = 0] ELSE s
  IN  CASE line.kind = "start" ->
             [r EXCEPT !.topic = line.name, !.start = pos, !.state = "LOAD_TOPIC"]
        [] line.kind = "label" -> [r EXCEPT !.topic = line.name]
        [] line.kind = "end" ->
             [r EXCEPT !.state = "LOAD_UNKNOWN",
                       !.topics = [t \in DOMAIN @ \cup {r.topic} |->
                                     IF t = r.topic THEN <<r.start, pos - 1>> ELSE @[t]]]
        [] line.kind = "text" -> r

\* loadHelpFile: where the text of each topic starts and ends
LoadHelpFile(file) ==
  LET after[n \in 0..Len(file)] ==
        IF n = 0 THEN Unknown ELSE Load(after[n - 1], file[n], n)
  IN  after[Len(file)].topics

\* helpForTopic: what the file holds there now
HelpForTopic(topics, file, topic) ==
  IF topic \notin DOMAIN topics THEN <<>>
  ELSE SubSeq(file, topics[topic][1] + 1, topics[topic][2])

=============================================================================
