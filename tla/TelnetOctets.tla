----------------------------- MODULE TelnetOctets -----------------------------
(***************************************************************************)
(* What a telnet receiver promises about the octets it is given: each of   *)
(* them means the same however TCP cuts the stream into chunks.            *)
(*                                                                         *)
(* The meaning of an octet depends on a mode alone.  What octets mean is   *)
(* handed over in their order; data may wait for more of it, but not for a *)
(* command, which is handed over as it comes, nor for the next chunk.      *)
(***************************************************************************)
EXTENDS Naturals, Sequences

CONSTANTS
  Octets,      \* the octets on the wire, IAC, SB and SE among them
  BufferLimit  \* the longest subnegotiation that is kept

Verbs == {"WILL", "WONT", "DO", "DONT"} \cap Octets

SubModes == {"SB_DATA", "SB_DATA_IAC"}

VARIABLES
  mode,    \* how the next octet is read
  opt,     \* the option of the subnegotiation under way
  sub,     \* what it has said so far
  due,     \* what was received and is not yet handed over
  events,  \* what the last step handed over
  between  \* no chunk is under way

ovars == <<mode, opt, sub, due, events, between>>

\* What may be handed over.
Items ==
  {<<"data", b>> : b \in Octets} \cup {<<"iac", b>> : b \in Octets}
    \cup {<<"negotiate", v, b>> : v \in Verbs, b \in Octets}
    \cup {<<"sub", b, s>> : b \in Octets, s \in Seq(Octets)}

OctetsInit ==
  /\ mode = "DATA"
  /\ opt \in Octets
  /\ sub = <<>>
  /\ due = <<>>
  /\ events = <<>>
  /\ between = TRUE

Room == Len(sub) < BufferLimit

\* What octet b means after an IAC.
IacMode(b) == IF b \in Verbs \cup {"SB"} THEN b ELSE "DATA"
IacItems(b) ==
  IF b \in Verbs \cup {"SB"} THEN <<>>
  ELSE IF b = "IAC" THEN <<<<"data", b>>>> ELSE <<<<"iac", b>>>>

\* How the octet after b is read, what is kept of b, and what b completes.
NextMode(b) ==
  CASE mode = "DATA" -> IF b = "IAC" THEN "IAC" ELSE "DATA"
    [] mode = "IAC" -> IacMode(b)
    [] mode \in Verbs -> "DATA"
    [] mode = "SB" -> "SB_DATA"
    [] mode = "SB_DATA" -> IF b = "IAC" THEN "SB_DATA_IAC"
                           ELSE IF Room THEN "SB_DATA" ELSE "DATA"
    [] mode = "SB_DATA_IAC" -> IF b = "SE" THEN "DATA"
                               ELSE IF b # "IAC" THEN IacMode(b)
                               ELSE IF Room THEN "SB_DATA" ELSE "DATA"

NextSub(b) ==
  IF NextMode(b) \notin SubModes THEN <<>>
  ELSE IF mode \in SubModes /\ NextMode(b) = "SB_DATA" THEN Append(sub, b)
  ELSE sub

Meaning(b) ==
  CASE mode = "DATA" -> IF b = "IAC" THEN <<>> ELSE <<<<"data", b>>>>
    [] mode = "IAC" -> IacItems(b)
    [] mode \in Verbs -> <<<<"negotiate", mode, b>>>>
    [] mode \in {"SB", "SB_DATA"} -> <<>>
    [] mode = "SB_DATA_IAC" -> IF b = "IAC" THEN <<>>
                               ELSE IF b = "SE" THEN <<<<"sub", opt, sub>>>>
                               ELSE <<<<"sub", opt, sub>>>> \o IacItems(b)

\* An octet comes; a first part of what is due is handed over.
Octet(b) ==
  LET all == due \o Meaning(b)
  IN  /\ mode' = NextMode(b)
      /\ opt' = IF mode = "SB" THEN b ELSE opt
      /\ sub' = NextSub(b)
      /\ between' = FALSE
      /\ \E n \in 0..Len(all) :
           /\ events' = SubSeq(all, 1, n)
           /\ due' = SubSeq(all, n + 1, Len(all))
      /\ due' # <<>> => mode' = "DATA"

\* The chunk ends: nothing is left waiting.
ChunkEnd ==
  /\ events' = due
  /\ due' = <<>>
  /\ between' = TRUE
  /\ UNCHANGED <<mode, opt, sub>>

OctetsNext == ChunkEnd \/ \E b \in Octets : Octet(b)

OctetsSpec == OctetsInit /\ [][OctetsNext]_ovars

=============================================================================
