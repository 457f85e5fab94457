----------------------------- MODULE TelnetParser -----------------------------
(***************************************************************************)
(* The receiving half of libtelnet (src/Telnet/libtelnet.c, _process): a   *)
(* state machine fed with the chunks that recv() returns.  Data is not     *)
(* copied: it stays in the chunk from "start" on until a command or the    *)
(* end of the chunk hands it over, so a chunk must not end with data owed, *)
(* and no octet of a command may be left behind start.                     *)
(*                                                                         *)
(* A chunk is built octet by octet as the parser goes through it: its      *)
(* length is where the parser stands, i.                                   *)
(*                                                                         *)
(* Left out: the states and the decompression the server does not turn on  *)
(* (NVT_EOL and proxy flags are 0 at telnet_init, zlib is not compiled     *)
(* in), warnings and errors, which the connection's handler ignores, and a *)
(* failed realloc().                                                       *)
(***************************************************************************)
EXTENDS Naturals, Sequences

CONSTANTS
  Octets,       \* the octets on the wire
  BufferLimit,  \* the last of _buffer_sizes
  MaxChunk      \* bound: octets in a chunk

ASSUME ParserAssumption ==
  /\ {"IAC", "SB", "SE"} \subseteq Octets
  /\ BufferLimit \in Nat
  /\ MaxChunk \in Nat

Verbs == {"WILL", "WONT", "DO", "DONT"} \cap Octets

States == {"DATA", "IAC", "SB", "SB_DATA", "SB_DATA_IAC"} \cup Verbs

VARIABLES
  state,      \* telnet->state
  sb_telopt,  \* telnet->sb_telopt
  buffer,     \* telnet->buffer up to buffer_pos
  chunk,      \* _process: the chunk as far as i
  start,      \* _process: octets of the chunk before the pending data
  events      \* the events of the last step; data as one item per octet

vars == <<state, sb_telopt, buffer, chunk, start, events>>

Init ==
  /\ state = "DATA"
  /\ sb_telopt \in Octets
  /\ buffer = <<>>
  /\ chunk = <<>>
  /\ start = 0
  /\ events = <<>>

-----------------------------------------------------------------------------
i == Len(chunk)

\* The data event for the octets from start on.  Behind the end of the chunk
\* its size, an unsigned i - start, wraps around.
Pending ==
  IF start > i THEN <<<<"wrapped", start - i>>>>
  ELSE [k \in 1..(i - start) |-> <<"data", chunk[start + k]>>]

\* The data before an IAC
Flush == events' = Pending

\* Variant with a fault: the octet after a command is taken for data too.
KeepCommand == start' = start

\* start = i + 1
SkipCommand == start' = i + 1

\* Variant with a fault: one octet more than there is room for.
BufferByteMore(b) ==
  /\ Len(buffer) <= BufferLimit
  /\ buffer' = Append(buffer, b)
  /\ state' = "SB_DATA"
  /\ UNCHANGED start

\* _buffer_byte, and what its callers do when there is no room.  A subnegotiation
\* that is too long is given up, and the rest of it is read as data.
BufferByte(b) ==
  IF Len(buffer) < BufferLimit
  THEN /\ buffer' = Append(buffer, b)
       /\ state' = "SB_DATA"
       /\ UNCHANGED start
  ELSE /\ state' = "DATA"
       /\ SkipCommand
       /\ UNCHANGED buffer

\* A command after IAC: the next state, and the event.
IacState(b) == IF b \in Verbs \cup {"SB"} THEN b ELSE "DATA"
IacEvents(b) ==
  CASE b \in Verbs \cup {"SB"} -> <<>>
    [] b = "IAC" -> <<<<"data", b>>>>
    [] OTHER -> <<<<"iac", b>>>>

SubEvent == <<"sub", sb_telopt, buffer>>

-----------------------------------------------------------------------------
(* One case of the loop's switch each.                                     *)

Data(b) ==
  /\ state = "DATA"
  /\ IF b = "IAC" THEN Flush /\ state' = "IAC"
                  ELSE events' = <<>> /\ UNCHANGED state
  /\ UNCHANGED <<start, sb_telopt, buffer>>

Iac(b) ==
  /\ state = "IAC"
  /\ state' = IacState(b)
  /\ events' = IacEvents(b)
  /\ IF IacState(b) = "DATA" THEN SkipCommand ELSE UNCHANGED start
  /\ UNCHANGED <<sb_telopt, buffer>>

Negotiate(b) ==
  /\ state \in Verbs
  /\ events' = <<<<"negotiate", state, b>>>>
  /\ state' = "DATA"
  /\ SkipCommand
  /\ UNCHANGED <<sb_telopt, buffer>>

Sb(b) ==
  /\ state = "SB"
  /\ sb_telopt' = b
  /\ buffer' = <<>>
  /\ state' = "SB_DATA"
  /\ events' = <<>>
  /\ UNCHANGED start

SbData(b) ==
  /\ state = "SB_DATA"
  /\ events' = <<>>
  /\ \/ /\ b = "IAC"
        /\ state' = "SB_DATA_IAC"
        /\ UNCHANGED <<start, buffer>>
     \/ /\ b = "WILL" /\ sb_telopt = "COMPRESS"  \* MCCP 1 ends with WILL SE
        /\ state' = "DATA"
        /\ start' = i + 2
        /\ UNCHANGED buffer
     \/ /\ b # "IAC" /\ ~(b = "WILL" /\ sb_telopt = "COMPRESS")
        /\ BufferByte(b)
  /\ UNCHANGED sb_telopt

\* An octet that is neither IAC nor SE ends the subnegotiation too, and a
\* recursive call takes it for a command of its own.
SbDataIac(b) ==
  /\ state = "SB_DATA_IAC"
  /\ \/ /\ b = "SE"
        /\ state' = "DATA"
        /\ events' = <<SubEvent>>
        /\ SkipCommand
        /\ UNCHANGED buffer
     \/ /\ b = "IAC"
        /\ events' = <<>>
        /\ BufferByte(b)
     \/ /\ b \notin {"SE", "IAC"}
        /\ state' = IacState(b)
        /\ events' = <<SubEvent>> \o IacEvents(b)
        /\ SkipCommand
        /\ UNCHANGED buffer
  /\ UNCHANGED sb_telopt

Process(b) ==
  /\ i < MaxChunk
  /\ chunk' = Append(chunk, b)
  /\ \/ Data(b) \/ Iac(b) \/ Negotiate(b) \/ Sb(b) \/ SbData(b) \/ SbDataIac(b)

\* The end of the chunk
ProcessEnd ==
  /\ chunk # <<>>
  /\ events' = IF state = "DATA" THEN Pending ELSE <<>>
  /\ chunk' = <<>>
  /\ start' = 0
  /\ UNCHANGED <<state, sb_telopt, buffer>>

Next == ProcessEnd \/ \E b \in Octets : Process(b)

Spec == Init /\ [][Next]_vars

-----------------------------------------------------------------------------
(* Properties.                                                             *)

\* The types; a subnegotiation never outgrows its buffer, and wherever a chunk
\* is cut, what is pending begins within what is read of it, so that the
\* unsigned i - start of _process never wraps around.
TypeOK ==
  /\ state \in States
  /\ sb_telopt \in Octets
  /\ buffer \in Seq(Octets) /\ Len(buffer) <= BufferLimit
  /\ chunk \in Seq(Octets) /\ i <= MaxChunk
  /\ start \in 0..i

\* The stream as its receiver understands it.
Stream == INSTANCE TelnetOctets WITH
  mode <- state,
  opt <- sb_telopt,
  sub <- IF state \in {"SB_DATA", "SB_DATA_IAC"} THEN buffer ELSE <<>>,
  due <- IF state = "DATA" THEN Pending ELSE <<>>,
  between <- chunk = <<>>

\* However recv() cuts the stream, every octet of data is handed over once, in
\* order and before the next chunk, every command in its place among the data,
\* and a subnegotiation as it was sent.
KeepsStream == Stream!OctetsSpec

=============================================================================
