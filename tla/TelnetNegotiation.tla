--------------------------- MODULE TelnetNegotiation ---------------------------
(***************************************************************************)
(* How a terminal connection agrees on telnet options: the RFC 1143 queue  *)
(* of libtelnet (src/Telnet/libtelnet.c) at the server's end, the requests *)
(* TelnetServerConnection makes when it opens, and a client that runs the  *)
(* same library and whose user may change his mind at any time.            *)
(*                                                                         *)
(* A link <<o, e>> is the question whether end e performs option o.  End e *)
(* keeps it in the "us" half of its state and speaks WILL and WONT, the    *)
(* other end keeps it in the "him" half and speaks DO and DONT.  The code  *)
(* for the two halves is the same but for these names, so a command is    *)
(* "on" or "off".  The handlers of one link touch no other, so each link   *)
(* has its part of the stream for itself.                                  *)
(***************************************************************************)
EXTENDS Naturals, Sequences

CONSTANTS
  Options,  \* the telnet options
  MaxAsks   \* bound: requests of the client's user

ASSUME AsksAssumption == MaxAsks \in Nat

Ends == {"server", "client"}
Other(e) == IF e = "server" THEN "client" ELSE "server"

Links == Options \X Ends

\* RP_telopts: what the server will turn on when it is asked to.
Telopts == {<<"NAWS", "server">>, <<"NAWS", "client">>, <<"TTYPE", "client">>}

\* didOpen: what the server asks for.
Opening == {<<"NVT_EOL", "server">>, <<"LINEMODE", "client">>,
            <<"ECHO", "server">>, <<"NAWS", "client">>, <<"TTYPE", "client">>}

Commands == {"on", "off"}

QStates == {"NO", "YES", "WANTNO", "WANTYES", "WANTNO_OP", "WANTYES_OP"}

VARIABLES
  accepts,  \* what the client will turn on when it is asked to
  q,        \* q[e][l]: e's half of the state of link l
  wire,     \* wire[e][l]: commands of e about l, not yet received
  opened,   \* didOpen has run
  asks,     \* requests of the client's user so far
  wish      \* ghost: the last of them, unless the client's table changed it

vars == <<accepts, q, wire, opened, asks, wish>>

TypeOK ==
  /\ accepts \subseteq Links
  /\ q \in [Ends -> [Links -> QStates]]
  /\ wire \in [Ends -> [Links -> Seq(Commands)]]
  /\ opened \in BOOLEAN
  /\ asks \in 0..MaxAsks
  /\ wish \in [Links -> Commands \cup {"none"}]

Init ==
  /\ accepts \in SUBSET Links
  /\ q = [e \in Ends |-> [l \in Links |-> "NO"]]
  /\ wire = [e \in Ends |-> [l \in Links |-> <<>>]]
  /\ opened = FALSE
  /\ asks = 0
  /\ wish = [l \in Links |-> "none"]

-----------------------------------------------------------------------------
(* telnet_negotiate: the state after a request, and what is sent for it.   *)

AskedOn ==
  [NO |-> "WANTYES", YES |-> "YES", WANTNO |-> "WANTNO_OP",
   WANTYES |-> "WANTYES", WANTNO_OP |-> "WANTNO_OP", WANTYES_OP |-> "WANTYES"]

\* Variant with a fault: a request to turn off is lost while one to turn on is
\* out.
AskedOffLost ==
  [NO |-> "NO", YES |-> "WANTNO", WANTNO |-> "WANTNO",
   WANTYES |-> "WANTYES", WANTNO_OP |-> "WANTNO", WANTYES_OP |-> "WANTYES_OP"]

AskedOff ==
  [NO |-> "NO", YES |-> "WANTNO", WANTNO |-> "WANTNO",
   WANTYES |-> "WANTYES_OP", WANTNO_OP |-> "WANTNO", WANTYES_OP |-> "WANTYES_OP"]

Asked(s, cmd) == IF cmd = "on" THEN AskedOn[s] ELSE AskedOff[s]

\* Variant with a fault: a request is repeated while one is out.
RequestAgain(s, cmd) ==
  IF s = (IF cmd = "on" THEN "YES" ELSE "NO") THEN <<>> ELSE <<cmd>>

Request(s, cmd) ==
  IF s = (IF cmd = "on" THEN "NO" ELSE "YES") THEN <<cmd>> ELSE <<>>

-----------------------------------------------------------------------------
(* _negotiate: the state after a command, and the answer to it.            *)

\* Variant with a fault: the table is not asked.
SupportsAll(e, l) == TRUE

\* _check_telopt
Supports(e, l) == l \in (IF e = "server" THEN Telopts ELSE accepts)

HeardOn ==
  [YES |-> "YES", WANTNO |-> "NO", WANTNO_OP |-> "YES",
   WANTYES |-> "YES", WANTYES_OP |-> "WANTNO"]

HeardOff ==
  [NO |-> "NO", YES |-> "NO", WANTNO |-> "NO", WANTNO_OP |-> "WANTYES",
   WANTYES |-> "NO", WANTYES_OP |-> "NO"]

Heard(s, cmd, supported) ==
  IF cmd = "off" THEN HeardOff[s]
  ELSE IF s # "NO" THEN HeardOn[s]
  ELSE IF supported THEN "YES" ELSE "NO"

\* Variants with a fault: every command is answered, or turning off is not.
AnswerAlways(s, cmd, supported) ==
  IF cmd = "on" /\ (s # "NO" \/ supported) THEN <<"on">> ELSE <<"off">>

AnswerSilent(s, cmd, supported) ==
  CASE cmd = "on" /\ s = "NO" -> <<IF supported THEN "on" ELSE "off">>
    [] cmd = "on" /\ s = "WANTYES_OP" -> <<"off">>
    [] cmd = "off" /\ s = "WANTNO_OP" -> <<"on">>
    [] OTHER -> <<>>

Answer(s, cmd, supported) ==
  CASE cmd = "on" /\ s = "NO" -> <<IF supported THEN "on" ELSE "off">>
    [] cmd = "on" /\ s = "WANTYES_OP" -> <<"off">>
    [] cmd = "off" /\ s = "YES" -> <<"off">>
    [] cmd = "off" /\ s = "WANTNO_OP" -> <<"on">>
    [] OTHER -> <<>>

-----------------------------------------------------------------------------
\* TelnetServerConnection::didOpen
DidOpen ==
  /\ ~opened
  /\ opened' = TRUE
  /\ q' = [q EXCEPT !["server"] =
             [l \in Links |-> IF l \in Opening THEN Asked(@[l], "on") ELSE @[l]]]
  /\ wire' = [wire EXCEPT !["server"] =
                [l \in Links |-> IF l \in Opening
                                 THEN @[l] \o Request(q["server"][l], "on")
                                 ELSE @[l]]]
  /\ UNCHANGED <<accepts, asks, wish>>

\* The client's user turns an option on or off.
Ask(l, cmd) ==
  /\ asks < MaxAsks
  /\ asks' = asks + 1
  /\ q' = [q EXCEPT !["client"][l] = Asked(@, cmd)]
  /\ wire' = [wire EXCEPT !["client"][l] = @ \o Request(q["client"][l], cmd)]
  /\ wish' = [wish EXCEPT ![l] = cmd]
  /\ UNCHANGED <<accepts, opened>>

\* An end receives a command.
Receive(e, l) ==
  LET in == wire[Other(e)][l]
      s  == q[e][l]
  IN  /\ e = "server" => opened
      /\ in # <<>>
      /\ q' = [q EXCEPT ![e][l] = Heard(s, Head(in), Supports(e, l))]
      /\ wire' = [wire EXCEPT
                    ![Other(e)][l] = Tail(@),
                    ![e][l] = @ \o Answer(s, Head(in), Supports(e, l))]
      /\ wish' = IF e = "client" /\ Head(in) = "on" /\ s = "NO"
                 THEN [wish EXCEPT ![l] = "none"] ELSE wish
      /\ UNCHANGED <<accepts, opened, asks>>

Next ==
  \/ DidOpen
  \/ \E l \in Links, cmd \in Commands : Ask(l, cmd)
  \/ \E e \in Ends, l \in Links : Receive(e, l)

Spec == Init /\ [][Next]_vars

\* The server thread runs didOpen and what is sent arrives.
Fairness ==
  /\ WF_vars(DidOpen)
  /\ \A e \in Ends, l \in Links : WF_vars(Receive(e, l))

LiveSpec == Spec /\ Fairness

-----------------------------------------------------------------------------
(* Properties.                                                             *)

Idle(l) == opened /\ \A e \in Ends : wire[e][l] = <<>>

\* When nothing about an option is under way both ends agree on it, and neither
\* still waits for an answer, however their requests crossed.
Agreement ==
  \A l \in Links :
    Idle(l) => q["server"][l] = q["client"][l] /\ q["server"][l] \in {"YES", "NO"}

\* The user's last word counts: what he turned off is off, and what he turned on
\* is on if the server supports it.
LastWordCounts ==
  \A l \in Links : Idle(l) =>
    /\ wish[l] = "off" => q["client"][l] = "NO"
    /\ wish[l] = "on" /\ l \in Telopts => q["client"][l] = "YES"

\* The server performs, or lets the client perform, nothing that it neither
\* supports nor asked for.
OnlyOffered ==
  \A l \in Links : q["server"][l] = "YES" => l \in Telopts \cup Opening

\* However often the user changes his mind, an option has at most two commands
\* of an end on the wire.
FewInFlight == \A e \in Ends, l \in Links : Len(wire[e][l]) <= 2

\* Negotiation ends: no answer is answered for ever.
Settles == <>[](\A l \in Links : Idle(l))

=============================================================================
