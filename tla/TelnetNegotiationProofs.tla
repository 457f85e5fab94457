------------------------ MODULE TelnetNegotiationProofs ------------------------
(***************************************************************************)
(* Proofs about TelnetNegotiation, for every set of options, every table   *)
(* of the client and every number of requests.                             *)
(***************************************************************************)
EXTENDS TelnetNegotiation, SequenceTheorems, TLAPS

-----------------------------------------------------------------------------
(* Short streams.                                                          *)

\* Appending a command to a stream of one command.
LEMMA OneAndOne ==
  ASSUME NEW a \in Commands, NEW b \in Commands
  PROVE  <<a>> \o <<b>> = <<a, b>>
<1> DEFINE s == <<a>> \o <<b>>
           t == <<a, b>>
<1>1. <<a>> \in Seq(Commands) /\ <<b>> \in Seq(Commands)
  OBVIOUS
<1>2. s \in Seq(Commands) /\ Len(s) = 2 /\ s[1] = a /\ s[2] = b
  BY <1>1, ConcatProperties
<1>3. t \in Seq(Commands) /\ Len(t) = 2 /\ t[1] = a /\ t[2] = b
  OBVIOUS
<1> HIDE DEF s, t
<1>4. \A i \in 1..Len(s) : s[i] = t[i]
  BY <1>2, <1>3
<1>5. s = t
  BY <1>2, <1>3, <1>4, SeqEqual
<1> QED
  BY <1>5 DEF s, t

\* The five streams that occur, written out for the provers: what is received
\* from them, what is sent to them, and which of them differ.
LEMMA Streams ==
  /\ Head(<<"on">>) = "on" /\ Tail(<<"on">>) = <<>>
  /\ Head(<<"off">>) = "off" /\ Tail(<<"off">>) = <<>>
  /\ Head(<<"on", "off">>) = "on" /\ Tail(<<"on", "off">>) = <<"off">>
  /\ Head(<<"off", "on">>) = "off" /\ Tail(<<"off", "on">>) = <<"on">>
  /\ <<>> \o <<>> = <<>>
  /\ <<>> \o <<"on">> = <<"on">> /\ <<"on">> \o <<>> = <<"on">>
  /\ <<>> \o <<"off">> = <<"off">> /\ <<"off">> \o <<>> = <<"off">>
  /\ <<"on", "off">> \o <<>> = <<"on", "off">>
  /\ <<"off", "on">> \o <<>> = <<"off", "on">>
  /\ <<"on">> \o <<"off">> = <<"on", "off">>
  /\ <<"off">> \o <<"on">> = <<"off", "on">>
  /\ <<"on">> # <<"off">> /\ <<>> # <<"off">> /\ <<>> # <<"on">>
<1>1. /\ Head(<<"on">>) = "on" /\ Tail(<<"on">>) = <<>>
      /\ Head(<<"off">>) = "off" /\ Tail(<<"off">>) = <<>>
      /\ Head(<<"on", "off">>) = "on" /\ Tail(<<"on", "off">>) = <<"off">>
      /\ Head(<<"off", "on">>) = "off" /\ Tail(<<"off", "on">>) = <<"on">>
  OBVIOUS
<1>2. /\ <<>> \in Seq(Commands)
      /\ <<"on">> \in Seq(Commands) /\ <<"off">> \in Seq(Commands)
      /\ <<"on", "off">> \in Seq(Commands) /\ <<"off", "on">> \in Seq(Commands)
  BY DEF Commands
<1>3. /\ <<>> \o <<>> = <<>>
      /\ <<>> \o <<"on">> = <<"on">> /\ <<"on">> \o <<>> = <<"on">>
      /\ <<>> \o <<"off">> = <<"off">> /\ <<"off">> \o <<>> = <<"off">>
      /\ <<"on", "off">> \o <<>> = <<"on", "off">>
      /\ <<"off", "on">> \o <<>> = <<"off", "on">>
  BY <1>2, ConcatEmptySeq
<1>4. /\ <<"on">> \o <<"off">> = <<"on", "off">>
      /\ <<"off">> \o <<"on">> = <<"off", "on">>
  BY OneAndOne DEF Commands
<1>5. <<"on">> # <<"off">> /\ <<>> # <<"off">> /\ <<>> # <<"on">>
  OBVIOUS
<1> QED
  BY <1>1, <1>3, <1>4, <1>5

-----------------------------------------------------------------------------
(* The inductive invariant.                                                *)

Seeking == {"WANTYES", "WANTYES_OP"}
Leaving == {"WANTNO", "WANTNO_OP"}

\* A link while the server has no request of its own out: both ends agree, or a
\* request of the client is on its way, or its answer is.
Asking(s, c, ws, wc) ==
  \/ s = "NO" /\ c = "NO" /\ ws = <<>> /\ wc = <<>>
  \/ s = "YES" /\ c = "YES" /\ ws = <<>> /\ wc = <<>>
  \/ s = "NO" /\ c \in Seeking /\ ws = <<>> /\ wc = <<"on">>
  \/ s = "NO" /\ c \in Leaving \cup Seeking /\ ws = <<"off">> /\ wc = <<>>
  \/ s = "YES" /\ c \in Leaving /\ ws = <<>> /\ wc = <<"off">>
  \/ s = "YES" /\ c \in Seeking /\ ws = <<"on">> /\ wc = <<>>

\* A link while the request of didOpen is out: it, or its answer, is on its way,
\* perhaps across a request of the client.
Crossing(s, c, ws, wc) ==
  /\ s = "WANTYES"
  /\ \/ c = "NO" /\ ws = <<"on">> /\ wc = <<>>
     \/ c = "NO" /\ ws = <<>> /\ wc = <<"off">>
     \/ c = "YES" /\ ws = <<>> /\ wc = <<"on">>
     \/ c \in Seeking /\ ws = <<"on">> /\ wc = <<"on">>
     \/ c \in Seeking /\ ws = <<>> /\ wc = <<"off", "on">>
     \/ c \in Leaving /\ ws = <<>> /\ wc = <<"on", "off">>

\* What is known of a link from its two states and streams, whether the server
\* has opened, and the client's last word.
LinkInv(l, s, c, ws, wc, o, w) ==
  /\ Asking(s, c, ws, wc) \/ Crossing(s, c, ws, wc)
  /\ ~o => s = "NO" /\ ws = <<>>
  /\ s = "WANTYES" => l \in Opening
  /\ s = "YES" => l \in Telopts \cup Opening
  /\ w = "off" => c \in {"NO", "WANTNO", "WANTYES_OP"}
  /\ w = "on" /\ l \in Telopts => c \in {"YES", "WANTYES", "WANTNO_OP"}
  /\ l \in Telopts /\ ws = <<"off">> => c \in Leaving

IInv ==
  /\ TypeOK
  /\ \A l \in Links :
       LinkInv(l, q["server"][l], q["client"][l],
               wire["server"][l], wire["client"][l], opened, wish[l])

-----------------------------------------------------------------------------
(* Each handler keeps the invariant of its link.                           *)

\* The tables of telnet_negotiate and _negotiate, entry by entry.
LEMMA Tables ==
  /\ AskedOn["NO"] = "WANTYES" /\ AskedOn["YES"] = "YES"
  /\ AskedOn["WANTNO"] = "WANTNO_OP" /\ AskedOn["WANTNO_OP"] = "WANTNO_OP"
  /\ AskedOn["WANTYES"] = "WANTYES" /\ AskedOn["WANTYES_OP"] = "WANTYES"
  /\ AskedOff["NO"] = "NO" /\ AskedOff["YES"] = "WANTNO"
  /\ AskedOff["WANTNO"] = "WANTNO" /\ AskedOff["WANTNO_OP"] = "WANTNO"
  /\ AskedOff["WANTYES"] = "WANTYES_OP" /\ AskedOff["WANTYES_OP"] = "WANTYES_OP"
  /\ HeardOn["YES"] = "YES"
  /\ HeardOn["WANTNO"] = "NO" /\ HeardOn["WANTNO_OP"] = "YES"
  /\ HeardOn["WANTYES"] = "YES" /\ HeardOn["WANTYES_OP"] = "WANTNO"
  /\ HeardOff["NO"] = "NO" /\ HeardOff["YES"] = "NO"
  /\ HeardOff["WANTNO"] = "NO" /\ HeardOff["WANTNO_OP"] = "WANTYES"
  /\ HeardOff["WANTYES"] = "NO" /\ HeardOff["WANTYES_OP"] = "NO"
  BY DEF AskedOn, AskedOff, HeardOn, HeardOff

\* didOpen, on a link the server asks about and on the others.
LEMMA OpenKeeps ==
  ASSUME NEW l, NEW s, NEW c, NEW ws, NEW wc, NEW w,
         LinkInv(l, s, c, ws, wc, FALSE, w)
  PROVE  /\ l \in Opening =>
              LinkInv(l, Asked(s, "on"), c, ws \o Request(s, "on"), wc, TRUE, w)
         /\ LinkInv(l, s, c, ws, wc, TRUE, w)
<1>1. LinkInv(l, s, c, ws, wc, TRUE, w)
  BY DEF LinkInv
<1>2. s = "NO" /\ ws = <<>>
  BY DEF LinkInv
<1>3. Asked(s, "on") = "WANTYES" /\ ws \o Request(s, "on") = <<"on">>
  BY <1>2, Tables, Streams DEF Asked, Request
<1>4. \/ c = "NO" /\ wc = <<>>
      \/ c \in Seeking /\ wc = <<"on">>
  BY <1>2, Streams DEF LinkInv, Asking, Crossing
<1>5. ASSUME l \in Opening
      PROVE  LinkInv(l, "WANTYES", c, <<"on">>, wc, TRUE, w)
  <2>1. Crossing("WANTYES", c, <<"on">>, wc)
    BY <1>4 DEF Crossing
  <2> QED
    BY <1>5, <2>1, Streams DEF LinkInv
<1> QED
  BY <1>1, <1>3, <1>5

\* A request of the client's user.
LEMMA AskKeeps ==
  ASSUME NEW l, NEW s, NEW c, NEW ws, NEW wc, NEW o \in BOOLEAN, NEW w,
         NEW cmd \in Commands,
         LinkInv(l, s, c, ws, wc, o, w)
  PROVE  LinkInv(l, s, Asked(c, cmd), ws, wc \o Request(c, cmd), o, cmd)
<1>1. CASE cmd = "on"
  <2> QED
    BY <1>1, Streams, Tables
    DEF LinkInv, Asking, Crossing, Asked, Request, Seeking, Leaving
<1>2. CASE cmd = "off"
  <2> QED
    BY <1>2, Streams, Tables
    DEF LinkInv, Asking, Crossing, Asked, Request, Seeking, Leaving
<1> QED
  BY <1>1, <1>2 DEF Commands

\* The client receives a command.
LEMMA ClientHearKeeps ==
  ASSUME NEW l, NEW s, NEW c, NEW ws, NEW wc, NEW o \in BOOLEAN, NEW w,
         NEW sup \in BOOLEAN,
         LinkInv(l, s, c, ws, wc, o, w), ws # <<>>
  PROVE  LinkInv(l, s, Heard(c, Head(ws), sup), Tail(ws),
                 wc \o Answer(c, Head(ws), sup), o,
                 IF Head(ws) = "on" /\ c = "NO" THEN "none" ELSE w)
<1>1. CASE ws = <<"on">>
  BY <1>1, Streams, Tables
  DEF LinkInv, Asking, Crossing, Heard, Answer, Seeking, Leaving
<1>2. CASE ws = <<"off">>
  BY <1>2, Streams, Tables
  DEF LinkInv, Asking, Crossing, Heard, Answer, Seeking, Leaving
<1> QED
  BY <1>1, <1>2 DEF LinkInv, Asking, Crossing

\* The server receives a command.
LEMMA ServerHearKeeps ==
  ASSUME NEW l, NEW s, NEW c, NEW ws, NEW wc, NEW w,
         NEW sup \in BOOLEAN, sup <=> l \in Telopts,
         LinkInv(l, s, c, ws, wc, TRUE, w), wc # <<>>
  PROVE  LinkInv(l, Heard(s, Head(wc), sup), c,
                 ws \o Answer(s, Head(wc), sup), Tail(wc), TRUE, w)
<1>1. CASE wc = <<"on">>
  BY <1>1, Streams, Tables
  DEF LinkInv, Asking, Crossing, Heard, Answer, Seeking, Leaving
<1>2. CASE wc = <<"off">>
  BY <1>2, Streams, Tables
  DEF LinkInv, Asking, Crossing, Heard, Answer, Seeking, Leaving
<1>3. CASE wc = <<"on", "off">>
  BY <1>3, Streams, Tables
  DEF LinkInv, Asking, Crossing, Heard, Answer, Seeking, Leaving
<1>4. CASE wc = <<"off", "on">>
  BY <1>4, Streams, Tables
  DEF LinkInv, Asking, Crossing, Heard, Answer, Seeking, Leaving
<1> QED
  BY <1>1, <1>2, <1>3, <1>4 DEF LinkInv, Asking, Crossing

-----------------------------------------------------------------------------
(* The invariant holds of every behaviour.                                 *)

\* The operators of the handlers return states and streams.
LEMMA HandlerTypes ==
  ASSUME NEW s \in QStates, NEW cmd \in Commands, NEW sup \in BOOLEAN
  PROVE  /\ Asked(s, cmd) \in QStates /\ Request(s, cmd) \in Seq(Commands)
         /\ Heard(s, cmd, sup) \in QStates /\ Answer(s, cmd, sup) \in Seq(Commands)
<1>1. /\ <<>> \in Seq(Commands) /\ <<cmd>> \in Seq(Commands)
      /\ <<"on">> \in Seq(Commands) /\ <<"off">> \in Seq(Commands)
  BY DEF Commands
<1>2. Request(s, cmd) \in Seq(Commands)
  BY <1>1 DEF Request
<1>3. Answer(s, cmd, sup) \in Seq(Commands)
  BY <1>1 DEF Answer
<1>4. Asked(s, cmd) \in QStates
  BY Tables DEF Asked, QStates
<1>5. Heard(s, cmd, sup) \in QStates
  BY Tables DEF Heard, QStates, Commands
<1> QED
  BY <1>2, <1>3, <1>4, <1>5

\* The invariant holds before anything is sent.
LEMMA InitEstablishes == Init => IInv
<1> SUFFICES ASSUME Init PROVE IInv
  OBVIOUS
<1>1. TypeOK
  <2>1. q \in [Ends -> [Links -> QStates]]
    BY DEF Init, QStates
  <2>2. wire \in [Ends -> [Links -> Seq(Commands)]]
    <3>1. <<>> \in Seq(Commands)
      OBVIOUS
    <3> QED
      BY <3>1 DEF Init
  <2>3. /\ accepts \subseteq Links /\ opened \in BOOLEAN
        /\ wish \in [Links -> Commands \cup {"none"}]
    BY DEF Init
  <2>4. asks \in 0..MaxAsks
    BY AsksAssumption DEF Init
  <2> QED
    BY <2>1, <2>2, <2>3, <2>4 DEF TypeOK
<1>2. ASSUME NEW l \in Links
      PROVE  LinkInv(l, q["server"][l], q["client"][l],
                     wire["server"][l], wire["client"][l], opened, wish[l])
  BY Streams DEF Init, Ends, LinkInv, Asking
<1> QED
  BY <1>1, <1>2 DEF IInv

\* didOpen keeps it: every link is as it was or as OpenKeeps says.
LEMMA OpenStep == IInv /\ DidOpen => IInv'
<1> SUFFICES ASSUME IInv, DidOpen PROVE IInv'
  OBVIOUS
<1> USE DEF Ends
<1>1. ASSUME NEW l \in Links
      PROVE  /\ q'["client"][l] = q["client"][l]
             /\ wire'["client"][l] = wire["client"][l]
             /\ q'["server"][l] = IF l \in Opening THEN Asked(q["server"][l], "on")
                                                   ELSE q["server"][l]
             /\ wire'["server"][l] =
                  IF l \in Opening
                  THEN wire["server"][l] \o Request(q["server"][l], "on")
                  ELSE wire["server"][l]
             /\ wish'[l] = wish[l] /\ opened = FALSE /\ opened' = TRUE
  BY <1>1 DEF DidOpen, IInv, TypeOK
<1>2. TypeOK'
  <2>1. ASSUME NEW l \in Links
        PROVE  /\ Asked(q["server"][l], "on") \in QStates
               /\ wire["server"][l] \o Request(q["server"][l], "on") \in Seq(Commands)
    <3>1. q["server"][l] \in QStates /\ wire["server"][l] \in Seq(Commands)
      BY DEF IInv, TypeOK
    <3>2. /\ Asked(q["server"][l], "on") \in QStates
          /\ Request(q["server"][l], "on") \in Seq(Commands)
      BY <3>1, HandlerTypes DEF Commands
    <3> QED
      BY <3>1, <3>2, ConcatProperties
  <2> QED
    BY <2>1 DEF DidOpen, IInv, TypeOK
<1>3. ASSUME NEW l \in Links
      PROVE  LinkInv(l, q["server"][l], q["client"][l],
                     wire["server"][l], wire["client"][l], opened, wish[l])'
  <2>1. LinkInv(l, q["server"][l], q["client"][l],
                wire["server"][l], wire["client"][l], FALSE, wish[l])
    BY <1>1 DEF IInv
  <2> QED
    BY <1>1, <2>1, OpenKeeps
<1> QED
  BY <1>2, <1>3 DEF IInv

\* A request of the client keeps it, and changes no other link.
LEMMA AskStep ==
  ASSUME NEW k \in Links, NEW cmd \in Commands, IInv, Ask(k, cmd)
  PROVE  IInv'
<1> USE DEF Ends
<1>1. ASSUME NEW l \in Links
      PROVE  /\ q'["server"][l] = q["server"][l]
             /\ wire'["server"][l] = wire["server"][l]
             /\ q'["client"][l] = IF l = k THEN Asked(q["client"][l], cmd)
                                           ELSE q["client"][l]
             /\ wire'["client"][l] =
                  IF l = k THEN wire["client"][l] \o Request(q["client"][l], cmd)
                           ELSE wire["client"][l]
             /\ wish'[l] = IF l = k THEN cmd ELSE wish[l]
             /\ opened' = opened /\ opened \in BOOLEAN
  BY <1>1 DEF Ask, IInv, TypeOK
<1>2. TypeOK'
  <2>1. q["client"][k] \in QStates /\ wire["client"][k] \in Seq(Commands)
    BY DEF IInv, TypeOK
  <2>2. /\ Asked(q["client"][k], cmd) \in QStates
        /\ Request(q["client"][k], cmd) \in Seq(Commands)
    BY <2>1, HandlerTypes
  <2>3. wire["client"][k] \o Request(q["client"][k], cmd) \in Seq(Commands)
    BY <2>1, <2>2, ConcatProperties
  <2> QED
    BY <2>2, <2>3, AsksAssumption DEF Ask, IInv, TypeOK
<1>3. ASSUME NEW l \in Links
      PROVE  LinkInv(l, q["server"][l], q["client"][l],
                     wire["server"][l], wire["client"][l], opened, wish[l])'
  <2>1. LinkInv(l, q["server"][l], q["client"][l],
                wire["server"][l], wire["client"][l], opened, wish[l])
    BY DEF IInv
  <2>2. LinkInv(l, q["server"][l], Asked(q["client"][l], cmd), wire["server"][l],
                wire["client"][l] \o Request(q["client"][l], cmd), opened, cmd)
    BY <1>1, <2>1, AskKeeps
  <2> QED
    BY <1>1, <2>1, <2>2
<1> QED
  BY <1>2, <1>3 DEF IInv

\* A command received by either end keeps it, and changes no other link.
LEMMA ReceiveStep ==
  ASSUME NEW e \in Ends, NEW k \in Links, IInv, Receive(e, k)
  PROVE  IInv'
<1> DEFINE in == wire[Other(e)][k]
           sup == Supports(e, k)
<1>1. /\ in \in Seq(Commands) /\ in # <<>>
      /\ wire[e][k] \in Seq(Commands) /\ q[e][k] \in QStates
      /\ Other(e) \in Ends /\ Other(e) # e
  BY DEF IInv, TypeOK, Receive, Ends, Other
<1>2. Head(in) \in Commands /\ Tail(in) \in Seq(Commands)
  BY <1>1, HeadTailProperties
<1>3. sup \in BOOLEAN
  BY DEF Supports
<1>4. TypeOK'
  <2>1. /\ Heard(q[e][k], Head(in), sup) \in QStates
        /\ Answer(q[e][k], Head(in), sup) \in Seq(Commands)
    BY <1>1, <1>2, <1>3, HandlerTypes
  <2>2. wire[e][k] \o Answer(q[e][k], Head(in), sup) \in Seq(Commands)
    BY <1>1, <2>1, ConcatProperties
  <2>3. /\ q' \in [Ends -> [Links -> QStates]]
        /\ wire' \in [Ends -> [Links -> Seq(Commands)]]
    BY <1>1, <1>2, <2>1, <2>2 DEF Receive, IInv, TypeOK
  <2>4. wish' \in [Links -> Commands \cup {"none"}]
    BY DEF Receive, IInv, TypeOK
  <2> QED
    BY <2>3, <2>4 DEF Receive, IInv, TypeOK
<1>5. ASSUME NEW l \in Links, l # k
      PROVE  LinkInv(l, q["server"][l], q["client"][l],
                     wire["server"][l], wire["client"][l], opened, wish[l])'
  <2>1. /\ q'["server"][l] = q["server"][l] /\ q'["client"][l] = q["client"][l]
        /\ wire'["server"][l] = wire["server"][l]
        /\ wire'["client"][l] = wire["client"][l]
        /\ wish'[l] = wish[l] /\ opened' = opened
    BY <1>1, <1>5 DEF Receive, IInv, TypeOK, Ends
  <2> QED
    BY <2>1 DEF IInv
<1>6. LinkInv(k, q["server"][k], q["client"][k],
              wire["server"][k], wire["client"][k], opened, wish[k])
  BY DEF IInv
<1>7. /\ q'[e][k] = Heard(q[e][k], Head(in), sup)
      /\ q'[Other(e)][k] = q[Other(e)][k]
      /\ wire'[e][k] = wire[e][k] \o Answer(q[e][k], Head(in), sup)
      /\ wire'[Other(e)][k] = Tail(in)
      /\ opened' = opened /\ opened \in BOOLEAN
  BY <1>1 DEF Receive, IInv, TypeOK
<1>8. CASE e = "client"
  <2>1. Other(e) = "server"
    BY <1>8 DEF Other
  <2>2. wish'[k] = IF Head(in) = "on" /\ q["client"][k] = "NO" THEN "none"
                                                            ELSE wish[k]
    BY <1>8 DEF Receive, IInv, TypeOK
  <2>3. LinkInv(k, q["server"][k], Heard(q["client"][k], Head(in), sup), Tail(in),
                wire["client"][k] \o Answer(q["client"][k], Head(in), sup), opened,
                IF Head(in) = "on" /\ q["client"][k] = "NO" THEN "none" ELSE wish[k])
    BY <1>1, <1>3, <1>6, <1>7, <2>1, ClientHearKeeps
  <2>4. LinkInv(k, q["server"][k], q["client"][k],
                wire["server"][k], wire["client"][k], opened, wish[k])'
    BY <1>7, <1>8, <2>1, <2>2, <2>3
  <2> QED
    BY <1>4, <1>5, <2>4 DEF IInv
<1>9. CASE e = "server"
  <2>1. Other(e) = "client" /\ (sup <=> k \in Telopts)
    BY <1>9 DEF Other, Supports
  <2>2. wish'[k] = wish[k] /\ opened = TRUE
    BY <1>9, <1>7 DEF Receive, IInv, TypeOK
  <2>3. LinkInv(k, Heard(q["server"][k], Head(in), sup), q["client"][k],
                wire["server"][k] \o Answer(q["server"][k], Head(in), sup), Tail(in),
                TRUE, wish[k])
    BY <1>1, <1>3, <1>6, <2>1, <2>2, ServerHearKeeps
  <2>4. LinkInv(k, q["server"][k], q["client"][k],
                wire["server"][k], wire["client"][k], opened, wish[k])'
    BY <1>7, <1>9, <2>1, <2>2, <2>3
  <2> QED
    BY <1>4, <1>5, <2>4 DEF IInv
<1> QED
  BY <1>8, <1>9 DEF Ends

\* The invariant holds in every reachable state.
THEOREM InvCorrect == Spec => []IInv
<1>1. IInv /\ [Next]_vars => IInv'
  <2> SUFFICES ASSUME IInv, [Next]_vars PROVE IInv'
    OBVIOUS
  <2>1. CASE DidOpen
    BY <2>1, OpenStep
  <2>2. CASE \E l \in Links, cmd \in Commands : Ask(l, cmd)
    BY <2>2, AskStep
  <2>3. CASE \E e \in Ends, l \in Links : Receive(e, l)
    BY <2>3, ReceiveStep
  <2>4. CASE UNCHANGED vars
    BY <2>4 DEF vars, IInv, TypeOK
  <2> QED
    BY <2>1, <2>2, <2>3, <2>4 DEF Next
<1> QED
  BY InitEstablishes, <1>1, PTL DEF Spec

-----------------------------------------------------------------------------
(* What follows from it.                                                   *)

\* States, streams and counters keep their types.
THEOREM TypeCorrect == Spec => []TypeOK
<1>1. IInv => TypeOK
  BY DEF IInv
<1> QED
  BY InvCorrect, <1>1, PTL

\* When nothing is under way both ends agree: of the twelve shapes of a link
\* only two have empty streams after the server has opened.
THEOREM AgreementCorrect == Spec => []Agreement
<1>1. IInv => Agreement
  BY Streams DEF IInv, LinkInv, Asking, Crossing, Agreement, Idle, Ends
<1> QED
  BY InvCorrect, <1>1, PTL

\* The user's last word counts: it is kept in the client's state, pending or
\* not, and the server refuses only what it does not support.
THEOREM LastWordCorrect == Spec => []LastWordCounts
<1>1. IInv => LastWordCounts
  <2> SUFFICES ASSUME IInv, NEW l \in Links, Idle(l)
               PROVE  /\ wish[l] = "off" => q["client"][l] = "NO"
                      /\ wish[l] = "on" /\ l \in Telopts => q["client"][l] = "YES"
    BY DEF LastWordCounts
  <2>1. q["client"][l] \in {"YES", "NO"}
    BY Streams DEF IInv, LinkInv, Asking, Crossing, Idle, Ends
  <2> QED
    BY <2>1 DEF IInv, LinkInv
<1> QED
  BY InvCorrect, <1>1, PTL

\* The server turns on only what it supports or asked for.
THEOREM OnlyOfferedCorrect == Spec => []OnlyOffered
<1>1. IInv => OnlyOffered
  BY DEF IInv, LinkInv, OnlyOffered
<1> QED
  BY InvCorrect, <1>1, PTL

\* No end has more than two commands about a link on the wire.
THEOREM FewInFlightCorrect == Spec => []FewInFlight
<1>1. IInv => FewInFlight
  <2>1. /\ Len(<<>>) <= 2 /\ Len(<<"on">>) <= 2 /\ Len(<<"off">>) <= 2
        /\ Len(<<"on", "off">>) <= 2 /\ Len(<<"off", "on">>) <= 2
    OBVIOUS
  <2>2. ASSUME IInv, NEW l \in Links
        PROVE  Len(wire["server"][l]) <= 2 /\ Len(wire["client"][l]) <= 2
    <3>1. \/ wire["server"][l] = <<>>
          \/ wire["server"][l] = <<"on">>
          \/ wire["server"][l] = <<"off">>
      BY <2>2 DEF IInv, LinkInv, Asking, Crossing
    <3>2. \/ wire["client"][l] = <<>>
          \/ wire["client"][l] = <<"on">>
          \/ wire["client"][l] = <<"off">>
          \/ wire["client"][l] = <<"on", "off">>
          \/ wire["client"][l] = <<"off", "on">>
      BY <2>2 DEF IInv, LinkInv, Asking, Crossing
    <3>3. Len(wire["server"][l]) <= 2
      BY <2>1, <3>1, Zenon
    <3>4. Len(wire["client"][l]) <= 2
      BY <2>1, <3>2, Zenon
    <3> QED
      BY <3>3, <3>4
  <2> QED
    BY <2>2 DEF FewInFlight, Ends
<1> QED
  BY InvCorrect, <1>1, PTL

=============================================================================
