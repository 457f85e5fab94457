--------------------------- MODULE SessionService ---------------------------
(***************************************************************************)
(* What a TCPServer promises to its clients, without descriptors, select() *)
(* or the table of connections: sessions are served in the order they      *)
(* arrive, and one that is served ends only because its client left, the   *)
(* service hung up on it (a terminal's "bye"), or the service closes down. *)
(***************************************************************************)
EXTENDS Integers

CONSTANTS
  MaxSessions,  \* bound: sessions that ever arrive
  mayHangUp     \* may the service end a session of its own accord?

Sessions == 1..MaxSessions

VARIABLES
  open,     \* new sessions may arrive
  closing,  \* the service is closing down
  stage,    \* "none", "queued", "accepted" or "closed"
  left      \* the sessions whose client has gone

vars == <<open, closing, stage, left>>

Init ==
  /\ open = FALSE
  /\ closing = FALSE
  /\ stage = [s \in Sessions |-> "none"]
  /\ left = {}

Open ==
  /\ ~open /\ ~closing
  /\ open' = TRUE
  /\ UNCHANGED <<closing, stage, left>>

Arrive(s) ==
  /\ open /\ stage[s] = "none"
  /\ stage' = [stage EXCEPT ![s] = "queued"]
  /\ UNCHANGED <<open, closing, left>>

\* First come, first served.
Serve(s) ==
  /\ open /\ stage[s] = "queued"
  /\ \A t \in Sessions : t < s => stage[t] # "queued"
  /\ stage' = [stage EXCEPT ![s] = "accepted"]
  /\ UNCHANGED <<open, closing, left>>

\* A client leaves; one that still waits may lose its place at once.
Leave(s) ==
  /\ stage[s] # "none"
  /\ left' = left \cup {s}
  /\ \/ UNCHANGED stage
     \/ stage[s] = "queued" /\ stage' = [stage EXCEPT ![s] = "closed"]
  /\ UNCHANGED <<open, closing>>

End(s) ==
  /\ stage[s] = "accepted"
  /\ s \in left \/ mayHangUp \/ closing
  /\ stage' = [stage EXCEPT ![s] = "closed"]
  /\ UNCHANGED <<open, closing, left>>

CloseDown ==
  /\ ~closing
  /\ closing' = TRUE
  /\ UNCHANGED <<open, stage, left>>

\* No more arrivals, and those that wait are turned away.
Shut ==
  /\ closing /\ open
  /\ open' = FALSE
  /\ stage' = [s \in Sessions |->
                 IF stage[s] = "queued" THEN "closed" ELSE stage[s]]
  /\ UNCHANGED <<closing, left>>

\* The close is complete: nobody is being served.
Closed ==
  /\ closing /\ ~open
  /\ \A s \in Sessions : stage[s] \notin {"queued", "accepted"}
  /\ closing' = FALSE
  /\ UNCHANGED <<open, stage, left>>

Next ==
  \/ Open \/ CloseDown \/ Shut \/ Closed
  \/ \E s \in Sessions : Arrive(s) \/ Serve(s) \/ Leave(s) \/ End(s)

Spec == Init /\ [][Next]_vars

=============================================================================
