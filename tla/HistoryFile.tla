----------------------------- MODULE HistoryFile -----------------------------
(***************************************************************************)
(* The history file that the terminals of a telnet server share.  Each     *)
(* CmdLineBuffer reads it when it is made (readHistoryFile), keeps a       *)
(* history of its own and writes all of it after each command that it      *)
(* records (storeCmdInHistory, saveHistoryFile) and when it is cleared     *)
(* (doCmdHistory).  A save truncates the file and writes it line by line:  *)
(* the process may end in between, and the disk may be full, so that a     *)
(* line is written in part or without its end.                             *)
(*                                                                         *)
(* The terminals of a server run on its thread, so a save is not           *)
(* interleaved with what the other terminals do.                           *)
(***************************************************************************)
EXTENDS Naturals, Sequences

CONSTANTS
  Terminals,  \* terminals that may be connected at the same time
  Characters, \* what a line may hold
  Commands,   \* command lines that are recorded
  MaxLines    \* bound: lines of a history

ASSUME CommandsAssumption == Commands \subseteq Seq(Characters) \ {<<>>}

VARIABLES
  file,      \* the file: {} if there is none, or {[lines |-> those that have an
             \* end, rest |-> what follows the last end]}
  up,        \* the terminals that are connected
  history,   \* _history of each
  unsaved,   \* the lines that the save under way has still to write
  latest,    \* ghost: the history that changed last
  save       \* ghost: what became of its save: "done" (also while it is written),
             \* "cut" short, or "refused" as the file could not be opened

vars == <<file, up, history, unsaved, latest, save>>

Init ==
  /\ file = {}
  /\ up = {}
  /\ history = [t \in Terminals |-> <<>>]
  /\ unsaved = <<>>
  /\ latest = <<>>
  /\ save = "done"

Empty == [lines |-> <<>>, rest |-> <<>>]

\* What getline makes of a file: what has no end is a line too.
LinesRead(f) == IF f.rest = <<>> THEN f.lines ELSE Append(f.lines, f.rest)

\* No save is under way: the thread is free for the next event.
Free == unsaved = <<>>

\* readHistoryFile, for a new CmdLineBuffer
DidConnect(t) ==
  /\ Free /\ t \notin up
  /\ up' = up \cup {t}
  /\ history' = [history EXCEPT ![t] = IF file = {} THEN <<>>
                                          ELSE LinesRead(CHOOSE f \in file : TRUE)]
  /\ UNCHANGED <<file, unsaved, latest, save>>

DidDisconnect(t) ==
  /\ Free /\ t \in up
  /\ up' = up \ {t}
  /\ history' = [history EXCEPT ![t] = <<>>]
  /\ UNCHANGED <<file, unsaved, latest, save>>

\* Variant with a fault: the file is opened for appending.
SaveAppends(lines) ==
  \/ /\ file' = IF file = {} THEN {Empty} ELSE file
     /\ unsaved' = lines
     /\ save' = "done"
  \/ UNCHANGED <<file, unsaved>> /\ save' = "refused"

\* saveHistoryFile up to its loop: the file is empty now, or cannot be opened.
SaveHistoryFile(lines) ==
  \/ /\ file' = {Empty}
     /\ unsaved' = lines
     /\ save' = "done"
  \/ UNCHANGED <<file, unsaved>> /\ save' = "refused"

\* The history of t becomes lines.
Change(t, lines) ==
  /\ history' = [history EXCEPT ![t] = lines]
  /\ latest' = lines
  /\ SaveHistoryFile(lines)
  /\ UNCHANGED up

\* storeCmdInHistory: a command that repeats the last one is not recorded.
StoreCmdInHistory(t, cmd) ==
  /\ Free /\ t \in up
  /\ Len(history[t]) < MaxLines
  /\ ~(history[t] # <<>> /\ cmd = history[t][Len(history[t])])
  /\ Change(t, Append(history[t], cmd))

\* history -c
ClearHistory(t) ==
  /\ Free /\ t \in up
  /\ Change(t, <<>>)

WriteLine ==
  /\ ~Free
  /\ file' = {[f EXCEPT !.lines = Append(@, Head(unsaved))] : f \in file}
  /\ unsaved' = Tail(unsaved)
  /\ UNCHANGED <<up, history, latest, save>>

\* A part of the next line reaches the file, or all of it but its end.
Torn ==
  \E n \in 0 .. Len(Head(unsaved)) :
    file' = {[f EXCEPT !.rest = SubSeq(Head(unsaved), 1, n)] : f \in file}

\* Nobody looks whether the stream is still good: the rest is not written.
WriteFails ==
  /\ ~Free
  /\ Torn
  /\ unsaved' = <<>>
  /\ save' = "cut"
  /\ UNCHANGED <<up, history, latest>>

\* The process ends and is started again.  A line longer than the stream's buffer
\* is written in pieces, so that it too may be torn.
Crash ==
  /\ IF Free THEN UNCHANGED <<file, save>> ELSE Torn /\ save' = "cut"
  /\ up' = {}
  /\ history' = [t \in Terminals |-> <<>>]
  /\ unsaved' = <<>>
  /\ UNCHANGED latest

Next ==
  \/ \E t \in Terminals :
       \/ DidConnect(t) \/ DidDisconnect(t) \/ ClearHistory(t)
       \/ \E cmd \in Commands : StoreCmdInHistory(t, cmd)
  \/ WriteLine \/ WriteFails \/ Crash

Spec == Init /\ [][Next]_vars

-----------------------------------------------------------------------------
IsPrefix(s, t) == Len(s) <= Len(t) /\ s = SubSeq(t, 1, Len(s))

\* Once it is written the file is the history of the terminal that changed its
\* own last, and what the next terminal starts with: nothing of an older file
\* stays in it, no command that terminal ran or knew is missing, and nothing that
\* was not a line of it is read as one.  While it is written it is the beginning
\* of that history.  When the rest is never written it is a beginning and, at
\* most, a part of the line that comes next: that part is the only command which
\* nobody ran that the next terminal can find (saveHistoryFile, readHistoryFile).
FileIsLatest ==
  /\ Free /\ save = "done" => \A f \in file : LinesRead(f) = latest /\ f.rest = <<>>
  /\ ~Free => \A f \in file : f.rest = <<>> /\ f.lines \o unsaved = latest
  /\ save = "cut" => \A f \in file :
       /\ IsPrefix(f.lines, latest)
       /\ f.rest # <<>> => /\ Len(f.lines) < Len(latest)
                           /\ IsPrefix(f.rest, latest[Len(f.lines) + 1])

=============================================================================
