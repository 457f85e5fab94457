-------------------------- MODULE HistoryFileProofs --------------------------
(***************************************************************************)
(* Proof that the history file is what HistoryFile promises of it, for any *)
(* terminals, commands and length of a history, and whatever save fails or *)
(* is cut short by the end of the process.                                 *)
(***************************************************************************)
EXTENDS HistoryFile, TLAPS

Line == Seq(Characters)
Lines == Seq(Line)
Files == [lines : Lines, rest : Line]

FileTypeOK ==
  /\ file = {} \/ \E f \in Files : file = {f}
  /\ history \in [Terminals -> Lines]
  /\ unsaved \in Lines
  /\ latest \in Lines

\* A save that is under way has not failed so far.
IInv == FileTypeOK /\ (~Free => save = "done") /\ FileIsLatest

-----------------------------------------------------------------------------
(* Sequences.                                                              *)

LEMMA EmptySave ==
  ASSUME NEW S, NEW s \in Seq(S)
  PROVE  <<>> \o s = s /\ s \o <<>> = s
  OBVIOUS

\* Moving the first line that is left to the file.
LEMMA MoveLine ==
  ASSUME NEW S, NEW f \in Seq(S), NEW u \in Seq(S), u # <<>>
  PROVE  /\ Append(f, Head(u)) \in Seq(S)
         /\ Tail(u) \in Seq(S)
         /\ Append(f, Head(u)) \o Tail(u) = f \o u
  OBVIOUS

LEMMA PrefixOfConcat ==
  ASSUME NEW S, NEW f \in Seq(S), NEW u \in Seq(S)
  PROVE  IsPrefix(f, f \o u)
<1>1. Len(f) <= Len(f \o u)
  OBVIOUS
<1>2. f = SubSeq(f \o u, 1, Len(f))
  OBVIOUS
<1> QED
  BY <1>1, <1>2 DEF IsPrefix

\* The line that comes next is the first of those that are left.
LEMMA NextLine ==
  ASSUME NEW S, NEW f \in Seq(S), NEW u \in Seq(S), u # <<>>
  PROVE  /\ Len(f) < Len(f \o u)
         /\ (f \o u)[Len(f) + 1] = Head(u)
         /\ Head(u) \in S
<1>1. Len(u) > 0 /\ Len(f) \in Nat /\ Len(u) \in Nat
  OBVIOUS
<1>2. Len(f \o u) = Len(f) + Len(u)
  OBVIOUS
<1> QED
  BY <1>1, <1>2

LEMMA Beginning ==
  ASSUME NEW S, NEW s \in Seq(S), NEW n \in 0 .. Len(s)
  PROVE  SubSeq(s, 1, n) \in Seq(S) /\ IsPrefix(SubSeq(s, 1, n), s)
<1>1. SubSeq(s, 1, n) \in Seq(S) /\ Len(SubSeq(s, 1, n)) = n /\ n <= Len(s)
  OBVIOUS
<1> QED
  BY <1>1 DEF IsPrefix

-----------------------------------------------------------------------------
(* Each step keeps the invariant.                                          *)

LEMMA InitIInv == Init => IInv
<1>1. <<>> \in Lines
  BY DEF Lines
<1> QED
  BY <1>1 DEF Init, IInv, FileTypeOK, FileIsLatest, Free

LEMMA EmptyFile == Empty \in Files /\ Empty.lines = <<>> /\ Empty.rest = <<>>
  BY DEF Empty, Files, Lines, Line

LEMMA ChangeIInv ==
  ASSUME IInv, Free, NEW t \in Terminals, NEW lines \in Lines, Change(t, lines)
  PROVE  IInv'
<1>1. history' \in [Terminals -> Lines] /\ latest' = lines
  BY DEF IInv, FileTypeOK, Change
<1>2. CASE file' = {Empty} /\ unsaved' = lines /\ save' = "done"
  <2>1. <<>> \in Lines /\ <<>> \o lines = lines
    BY EmptySave DEF Lines
  <2>2. FileTypeOK'
    BY <1>1, <1>2, EmptyFile DEF FileTypeOK
  <2>3. \A f \in file' : f.lines = <<>> /\ f.rest = <<>>
    BY <1>2, EmptyFile
  <2>4. FileIsLatest'
    BY <1>1, <1>2, <2>1, <2>3 DEF FileIsLatest, Free, LinesRead
  <2> QED
    BY <1>2, <2>2, <2>4 DEF IInv
<1>3. CASE UNCHANGED <<file, unsaved>> /\ save' = "refused"
  BY <1>1, <1>3 DEF IInv, FileTypeOK, FileIsLatest, Free
<1> QED
  BY <1>2, <1>3 DEF Change, SaveHistoryFile

LEMMA WriteLineIInv ==
  ASSUME IInv, WriteLine
  PROVE  IInv'
<1>1. /\ unsaved # <<>> /\ save = "done"
      /\ file' = {[f EXCEPT !.lines = Append(@, Head(unsaved))] : f \in file}
      /\ unsaved' = Tail(unsaved)
      /\ UNCHANGED <<history, latest, save>>
  BY DEF WriteLine, IInv, Free
<1>2. unsaved \in Lines /\ unsaved' \in Lines
  BY <1>1, MoveLine DEF IInv, FileTypeOK, Lines
<1>3. CASE file = {}
  <2>1. file' = {}
    BY <1>1, <1>3
  <2> QED
    BY <1>1, <1>2, <2>1 DEF IInv, FileTypeOK, FileIsLatest, Free
<1>4. CASE \E f \in Files : file = {f}
  <2>1. PICK f \in Files : file = {f}
    BY <1>4
  <2> DEFINE g == [f EXCEPT !.lines = Append(@, Head(unsaved))]
  <2>2. file' = {g}
    BY <1>1, <2>1
  <2>3. g.lines = Append(f.lines, Head(unsaved)) /\ g.rest = f.rest
        /\ f.lines \in Lines /\ f.rest \in Line
    BY <2>1 DEF Files
  <2>4. Append(f.lines, Head(unsaved)) \in Lines
        /\ Append(f.lines, Head(unsaved)) \o unsaved' = f.lines \o unsaved
    BY <1>1, <1>2, <2>3, MoveLine DEF Lines
  <2>5. g \in Files
    BY <2>1, <2>4 DEF Files
  <2>6. g.rest = <<>> /\ g.lines \o unsaved' = latest' /\ g.lines \in Lines
    BY <1>1, <2>1, <2>3, <2>4 DEF IInv, FileIsLatest, Free
  <2>7. unsaved' = <<>> => g.lines = latest'
    BY <2>6, EmptySave DEF Lines
  <2> HIDE DEF g
  <2>8. FileTypeOK'
    BY <1>1, <1>2, <2>2, <2>5 DEF IInv, FileTypeOK
  <2>9. FileIsLatest'
    BY <1>1, <2>2, <2>6, <2>7 DEF FileIsLatest, Free, LinesRead
  <2> QED
    BY <1>1, <2>8, <2>9 DEF IInv
<1> QED
  BY <1>3, <1>4 DEF IInv, FileTypeOK

\* What a save that ends early leaves is a beginning of the history and at most a
\* part of the line that comes next.
LEMMA EndsTorn ==
  ASSUME IInv, ~Free, Torn, unsaved' = <<>>, save' = "cut", latest' = latest,
         history' \in [Terminals -> Lines]
  PROVE  IInv'
<1>1. /\ unsaved \in Lines /\ unsaved # <<>> /\ latest \in Lines
      /\ Head(unsaved) \in Line
  BY DEF IInv, FileTypeOK, Free, Lines
<1>2. <<>> \in Lines
  BY DEF Lines
<1>3. PICK n \in 0 .. Len(Head(unsaved)) :
        file' = {[f EXCEPT !.rest = SubSeq(Head(unsaved), 1, n)] : f \in file}
  BY DEF Torn
<1> DEFINE piece == SubSeq(Head(unsaved), 1, n)
<1>4. piece \in Line /\ IsPrefix(piece, Head(unsaved))
  BY <1>1, <1>3, Beginning DEF Line
<1>5. file' = {[f EXCEPT !.rest = piece] : f \in file}
  BY <1>3
<1> HIDE DEF piece
<1>6. CASE file = {}
  <2>1. file' = {}
    BY <1>5, <1>6
  <2> QED
    BY <1>1, <1>2, <2>1 DEF IInv, FileTypeOK, FileIsLatest, Free
<1>7. CASE \E f \in Files : file = {f}
  <2>1. PICK f \in Files : file = {f}
    BY <1>7
  <2> DEFINE g == [f EXCEPT !.rest = piece]
  <2>2. file' = {g}
    BY <1>5, <2>1
  <2>3. g.lines = f.lines /\ g.rest = piece /\ f.lines \in Lines /\ g \in Files
    BY <1>4, <2>1 DEF Files
  <2>4. f.lines \o unsaved = latest
    BY <2>1 DEF IInv, FileIsLatest
  <2>5. IsPrefix(f.lines, latest)
    BY <1>1, <2>3, <2>4, PrefixOfConcat DEF Lines
  <2>6. Len(f.lines) < Len(latest) /\ latest[Len(f.lines) + 1] = Head(unsaved)
    BY <1>1, <2>3, <2>4, NextLine DEF Lines
  <2> HIDE DEF g
  <2>7. FileTypeOK'
    BY <1>1, <1>2, <2>2, <2>3 DEF FileTypeOK
  <2>8. FileIsLatest'
    BY <1>4, <2>2, <2>3, <2>5, <2>6 DEF FileIsLatest, Free, IsPrefix
  <2> QED
    BY <2>7, <2>8 DEF IInv, Free
<1> QED
  BY <1>6, <1>7 DEF IInv, FileTypeOK

LEMMA NextIInv ==
  ASSUME IInv, [Next]_vars
  PROVE  IInv'
<1>1. CASE UNCHANGED vars
  BY <1>1 DEF vars, IInv, FileTypeOK, FileIsLatest, Free, IsPrefix, LinesRead
<1>2. ASSUME NEW t \in Terminals, DidConnect(t)
      PROVE  IInv'
  <2>1. (IF file = {} THEN <<>> ELSE LinesRead(CHOOSE f \in file : TRUE)) \in Lines
    <3>1. \A f \in Files : LinesRead(f) \in Lines
      BY DEF Files, LinesRead, Lines
    <3>2. <<>> \in Lines
      BY DEF Lines
    <3> QED
      BY <3>1, <3>2 DEF IInv, FileTypeOK
  <2>2. FileTypeOK'
    BY <1>2, <2>1 DEF DidConnect, IInv, FileTypeOK
  <2>3. FileIsLatest'
    BY <1>2 DEF DidConnect, IInv, FileIsLatest, Free, IsPrefix, LinesRead
  <2> QED
    BY <1>2, <2>2, <2>3 DEF DidConnect, IInv, Free
<1>3. ASSUME NEW t \in Terminals, DidDisconnect(t)
      PROVE  IInv'
  <2>1. <<>> \in Lines
    BY DEF Lines
  <2>2. FileTypeOK'
    BY <1>3, <2>1 DEF DidDisconnect, IInv, FileTypeOK
  <2>3. FileIsLatest'
    BY <1>3 DEF DidDisconnect, IInv, FileIsLatest, Free, IsPrefix, LinesRead
  <2> QED
    BY <1>3, <2>2, <2>3 DEF DidDisconnect, IInv, Free
<1>4. ASSUME NEW t \in Terminals, NEW cmd \in Commands, StoreCmdInHistory(t, cmd)
      PROVE  IInv'
  <2>1. Append(history[t], cmd) \in Lines
    BY CommandsAssumption DEF IInv, FileTypeOK, Lines, Line
  <2> QED
    BY <1>4, <2>1, ChangeIInv DEF StoreCmdInHistory
<1>5. ASSUME NEW t \in Terminals, ClearHistory(t)
      PROVE  IInv'
  <2>1. <<>> \in Lines
    BY DEF Lines
  <2> QED
    BY <1>5, <2>1, ChangeIInv DEF ClearHistory
<1>6. CASE WriteFails
  BY <1>6, EndsTorn DEF WriteFails, IInv, FileTypeOK
<1>7. CASE Crash
  <2>1. history' \in [Terminals -> Lines]
    BY <1>7 DEF Crash, Lines
  <2>2. CASE Free
    <3>1. UNCHANGED <<file, save, latest>> /\ unsaved' = unsaved
      BY <1>7, <2>2 DEF Crash, Free
    <3>2. FileTypeOK'
      BY <2>1, <3>1 DEF IInv, FileTypeOK
    <3>3. FileIsLatest'
      BY <3>1 DEF IInv, FileIsLatest, Free, IsPrefix, LinesRead
    <3> QED
      BY <3>1, <3>2, <3>3 DEF IInv, Free
  <2>3. CASE ~Free
    BY <1>7, <2>1, <2>3, EndsTorn DEF Crash
  <2> QED
    BY <2>2, <2>3
<1> QED
  BY <1>1, <1>2, <1>3, <1>4, <1>5, <1>6, <1>7, WriteLineIInv DEF Next

\* Once it is written the file is the history that changed last; cut short it is
\* a beginning of it and at most a part of one line more (saveHistoryFile,
\* readHistoryFile).
THEOREM LatestKept == Spec => []FileIsLatest
<1>1. IInv => FileIsLatest
  BY DEF IInv
<1> QED
  BY <1>1, InitIInv, NextIInv, PTL DEF Spec

=============================================================================
